-------------------------- MODULE StateHashProofs --------------------------
(***************************************************************************)
(* The state hash, for any number of processes, directories and paths: its *)
(* types, what a returned tree is made of, and whose index is written.     *)
(***************************************************************************)
EXTENDS StateHash, TLAPS

\* What the scratch index holds at the stages of a call: nothing before the
\* listing, and afterwards, for every path that is not waiting to be read, what
\* the path held at some moment of the call, or nothing if it is ignored.
Met(k, p) == run[k].was[p] \cup (IF p \in ignored[run[k].dir] THEN {Gone} ELSE {})

Hashing(k) ==
    /\ ~At(k, "idle") => \A p \in Paths : content[run[k].dir][p] \in run[k].was[p]
    /\ At(k, "rev-parse") \/ At(k, "list") => index[k] = EmptyTree
    /\ At(k, "add") => \A p \in Paths : p \notin run[k].todo => index[k][p] \in Met(k, p)
    /\ run[k].ans = "tree" =>
        /\ run[k].dir \in Dirs
        /\ \A p \in Paths : run[k].tree[p] \in Met(k, p)

SInv == TypeOK /\ \A k \in Runs : Hashing(k)

----------------------------------------------------------------------------
\* Whatever a process has inherited, its git commands read the directory the call
\* is about and write the scratch index of the process.
LEMMA ScratchIsOwn ==
    ASSUME TypeOK, NEW k \in Runs
    PROVE  Files(k) = run[k].dir /\ Index(k) = k
<1>1. run[k].env \in Environ /\ k # NoDir
    BY StateHashAssumption DEF TypeOK, Call
<1> DEFINE clean == _git_env(run[k].env)
<1>2. clean = [run[k].env EXCEPT !.GIT_WORK_TREE = NoDir, !.GIT_INDEX_FILE = NoDir]
    BY DEF _git_env
<1>3. Scratch(k) = [clean EXCEPT !.GIT_INDEX_FILE = k]
    BY DEF Scratch, _scratch_git_env
<1>4. Scratch(k).GIT_WORK_TREE = NoDir /\ Scratch(k).GIT_INDEX_FILE = k
    BY <1>1, <1>2, <1>3 DEF Environ
<1> QED
    BY <1>1, <1>4 DEF Files, Index, WorkTree, IndexFile

LEMMA EmptyIsTree == EmptyTree \in Tree
    BY DEF EmptyTree, Tree

LEMMA IdleIsCall == Idle \in Call
    BY EmptyIsTree DEF Idle, Call, Environ

\* A step of process k that leaves the worktrees alone and touches no index but
\* its own preserves the invariant if it does so for k.
OnlyRun(k) ==
    /\ UNCHANGED <<content, repos, ignored, edits>>
    /\ run' = [q \in Runs |-> run'[q]]
    /\ \A q \in Runs : q # k => run'[q] = run[q]
    /\ index' = [x \in Dirs \cup Runs |-> index'[x]]
    /\ \A x \in Dirs \cup Runs : x # k => index'[x] = index[x]

Typed(k) ==
    /\ At(k, "idle") <=> run[k].ans # "in-progress"
    /\ At(k, "idle") => index[k] = EmptyTree
    /\ ~At(k, "idle") => run[k].dir \in Dirs

LEMMA OneRun ==
    ASSUME SInv, NEW k \in Runs, OnlyRun(k), run'[k] \in Call, index'[k] \in Tree,
           Typed(k)', Hashing(k)'
    PROVE  SInv'
<1> USE DEF SInv
<1>1. run' \in [Runs -> Call]
    <2>1. \A q \in Runs : run'[q] \in Call
        BY DEF TypeOK, OnlyRun
    <2> QED
        BY <2>1 DEF OnlyRun
<1>2. index' \in [Dirs \cup Runs -> Tree]
    <2>1. \A x \in Dirs \cup Runs : index'[x] \in Tree
        BY DEF TypeOK, OnlyRun
    <2> QED
        BY <2>1 DEF OnlyRun
<1>3. \A q \in Runs : Typed(q)'
    <2>1. ASSUME NEW q \in Runs, q # k PROVE Typed(q)'
        BY <2>1 DEF TypeOK, Typed, OnlyRun, At
    <2> QED
        BY <2>1
<1>4. TypeOK'
    BY <1>1, <1>2, <1>3 DEF TypeOK, Typed, OnlyRun
<1>5. \A q \in Runs : Hashing(q)'
    <2>1. ASSUME NEW q \in Runs, q # k PROVE Hashing(q)'
        BY <2>1 DEF Hashing, Met, OnlyRun, At
    <2> QED
        BY <2>1
<1> QED
    BY <1>4, <1>5

----------------------------------------------------------------------------
LEMMA BeginStep ==
    ASSUME SInv, NEW k \in Runs, NEW op \in {"is_git_repository", "tree_sha_for_repo"},
           NEW dir \in Dirs, NEW env \in Inherited, Begin(k, op, dir, env)
    PROVE  SInv'
<1> DEFINE was == [p \in Paths |-> {content[dir][p]}]
<1> DEFINE call == [Idle EXCEPT !.pc = "rev-parse", !.op = op, !.dir = dir, !.env = env,
                                !.ans = "in-progress", !.was = was]
<1>1. run' = [run EXCEPT ![k] = call]
    BY DEF Begin
<1>2. content[dir] \in Tree /\ was \in [Paths -> SUBSET (Contents \cup {Gone})]
    BY DEF SInv, TypeOK, Tree
<1>3. env \in Environ
    BY StateHashAssumption
<1>4. call \in Call
    <2> HIDE DEF was
    <2> QED
        BY ONLY IdleIsCall, <1>2, <1>3, dir \in Dirs,
                op \in {"is_git_repository", "tree_sha_for_repo"} DEF Call
<1>5. /\ call.pc = "rev-parse" /\ call.ans = "in-progress" /\ call.dir = dir
      /\ call.was = was
    <2> HIDE DEF was
    <2> QED
        BY IdleIsCall DEF Call
<1>6. run'[k] = call /\ OnlyRun(k) /\ UNCHANGED <<content, index, ignored>>
    BY <1>1 DEF SInv, TypeOK, OnlyRun, Begin
<1>7. index[k] = EmptyTree /\ index[k] \in Tree
    BY DEF SInv, TypeOK, Begin
<1> HIDE DEF call
<1>8. Typed(k)'
    BY <1>5, <1>6, <1>7 DEF Typed, At
<1>9. Hashing(k)'
    BY <1>5, <1>6, <1>7 DEF Hashing, At
<1> QED
    BY <1>4, <1>6, <1>7, <1>8, <1>9, OneRun

\* A call that ends, for whatever reason but success.
LEMMA EndStep ==
    ASSUME SInv, NEW k \in Runs, NEW ans \in {"git", "not-git", "error"},
           run' = [run EXCEPT ![k] = Ended(k, ans)],
           index' = Removed(index, k), UNCHANGED <<content, repos, ignored, edits>>
    PROVE  SInv'
<1>1. run[k] \in Call
    BY DEF SInv, TypeOK
<1>2. Ended(k, ans) = [Idle EXCEPT !.op = run[k].op, !.dir = run[k].dir, !.ans = ans]
    BY DEF Ended
<1>3. Ended(k, ans) \in Call
    BY ONLY <1>1, <1>2, IdleIsCall, ans \in {"git", "not-git", "error"} DEF Call
<1>4. Ended(k, ans).pc = "idle" /\ Ended(k, ans).ans = ans
    BY <1>2, IdleIsCall DEF Call, Idle
<1>5. run'[k] = Ended(k, ans) /\ index'[k] = EmptyTree /\ OnlyRun(k)
    BY DEF SInv, TypeOK, OnlyRun, Removed
<1>6. Typed(k)' /\ Hashing(k)'
    BY <1>4, <1>5 DEF Typed, Hashing, At
<1> QED
    BY <1>3, <1>5, <1>6, EmptyIsTree, OneRun

LEMMA RevParseStep ==
    ASSUME SInv, NEW k \in Runs, RevParse(k)
    PROVE  SInv'
<1>1. PICK inside \in {InsideWorkTree(k)} \cup {FALSE} :
        run' = [run EXCEPT ![k] =
            IF run[k].op = "is_git_repository"
            THEN Ended(k, IF inside THEN "git" ELSE "not-git")
            ELSE IF inside THEN [@ EXCEPT !.pc = "list"] ELSE Ended(k, "error")]
    BY DEF RevParse
<1>2. /\ At(k, "rev-parse") /\ UNCHANGED <<content, repos, ignored, index, edits>>
      /\ index[k] = EmptyTree /\ run[k] \in Call
    BY DEF RevParse, SInv, Hashing, TypeOK
<1>3. index' = Removed(index, k)
    BY <1>2 DEF Removed, SInv, TypeOK
<1>4. CASE run[k].op = "is_git_repository" /\ inside
    <2>1. run' = [run EXCEPT ![k] = Ended(k, "git")]
        BY <1>1, <1>4
    <2> QED
        BY <1>2, <1>3, <2>1, EndStep
<1>5. CASE run[k].op = "is_git_repository" /\ ~inside
    <2>1. run' = [run EXCEPT ![k] = Ended(k, "not-git")]
        BY <1>1, <1>5
    <2> QED
        BY <1>2, <1>3, <2>1, EndStep
<1>6. CASE run[k].op # "is_git_repository" /\ ~inside
    <2>1. run' = [run EXCEPT ![k] = Ended(k, "error")]
        BY <1>1, <1>6
    <2> QED
        BY <1>2, <1>3, <2>1, EndStep
<1>7. CASE run[k].op # "is_git_repository" /\ inside
    <2>1. run' = [run EXCEPT ![k] = [run[k] EXCEPT !.pc = "list"]]
        BY <1>1, <1>7
    <2>2. run'[k] = [run[k] EXCEPT !.pc = "list"] /\ OnlyRun(k)
        BY <1>2, <2>1 DEF SInv, TypeOK, OnlyRun
    <2>3. run'[k] \in Call
        BY ONLY <1>2, <2>2 DEF Call
    <2>4. /\ run'[k].pc = "list" /\ run'[k].ans = run[k].ans /\ run'[k].dir = run[k].dir
          /\ run'[k].was = run[k].was
        BY ONLY <1>2, <2>2 DEF Call
    <2>5. Typed(k)'
        BY <1>2, <2>4 DEF SInv, TypeOK, Typed, At
    <2>6. Hashing(k)'
        BY <1>2, <2>4 DEF SInv, TypeOK, Hashing, At
    <2> QED
        BY <1>2, <2>2, <2>3, <2>5, <2>6, EmptyIsTree, OneRun
<1> QED
    BY <1>4, <1>5, <1>6, <1>7

LEMMA ListStep ==
    ASSUME SInv, NEW k \in Runs, List(k)
    PROVE  SInv'
<1> DEFINE dir == run[k].dir
<1> DEFINE exist == {p \in Paths : content[dir][p] # Gone}
<1> DEFINE todo == {p \in exist : p \notin ignored[dir] \/ index[k][p] # Gone}
<1> DEFINE entries == [p \in Paths |-> IF p \in exist THEN index[k][p] ELSE Gone]
<1>1. Files(k) = dir /\ Index(k) = k
    BY ScratchIsOwn DEF SInv
<1>2. /\ run' = [run EXCEPT ![k].pc = "add", ![k].todo = todo]
      /\ index' = [index EXCEPT ![k] = entries]
      /\ UNCHANGED <<content, repos, ignored, edits>>
    BY <1>1 DEF List, SInv, TypeOK
<1>3. /\ At(k, "list") /\ run[k] \in Call /\ dir \in Dirs /\ index[k] = EmptyTree
      /\ run[k].ans = "in-progress"
      /\ \A p \in Paths : content[dir][p] \in run[k].was[p]
    BY DEF List, SInv, TypeOK, Hashing, At
<1>4. run'[k] = [run[k] EXCEPT !.pc = "add", !.todo = todo] /\ index'[k] = entries /\ OnlyRun(k)
    BY <1>2 DEF SInv, TypeOK, OnlyRun
<1>5. todo \in SUBSET Paths /\ entries \in Tree
    BY <1>3 DEF EmptyTree, Tree
<1>6. run'[k] \in Call
    <2> HIDE DEF todo
    <2> QED
        BY ONLY <1>3, <1>4, <1>5 DEF Call
<1>7. /\ run'[k].pc = "add" /\ run'[k].ans = "in-progress" /\ run'[k].dir = dir
      /\ run'[k].was = run[k].was /\ run'[k].todo = todo
    <2> HIDE DEF todo
    <2> QED
        BY ONLY <1>3, <1>4 DEF Call
<1>8. Typed(k)'
    BY <1>3, <1>7 DEF Typed, At
<1>9. \A p \in Paths : p \notin todo => entries[p] \in Met(k, p)
    BY <1>3 DEF EmptyTree, Met
<1>10. Hashing(k)'
    <2> HIDE DEF todo, entries
    <2> QED
        BY <1>2, <1>3, <1>4, <1>7, <1>9 DEF Hashing, Met, At
<1> QED
    BY <1>4, <1>5, <1>6, <1>8, <1>10, OneRun

LEMMA AddFileStep ==
    ASSUME SInv, NEW k \in Runs, NEW p \in Paths, AddFile(k, p)
    PROVE  SInv'
<1> DEFINE dir == run[k].dir
<1> DEFINE file == content[dir][p]
<1>1. Files(k) = dir /\ Index(k) = k
    BY ScratchIsOwn DEF SInv
<1>2. /\ At(k, "add") /\ run[k] \in Call /\ dir \in Dirs /\ index[k] \in Tree
      /\ run[k].ans = "in-progress" /\ content[dir] \in Tree
      /\ \A q \in Paths : content[dir][q] \in run[k].was[q]
      /\ \A q \in Paths : q \notin run[k].todo => index[k][q] \in Met(k, q)
    BY DEF AddFile, SInv, TypeOK, Hashing, At
<1>3. CASE file = Gone
    <2>1. run' = [run EXCEPT ![k] = Ended(k, "error")] /\ index' = Removed(index, k)
        BY <1>1, <1>3 DEF AddFile
    <2> QED
        BY <2>1, EndStep DEF AddFile
<1>4. CASE file # Gone
    <2>1. /\ run' = [run EXCEPT ![k].todo = run[k].todo \ {p}]
          /\ index' = [index EXCEPT ![k][p] = file]
          /\ UNCHANGED <<content, repos, ignored, edits>>
        BY <1>1, <1>4 DEF AddFile
    <2>2. /\ run'[k] = [run[k] EXCEPT !.todo = run[k].todo \ {p}]
          /\ index'[k] = [index[k] EXCEPT ![p] = file] /\ OnlyRun(k)
        BY <2>1 DEF SInv, TypeOK, OnlyRun
    <2>3. run'[k] \in Call
        BY ONLY <1>2, <2>2 DEF Call
    <2>4. /\ run'[k].pc = "add" /\ run'[k].ans = "in-progress" /\ run'[k].dir = dir
          /\ run'[k].was = run[k].was /\ run'[k].todo = run[k].todo \ {p}
        BY <1>2, <2>2 DEF Call, At
    <2>5. index'[k] \in Tree
        BY <1>2, <2>2 DEF Tree
    <2>6. Typed(k)'
        BY <1>2, <2>4 DEF Typed, At
    <2>7. \A q \in Paths : q \notin run'[k].todo => index'[k][q] \in Met(k, q)
        BY <1>2, <2>2, <2>4 DEF Tree, Met
    <2>8. Hashing(k)'
        BY <1>2, <2>1, <2>4, <2>7 DEF Hashing, Met, At
    <2> QED
        BY <2>2, <2>3, <2>5, <2>6, <2>8, OneRun
<1> QED
    BY <1>3, <1>4

LEMMA WriteTreeStep ==
    ASSUME SInv, NEW k \in Runs, WriteTree(k)
    PROVE  SInv'
<1> DEFINE call == [Ended(k, "tree") EXCEPT !.tree = index[k], !.was = run[k].was]
<1>1. Index(k) = k
    BY ScratchIsOwn DEF SInv
<1>2. /\ At(k, "add") /\ run[k].todo = {} /\ run[k] \in Call /\ index[k] \in Tree
      /\ run[k].dir \in Dirs
      /\ \A p \in Paths : index[k][p] \in Met(k, p)
    BY DEF WriteTree, SInv, TypeOK, Hashing, At
<1>3. run' = [run EXCEPT ![k] = call] /\ index' = Removed(index, k)
      /\ UNCHANGED <<content, repos, ignored, edits>>
    BY <1>1 DEF WriteTree
<1>4. Ended(k, "tree") = [Idle EXCEPT !.op = run[k].op, !.dir = run[k].dir, !.ans = "tree"]
    BY DEF Ended
<1>5. Ended(k, "tree") \in Call
    BY ONLY <1>2, <1>4, IdleIsCall DEF Call
<1>6. Ended(k, "tree").pc = "idle" /\ Ended(k, "tree").ans = "tree"
      /\ Ended(k, "tree").dir = run[k].dir
    BY <1>4, IdleIsCall DEF Call, Idle
<1>7. call \in Call
    BY ONLY <1>2, <1>5 DEF Call
<1>8. /\ call.pc = "idle" /\ call.ans = "tree" /\ call.dir = run[k].dir
      /\ call.tree = index[k] /\ call.was = run[k].was
    BY <1>5, <1>6 DEF Call
<1> HIDE DEF call
<1>9. run'[k] = call /\ index'[k] = EmptyTree /\ OnlyRun(k)
    BY <1>3 DEF SInv, TypeOK, OnlyRun, Removed
<1>10. Typed(k)'
    BY <1>8, <1>9 DEF Typed, At
<1>11. Hashing(k)'
    BY <1>2, <1>3, <1>8, <1>9 DEF Hashing, Met, At
<1> QED
    BY <1>7, <1>9, <1>10, <1>11, EmptyIsTree, OneRun

LEMMA FailStep ==
    ASSUME SInv, NEW k \in Runs, Fail(k)
    PROVE  SInv'
    BY EndStep DEF Fail

\* A process takes a step.
LEMMA ProcessStep ==
    ASSUME SInv, NEW k \in Runs, Step(k)
    PROVE  SInv'
    BY BeginStep, RevParseStep, ListStep, AddFileStep, WriteTreeStep, FailStep DEF Step

\* Somebody edits a file: every running call has met the new content.
LEMMA EditStep ==
    ASSUME SInv, NEW d \in Dirs, NEW p \in Paths, NEW v \in Contents \cup {Gone}, Edit(d, p, v)
    PROVE  SInv'
<1> USE DEF SInv
<1>1. content' = [content EXCEPT ![d][p] = v] /\ UNCHANGED <<repos, ignored, index>>
    BY DEF Edit
<1>2. content' \in [Dirs -> Tree] /\ edits' \in 0..MaxEdits
    BY StateHashAssumption DEF Edit, TypeOK, Tree
<1>3. ASSUME NEW k \in Runs
      PROVE  run'[k] \in Call /\ Typed(k)' /\ Hashing(k)'
    <2>1. run[k] \in Call /\ Typed(k) /\ Hashing(k)
        BY DEF TypeOK, Typed
    <2>2. CASE run[k].dir = d /\ ~At(k, "idle")
        <3>1. run'[k] = [run[k] EXCEPT !.was[p] = @ \cup {v}]
            BY <2>2 DEF Edit
        <3>2. run[k].was \in [Paths -> SUBSET (Contents \cup {Gone})]
            BY <2>1 DEF Call
        <3> DEFINE was == [run[k].was EXCEPT ![p] = @ \cup {v}]
        <3>3. was \in [Paths -> SUBSET (Contents \cup {Gone})]
            BY <3>2
        <3>4. run'[k] = [run[k] EXCEPT !.was = was]
            BY <2>1, <3>1 DEF Call
        <3>5. /\ \A q \in Paths : run[k].was[q] \subseteq was[q]
              /\ v \in was[p]
            BY <3>2
        <3> HIDE DEF was
        <3>6. run'[k] \in Call
            BY ONLY <2>1, <3>3, <3>4 DEF Call
        <3>7. /\ run'[k].pc = run[k].pc /\ run'[k].ans = run[k].ans /\ run'[k].dir = run[k].dir
              /\ run'[k].todo = run[k].todo /\ run'[k].was = was
            BY ONLY <2>1, <3>4 DEF Call
        <3>8. Typed(k)'
            BY <1>1, <2>1, <3>7 DEF Typed, At
        <3>9. \A q \in Paths : content'[run[k].dir][q] \in was[q]
            BY <1>1, <2>1, <2>2, <3>5 DEF Hashing, TypeOK, Tree
        <3>10. run[k].ans # "tree"
            BY <2>1, <2>2 DEF Typed
        <3>11. Hashing(k)'
            BY <1>1, <2>1, <2>2, <3>5, <3>7, <3>9, <3>10 DEF Hashing, Met, At
        <3> QED
            BY <3>6, <3>8, <3>11
    <2>3. CASE ~(run[k].dir = d /\ ~At(k, "idle"))
        <3>1. run'[k] = run[k]
            BY <2>3 DEF Edit
        <3>2. Typed(k)'
            BY <1>1, <2>1, <3>1 DEF Typed, At
        <3>3. ~At(k, "idle") => content'[run[k].dir] = content[run[k].dir]
            BY <1>1, <2>1, <2>3 DEF Typed, TypeOK
        <3>4. Hashing(k)'
            BY <1>1, <2>1, <3>1, <3>3 DEF Hashing, Met, At
        <3> QED
            BY <2>1, <3>1, <3>2, <3>4
    <2> QED
        BY <2>2, <2>3
<1>4. run' \in [Runs -> Call]
    <2>1. run' = [k \in Runs |-> run'[k]]
        BY DEF Edit
    <2> QED
        BY <1>3, <2>1
<1>5. TypeOK'
    BY <1>1, <1>2, <1>3, <1>4 DEF TypeOK, Typed
<1> QED
    BY <1>3, <1>5

\* The user stages a file in the real index, which no process reads.
LEMMA StageStep ==
    ASSUME SInv, NEW d \in Dirs, NEW p \in Paths, Stage(d, p)
    PROVE  SInv'
<1>1. UNCHANGED <<content, repos, ignored, run, edits>>
    BY DEF Stage
<1>2. \A k \in Runs : index'[k] = index[k]
    BY StateHashAssumption DEF Stage, SInv, TypeOK
<1>3. index' \in [Dirs \cup Runs -> Tree]
    <2>1. content[d][p] \in Contents \cup {Gone} /\ index[d] \in Tree
        BY DEF SInv, TypeOK, Tree
    <2>2. [index[d] EXCEPT ![p] = content[d][p]] \in Tree
        BY <2>1 DEF Tree
    <2>3. index' = [index EXCEPT ![d] = [index[d] EXCEPT ![p] = content[d][p]]]
        BY DEF Stage
    <2> QED
        BY <2>2, <2>3 DEF SInv, TypeOK
<1>4. TypeOK'
    BY <1>1, <1>2, <1>3 DEF SInv, TypeOK, At
<1>5. \A k \in Runs : Hashing(k)'
    BY <1>1, <1>2 DEF SInv, Hashing, Met, At
<1> QED
    BY <1>4, <1>5 DEF SInv

LEMMA StutterStep ==
    ASSUME SInv, UNCHANGED vars
    PROVE  SInv'
    BY DEF SInv, TypeOK, Hashing, Met, At, vars

LEMMA InitSInv ==
    ASSUME Init
    PROVE  SInv
<1>1. \A k \in Runs : run[k] = Idle /\ index[k] = EmptyTree
    BY DEF Init
<1>2. Idle.pc = "idle" /\ Idle.ans = "none"
    BY DEF Idle
<1>3. TypeOK
    BY <1>1, <1>2, IdleIsCall, EmptyIsTree, StateHashAssumption DEF Init, TypeOK, At
<1>4. \A k \in Runs : Hashing(k)
    BY <1>1, <1>2 DEF Hashing, At
<1> QED
    BY <1>3, <1>4 DEF SInv

----------------------------------------------------------------------------
\* The invariant holds in every reachable state of the processes that hash.
THEOREM HashInvariance == Spec => []SInv
<1>1. SInv /\ [Next]_vars => SInv'
    BY ProcessStep, EditStep, StageStep, StutterStep, StateHashAssumption DEF Next, User
<1> QED
    BY <1>1, InitSInv, PTL DEF Spec

\* Types are kept, and a call that has ended has left no scratch index.
THEOREM HashTypeCorrect == Spec => []TypeOK
<1>1. SInv => TypeOK
    BY DEF SInv
<1> QED
    BY <1>1, HashInvariance, PTL

\* tree_sha_for_repo: a tree has no content its file did not have during the call,
\* whatever the process inherited and whoever edits, stages or hashes meanwhile.
THEOREM TreesAreOfTheCall == Spec => []EntriesWereThere
<1>1. SInv => EntriesWereThere
    BY DEF SInv, Hashing, Met, EntriesWereThere
<1> QED
    BY <1>1, HashInvariance, PTL

\* No process ever writes the real index of a repository.
THEOREM UserIndexIsUntouched == Spec => UserIndexIsTheirs
<1>1. ASSUME SInv, [Next]_vars, NEW d \in Dirs, index'[d] # index[d]
      PROVE  \E p \in Paths : Stage(d, p)
    <2>1. ASSUME NEW k \in Runs, Step(k)
          PROVE  FALSE
        <3>1. d # k /\ d \in Dirs \cup Runs
            BY StateHashAssumption
        <3>2. Index(k) = k
            BY <1>1, ScratchIsOwn DEF SInv
        <3>3. index'[d] = index[d]
            BY <1>1, <2>1, <3>1, <3>2
               DEF SInv, TypeOK, Step, Begin, RevParse, List, AddFile, WriteTree, Fail, Removed
        <3> QED
            BY <1>1, <3>3
    <2>2. PICK e \in Edited, p \in Paths : Stage(e, p)
        BY <1>1, <2>1 DEF Next, User, Edit, vars
    <2>3. e = d
        BY <1>1, <2>2 DEF Stage, SInv, TypeOK
    <2> QED
        BY <2>2, <2>3
<1>2. SInv /\ [Next]_vars => \A d \in Dirs : index'[d] # index[d] => \E p \in Paths : Stage(d, p)
    BY <1>1
<1> QED
    BY <1>2, HashInvariance, PTL DEF Spec, UserIndexIsTheirs
=============================================================================
