----------------------------- MODULE Placement -----------------------------
(***************************************************************************)
(* Where a session runs: the worktree recorded on its row, the decision    *)
(* taken when it is resumed, and the sandbox built around the result.      *)
(*                                                                         *)
(* A process is the CLI dispatching a session or running one, or the pen   *)
(* placing a child.  A session has one worktree path and one branch of its *)
(* own, so its row only says whether they are recorded.  The user and git  *)
(* may change whatever stands there between any two steps.                 *)
(***************************************************************************)
EXTENDS Naturals, FiniteSets

CONSTANTS
    Sessions,
    Processes,
    Callers,    \* bound: the directories commands are typed in
    NoOne

\* A directory a command may be typed in, or a session's worktree.
Tree(s) == <<"tree", s>>
Checkout  == <<"checkout">>
Elsewhere == <<"elsewhere">>
Dirs == {Checkout, Elsewhere} \union {Tree(s) : s \in Sessions}

ASSUME PlacementAssumption ==
    NoOne \notin Processes /\ NoOne \notin Sessions /\ Callers \subseteq Dirs

\* What a sandbox lets a run write to, beyond directories of its own: the
\* system's temporary directories, and the git directories of the repository.
Temp == <<"temp">>
Git  == <<"git">>

VARIABLES
    row,      \* sessions: exists, parent, cwd, and whether a worktree is recorded
    lock,     \* the process that holds the session's worker lock
    proc,     \* what each process is doing
    at,       \* what stands at the session's worktree path
    branch,   \* whether its branch exists
    repo,     \* whether the checkout is a repository still
    made      \* whether git ever made the tree for bullpen (history)

vars == <<row, lock, proc, at, branch, repo, made>>

Standing == {"nothing", "own", "other", "plain"}

Roots == Dirs \union {Temp, Git}

Process ==
    [pc : {"idle", "record", "create", "load", "lock", "locate", "recreate", "confine", "work",
          "refused"},
     pen : BOOLEAN, s : Sessions \union {NoOne},
     from : Dirs,             \* the caller's directory, or the pen's workspace
     read : BOOLEAN,          \* the row as it was read: a worktree is recorded
     saw : BOOLEAN,           \* made, when the row was read (history)
     cwd : Dirs,
     inherited : SUBSET Roots, roots : SUBSET Roots]

Idle == [pc |-> "idle", pen |-> FALSE, s |-> NoOne, from |-> Elsewhere, read |-> FALSE,
         saw |-> FALSE, cwd |-> Elsewhere, inherited |-> {}, roots |-> {}]

NoRow == [exists |-> FALSE, parent |-> NoOne, cwd |-> Elsewhere, tree |-> FALSE]

-----------------------------------------------------------------------------
(* git and the filesystem, as the adapter asks them.                       *)

\* repo_root: rev-parse --show-toplevel succeeds.
repo_root(dir) ==
    repo /\ (dir = Checkout \/ \E s \in Sessions : dir = Tree(s) /\ at[s] \in {"own", "other"})

\* git worktree add refuses a path that is taken, a new branch that exists and
\* an old one that does not.
CanAdd(root, s, new) ==
    repo_root(root) /\ at[s] = "nothing" /\ (branch[s] <=> ~new)

Added(s) ==
    /\ at' = [at EXCEPT ![s] = "own"]
    /\ branch' = [branch EXCEPT ![s] = TRUE]
    /\ made' = [made EXCEPT ![s] = TRUE]

\* Slip: the workspace is all a run needs.
NoGitRoots(dir) == {}

\* A linked worktree has its index, refs and objects in the main repository.
git_write_roots(dir) == IF dir # Checkout /\ repo_root(dir) THEN {Git} ELSE {}

Confined(dir) == {dir, Temp} \union git_write_roots(dir)

\* Slip: the branch that is checked out is not compared.
InspectPathOnly(anchor, s) ==
    CASE at[s] = "nothing" -> "Gone"
      [] at[s] \in {"own", "other"} /\ repo_root(anchor) -> "Live"
      [] OTHER -> "Foreign"

\* The repository, the top level and the branch have to agree.
inspect(anchor, s) ==
    CASE at[s] = "nothing" -> "Gone"
      [] at[s] = "own" /\ repo_root(anchor) -> "Live"
      [] OTHER -> "Foreign"

\* Slip: a tree that is gone is not restored.
DecideGoneFails(recorded, candidate, branch_exists) ==
    IF ~recorded THEN "Shared"
    ELSE CASE candidate = "Live"    -> "Use"
           [] candidate = "Foreign" -> "Occupied"
           [] candidate = "Gone"    -> "Fail"

\* Slip: with nothing to restore, the run falls back to the shared checkout.
DecideGoneShares(recorded, candidate, branch_exists) ==
    IF ~recorded \/ (candidate = "Gone" /\ ~branch_exists) THEN "Shared"
    ELSE CASE candidate = "Live"    -> "Use"
           [] candidate = "Foreign" -> "Occupied"
           [] candidate = "Gone"    -> "Recreate"

decide(recorded, candidate, branch_exists) ==
    IF ~recorded THEN "Shared"
    ELSE CASE candidate = "Live"    -> "Use"
           [] candidate = "Foreign" -> "Occupied"
           [] candidate = "Gone"    -> IF branch_exists THEN "Recreate" ELSE "Fail"

locate(recorded, s) ==
    LET anchor == row[s].cwd
    IN  decide(recorded, inspect(anchor, s), repo_root(anchor) /\ branch[s])

-----------------------------------------------------------------------------
Init ==
    /\ row = [s \in Sessions |-> NoRow]
    /\ lock = [s \in Sessions |-> NoOne]
    /\ proc = [p \in Processes |-> Idle]
    /\ at = [s \in Sessions |-> "nothing"]
    /\ branch = [s \in Sessions |-> FALSE]
    /\ repo = TRUE
    /\ made = [s \in Sessions |-> FALSE]

git == <<at, branch, made>>

Goto(p, pc) == proc' = [proc EXCEPT ![p].pc = pc]

Loaded(s, dir) ==
    [Idle EXCEPT !.pc = "lock", !.s = s, !.from = dir, !.read = row'[s].tree, !.saw = made[s]]

\* bullpen run --bg: the repository is looked for before there is any state.
Dispatch(p, s, dir, worktree) ==
    /\ proc[p] = Idle /\ ~row[s].exists
    /\ worktree => repo_root(dir)
    /\ row' = [row EXCEPT ![s] = [exists |-> TRUE, parent |-> NoOne, cwd |-> dir, tree |-> FALSE]]
    /\ proc' = [proc EXCEPT ![p] = [Idle EXCEPT !.pc = IF worktree THEN "record" ELSE "load",
                                                !.s = s, !.from = dir]]
    /\ UNCHANGED <<lock, git, repo>>

\* set_worktree: the path and the branch, before either is there.
Record(p) ==
    /\ proc[p].pc = "record"
    /\ row' = [row EXCEPT ![proc[p].s].tree = TRUE]
    /\ Goto(p, "create")
    /\ UNCHANGED <<lock, git, repo>>

\* The dispatcher goes on to spawn the detached run, the pen to take the lock.
Create(p) ==
    /\ proc[p].pc = "create"
    /\ CanAdd(proc[p].from, proc[p].s, TRUE)
    /\ Added(proc[p].s)
    /\ proc' = [proc EXCEPT ![p].pc = IF proc[p].pen THEN "lock" ELSE "load",
                            ![p].cwd = Tree(proc[p].s)]
    /\ UNCHANGED <<row, lock, repo>>

\* git was killed, or failed, with the branch made and no tree.
CreateHalf(p) ==
    /\ proc[p].pc = "create"
    /\ CanAdd(proc[p].from, proc[p].s, TRUE)
    /\ branch' = [branch EXCEPT ![proc[p].s] = TRUE]
    /\ proc' = [proc EXCEPT ![p] = Idle]
    /\ UNCHANGED <<row, lock, at, made, repo>>

CreateFails(p) ==
    /\ proc[p].pc = "create"
    /\ ~CanAdd(proc[p].from, proc[p].s, TRUE)
    /\ proc' = [proc EXCEPT ![p] = Idle]
    /\ UNCHANGED <<row, lock, git, repo>>

\* The detached process is a run --resume from the dispatcher's directory; it
\* takes the place of the dispatcher here.
Spawned(p) ==
    /\ proc[p].pc = "load"
    /\ row' = row
    /\ proc' = [proc EXCEPT ![p] = Loaded(proc[p].s, proc[p].from)]
    /\ UNCHANGED <<lock, git, repo>>

\* run in the foreground: a new session, or one that is there.
Run(p, s, dir) ==
    /\ proc[p] = Idle
    /\ row' = IF row[s].exists THEN row
              ELSE [row EXCEPT ![s] = [exists |-> TRUE, parent |-> NoOne, cwd |-> dir, tree |-> FALSE]]
    /\ proc' = [proc EXCEPT ![p] = Loaded(s, dir)]
    /\ UNCHANGED <<lock, git, repo>>

\* The agent tool of the run of q hands a task to c: a new session in q's
\* workspace, or one that is there.
HandOver(p, q, c, worktree) ==
    /\ proc[p] = Idle
    /\ proc[q].pc = "work" /\ proc[q].s # c
    /\ \A o \in Processes : proc[o].s # c \/ ~proc[o].pen
    /\ row' = IF row[c].exists THEN row
              ELSE [row EXCEPT ![c] = [exists |-> TRUE, parent |-> proc[q].s, cwd |-> proc[q].cwd,
                                       tree |-> FALSE]]
    /\ LET first == worktree /\ ~row'[c].tree IN
       /\ first => repo_root(proc[q].cwd)
       /\ proc' = [proc EXCEPT ![p] =
             [Loaded(c, proc[q].cwd) EXCEPT !.pen = TRUE, !.inherited = proc[q].roots,
                                            !.pc = IF first THEN "record" ELSE "locate"]]
    /\ UNCHANGED <<lock, git, repo>>

\* Slip: the id of the child is made of the call alone.
DelegateByCall(p, q, c, worktree) == HandOver(p, q, c, worktree)

\* The id of the child is made of the parent and the call: one that is there
\* is a child of the same parent.
Delegate(p, q, c, worktree) ==
    /\ row[c].exists => row[c].parent = proc[q].s
    /\ HandOver(p, q, c, worktree)

\* The CLI locks, then places; the pen places the child before it locks.
Lock(p) ==
    LET s == proc[p].s IN
    /\ proc[p].pc = "lock"
    /\ IF lock[s] = NoOne
       THEN /\ lock' = [lock EXCEPT ![s] = p]
            /\ Goto(p, IF proc[p].pen THEN "confine" ELSE "locate")
       ELSE /\ proc' = [proc EXCEPT ![p] = Idle]
            /\ UNCHANGED lock
    /\ UNCHANGED <<row, git, repo>>

Placed(p, dir) ==
    proc' = [proc EXCEPT ![p].cwd = dir, ![p].pc = IF proc[p].pen THEN "lock" ELSE "confine"]

Locate(p) ==
    LET s == proc[p].s
        location == locate(proc[p].read, s)
    IN
    /\ proc[p].pc = "locate"
    /\ CASE location = "Shared"   -> Placed(p, proc[p].from)
         [] location = "Use"      -> Placed(p, Tree(s))
         [] location = "Recreate" -> Goto(p, "recreate")
         [] OTHER                 -> Goto(p, "refused")
    /\ UNCHANGED <<row, lock, git, repo>>

\* Slip: whatever stands at the path makes way.
RecreateClears(p) ==
    LET s == proc[p].s IN
    /\ proc[p].pc = "recreate"
    /\ IF repo_root(row[s].cwd) /\ branch[s]
       THEN Added(s) /\ Placed(p, Tree(s))
       ELSE Goto(p, "refused") /\ UNCHANGED git
    /\ UNCHANGED <<row, lock, repo>>

Recreate(p) ==
    LET s == proc[p].s IN
    /\ proc[p].pc = "recreate"
    /\ IF CanAdd(row[s].cwd, s, FALSE)
       THEN Added(s) /\ Placed(p, Tree(s))
       ELSE Goto(p, "refused") /\ UNCHANGED git
    /\ UNCHANGED <<row, lock, repo>>

\* What placed the run is not looked at again.
Working(p, roots) ==
    proc' = [proc EXCEPT ![p] =
                [Idle EXCEPT !.pc = "work", !.pen = proc[p].pen, !.s = proc[p].s,
                             !.cwd = proc[p].cwd, !.roots = roots]]

\* Slip: the sandbox is built around the directory of the caller.
ConfineToCaller(p) ==
    /\ proc[p].pc = "confine"
    /\ Working(p, Confined(proc[p].from))
    /\ UNCHANGED <<row, lock, git, repo>>

\* The sandbox around the place that was found; a child in its parent's place
\* has its parent's sandbox.
Confine(p) ==
    /\ proc[p].pc = "confine"
    /\ Working(p, IF proc[p].pen /\ proc[p].cwd = proc[p].from
                  THEN proc[p].inherited ELSE Confined(proc[p].cwd))
    /\ UNCHANGED <<row, lock, git, repo>>

\* Slip: a refused run leaves its lock.
EndForgetsLock(p) ==
    /\ proc[p] # Idle
    /\ proc' = [proc EXCEPT ![p] = Idle]
    /\ lock' = [s \in Sessions |-> IF lock[s] = p /\ proc[p].pc # "refused" THEN NoOne ELSE lock[s]]
    /\ UNCHANGED <<row, git, repo>>

\* The run ends, or the process dies wherever it is; the lock goes with it.
End(p) ==
    /\ proc[p] # Idle
    /\ proc' = [proc EXCEPT ![p] = Idle]
    /\ lock' = [s \in Sessions |-> IF lock[s] = p THEN NoOne ELSE lock[s]]
    /\ UNCHANGED <<row, git, repo>>

\* Slip: the tree is made first and recorded then.
RecordLate(p) ==
    \/ /\ proc[p].pc = "record" /\ ~made[proc[p].s]
       /\ CanAdd(proc[p].from, proc[p].s, TRUE)
       /\ Added(proc[p].s)
       /\ UNCHANGED <<row, lock, proc, repo>>
    \/ /\ proc[p].pc = "record" /\ made[proc[p].s]
       /\ row' = [row EXCEPT ![proc[p].s].tree = TRUE]
       /\ Goto(p, IF proc[p].pen THEN "lock" ELSE "load")
       /\ UNCHANGED <<lock, git, repo>>
    \/ Create(p) \/ CreateHalf(p) \/ CreateFails(p)

Isolate(p) == Record(p) \/ Create(p) \/ CreateHalf(p) \/ CreateFails(p)

-----------------------------------------------------------------------------
(* The user, with git and the file manager.  git does not delete a branch  *)
(* that is checked out.                                                    *)

Meddle(s) ==
    \/ /\ at[s] # "nothing"
       /\ at' = [at EXCEPT ![s] = "nothing"] /\ UNCHANGED <<branch, repo>>
    \/ /\ at[s] = "nothing"
       /\ \E what \in {"other", "plain"} : at' = [at EXCEPT ![s] = what]
       /\ UNCHANGED <<branch, repo>>
    \/ /\ at[s] = "own" /\ repo
       /\ at' = [at EXCEPT ![s] = "other"] /\ UNCHANGED <<branch, repo>>
    \/ /\ at[s] = "other" /\ branch[s] /\ repo
       /\ at' = [at EXCEPT ![s] = "own"] /\ UNCHANGED <<branch, repo>>
    \/ /\ at[s] # "own" /\ repo /\ made[s]
       /\ branch' = [branch EXCEPT ![s] = ~@] /\ UNCHANGED <<at, repo>>
    \/ repo' = ~repo /\ UNCHANGED <<at, branch>>

Next ==
    \/ \E p \in Processes, s \in Sessions, dir \in Callers :
          Run(p, s, dir) \/ \E worktree \in BOOLEAN : Dispatch(p, s, dir, worktree)
    \/ \E p, q \in Processes, c \in Sessions, worktree \in BOOLEAN : Delegate(p, q, c, worktree)
    \/ \E p \in Processes :
          Isolate(p) \/ Spawned(p) \/ Lock(p) \/ Locate(p) \/ Recreate(p) \/ Confine(p) \/ End(p)
    \/ \E s \in Sessions : Meddle(s) /\ UNCHANGED <<row, lock, proc, made>>

Spec == Init /\ [][Next]_vars

-----------------------------------------------------------------------------
TypeOK ==
    /\ row \in [Sessions -> [exists : BOOLEAN, parent : Sessions \union {NoOne}, cwd : Dirs,
                          tree : BOOLEAN]]
    /\ lock \in [Sessions -> Processes \union {NoOne}]
    /\ proc \in [Processes -> Process]
    /\ at \in [Sessions -> Standing]
    /\ branch \in [Sessions -> BOOLEAN] /\ repo \in BOOLEAN
    /\ made \in [Sessions -> BOOLEAN]
    /\ \A s \in Sessions : lock[s] # NoOne => proc[lock[s]].s = s

\* The step that decides where p runs.
IsPlaced(p) ==
    proc[p].pc \in {"create", "locate", "recreate"} /\ proc'[p].pc \in {"lock", "confine"}

\* Once a session has had a tree of its own, or its row names one that was never
\* made because git failed or the process died in between, a run that reads the
\* row is in that tree and on its branch or nowhere, whatever happened to the tree
\* since and wherever the command was typed: never in the shared checkout, never
\* in a tree that only stands at the same path (harness/src/worktree.rs:217-223,
\* :265-275, harness/src/pen.rs:138, cli/src/main.rs:398-402).
RunsInItsOwnTree ==
    [][\A p \in Processes : IsPlaced(p) /\ (proc[p].saw \/ proc[p].read) =>
           proc'[p].cwd = Tree(proc[p].s) /\ at'[proc[p].s] = "own"]_vars

\* Work is not lost: no step of bullpen removes or replaces what stands at a path,
\* nor a branch; and the user may remove the directory, for while the branch and
\* the repository are there, and nothing is in the way, no run is refused
\* (harness/src/worktree.rs:8-12, :91-96, :233-236).
WorkIsKept ==
    [][proc' # proc =>
          /\ \A s \in Sessions : /\ at[s] # "nothing" => at'[s] = at[s]
                                 /\ branch[s] => branch'[s]
          /\ \A p \in Processes :
                LET s == proc[p].s IN
                (proc[p].pc \in {"locate", "recreate"} /\ proc'[p].pc = "refused")
                    => ~(at[s] = "nothing" /\ branch[s] /\ repo_root(row[s].cwd))]_vars

\* The session and those above it: they are in every set that has it and, with
\* a session, its parent.
WorksFor(s) ==
    {x \in Sessions : \A C \in SUBSET Sessions :
        (s \in C /\ \A y \in C : row[y].parent \in C \union {NoOne}) => x \in C}

\* A session's tree is its own and its children's: whoever works there, or may
\* write there, is that session or was delegated by it, directly or through
\* others; whoever dispatched, resumed or reattached what in between
\* (harness/src/pen.rs:128-152, :174-180, :455-468, cli/src/main.rs:457-489).
\* A child that has no tree shares that of the run that delegates to it.
NoStrangerInATree ==
    \A p \in Processes, s \in Sessions :
        (proc[p].pc = "work" /\ Tree(s) \in {proc[p].cwd} \union proc[p].roots)
            => s \in WorksFor(proc[p].s)

\* A confined run may write where it works and to no other tree nor to the
\* checkout; and when it works in a linked worktree that stands, also to the
\* repository it commits through (cli/src/main.rs:426-429, :491-499,
\* harness/src/pen.rs:455-468, harness/src/worktree.rs:128-175).
ConfinedToItsPlace ==
    [][\A p \in Processes :
          (proc[p].pc = "confine" /\ proc'[p].pc = "work") =>
              /\ proc'[p].roots \intersect Dirs = {proc[p].cwd}
              /\ (proc[p].cwd = Tree(proc[p].s) /\ at[proc[p].s] = "own" /\ repo)
                    => Git \in proc'[p].roots]_vars
=============================================================================
