-------------------------- MODULE PlacementProofs --------------------------
(***************************************************************************)
(* Proofs about where sessions run, for any number of sessions, processes  *)
(* and directories.  The inductive invariant is that a tree git made for   *)
(* bullpen is recorded, that a process that read its row after the tree    *)
(* was made read the record, and that a run that is past the lock has it.  *)
(***************************************************************************)
EXTENDS Placement, TLAPS

RecordComesFirst ==
    /\ \A s \in Sessions : (made[s] => row[s].tree) /\ (row[s].tree => row[s].exists)
    /\ \A p \in Processes :
          /\ proc[p].saw => proc[p].read
          /\ proc[p].pc \in {"create", "record"} => row[proc[p].s].exists
          /\ proc[p].pc = "create" => row[proc[p].s].tree
          /\ proc[p].pc = "recreate" => proc[p].read
          /\ proc[p].read => row[proc[p].s].tree

\* A process with something to do has a session.  A run that is past the lock
\* has it, and who has a lock is past it, or refused.
Past(p) ==
    \/ proc[p].pc \in {"confine", "work"}
    \/ proc[p].pc \in {"locate", "recreate"} /\ ~proc[p].pen

LockIsHeld ==
    /\ \A p \in Processes :
          /\ proc[p].pc = "idle" => proc[p] = Idle
          /\ proc[p].pc # "idle" => proc[p].s \in Sessions
          /\ Past(p) => lock[proc[p].s] = p
    /\ \A s \in Sessions : lock[s] # NoOne => Past(lock[s]) \/ proc[lock[s]].pc = "refused"

PlacementInv == TypeOK /\ RecordComesFirst /\ LockIsHeld

-----------------------------------------------------------------------------
LEMMA DirsAreRoots ==
    /\ Dirs \subseteq Roots /\ Checkout \in Dirs /\ Elsewhere \in Dirs
    /\ \A s \in Sessions : Tree(s) \in Dirs
BY DEF Dirs, Roots

LEMMA IdleIsProcess == Idle \in Process
BY DirsAreRoots DEF Idle, Process

LEMMA ConfinedIsRoots == ASSUME NEW dir \in Dirs PROVE Confined(dir) \subseteq Roots
BY DirsAreRoots DEF Confined, git_write_roots, Roots

\* What a step of p does to the other processes, and to its own record.
LEMMA Steps ==
    ASSUME TypeOK, NEW p \in Processes, NEW r \in Process, proc' = [proc EXCEPT ![p] = r]
    PROVE  /\ proc' \in [Processes -> Process]
           /\ proc'[p] = r
           /\ \A q \in Processes : q # p => proc'[q] = proc[q]
BY DEF TypeOK

LEMMA GotoSteps ==
    ASSUME TypeOK, NEW p \in Processes, NEW pc, Goto(p, pc),
           pc \in {"idle", "record", "create", "load", "lock", "locate", "recreate", "confine",
                   "work", "refused"}
    PROVE  /\ proc' \in [Processes -> Process]
           /\ proc'[p] = [proc[p] EXCEPT !.pc = pc]
           /\ proc'[p].pc = pc /\ proc'[p].s = proc[p].s /\ proc'[p].pen = proc[p].pen
           /\ proc'[p].saw = proc[p].saw /\ proc'[p].read = proc[p].read
           /\ \A q \in Processes : q # p => proc'[q] = proc[q]
<1>1. [proc[p] EXCEPT !.pc = pc] \in Process
    BY DEF TypeOK, Process
<1>2. proc' = [proc EXCEPT ![p] = [proc[p] EXCEPT !.pc = pc]]
    BY DEF TypeOK, Goto
<1>3. /\ [proc[p] EXCEPT !.pc = pc].pc = pc /\ [proc[p] EXCEPT !.pc = pc].s = proc[p].s
      /\ [proc[p] EXCEPT !.pc = pc].pen = proc[p].pen
      /\ [proc[p] EXCEPT !.pc = pc].saw = proc[p].saw
      /\ [proc[p] EXCEPT !.pc = pc].read = proc[p].read
    BY DEF TypeOK, Process
<1> QED  BY <1>1, <1>2, <1>3, Steps

LEMMA PlacedSteps ==
    ASSUME TypeOK, NEW p \in Processes, NEW dir \in Dirs, NEW pc \in {"lock", "load", "confine"},
           proc' = [proc EXCEPT ![p].cwd = dir, ![p].pc = pc]
    PROVE  /\ proc' \in [Processes -> Process]
           /\ proc'[p].pc = pc /\ proc'[p].s = proc[p].s /\ proc'[p].pen = proc[p].pen
           /\ proc'[p].saw = proc[p].saw /\ proc'[p].read = proc[p].read
           /\ proc'[p].cwd = dir
           /\ \A q \in Processes : q # p => proc'[q] = proc[q]
<1> DEFINE r == [proc[p] EXCEPT !.cwd = dir, !.pc = pc]
<1>0. proc[p] \in Process
    BY DEF TypeOK
<1>a. [proc[p] EXCEPT !.cwd = dir] \in Process
    BY <1>0 DEF Process
<1>b. r = [[proc[p] EXCEPT !.cwd = dir] EXCEPT !.pc = pc]
    OBVIOUS
<1>1. /\ r.pc = pc /\ r.s = proc[p].s /\ r.pen = proc[p].pen
      /\ r.saw = proc[p].saw /\ r.read = proc[p].read /\ r.cwd = dir
    BY <1>0 DEF Process
<1>2. r \in Process
    BY <1>a, <1>b DEF Process
<1>3. proc' = [proc EXCEPT ![p] = r]
    BY DEF TypeOK
<1>4. proc' \in [Processes -> Process] /\ proc'[p] = r
      /\ \A q \in Processes : q # p => proc'[q] = proc[q]
    BY <1>2, <1>3, Steps
<1> QED  BY <1>1, <1>4

LEMMA OnlyRecordedIsRecreated ==
    ASSUME NEW recorded \in BOOLEAN, NEW candidate, NEW branch_exists,
           decide(recorded, candidate, branch_exists) = "Recreate"
    PROVE  recorded
BY DEF decide

LEMMA LoadedIsProcess ==
    ASSUME NEW s \in Sessions, NEW dir \in Dirs, row'[s].tree \in BOOLEAN, made[s] \in BOOLEAN
    PROVE  /\ Loaded(s, dir) \in Process
           /\ Loaded(s, dir) = [Idle EXCEPT !.pc = "lock", !.s = s, !.from = dir,
                                            !.read = row'[s].tree, !.saw = made[s]]
BY IdleIsProcess DEF Loaded, Idle, Process

\* What is recorded stays recorded, if p's own step keeps to it.
LEMMA RecordKept ==
    ASSUME PlacementInv, NEW p \in Processes,
           \A q \in Processes : q # p => proc'[q] = proc[q],
           \A s \in Sessions : row[s].exists =>
               row'[s].exists /\ (row[s].tree => row'[s].tree),
           \A s \in Sessions : (made'[s] => row'[s].tree) /\ (row'[s].tree => row'[s].exists),
           proc'[p].saw => proc'[p].read,
           proc'[p].pc \in {"create", "record"} => row'[proc'[p].s].exists,
           proc'[p].pc = "create" => row'[proc'[p].s].tree,
           proc'[p].pc = "recreate" => proc'[p].read,
           proc'[p].read => row'[proc'[p].s].tree
    PROVE  RecordComesFirst'
<1>1. \A q \in Processes : proc[q].pc # "idle" \/ proc[q].read => proc[q].s \in Sessions
    BY DEF PlacementInv, LockIsHeld, Idle
<1>2. ASSUME NEW q \in Processes
      PROVE  /\ proc'[q].saw => proc'[q].read
             /\ proc'[q].pc \in {"create", "record"} => row'[proc'[q].s].exists
             /\ proc'[q].pc = "create" => row'[proc'[q].s].tree
             /\ proc'[q].pc = "recreate" => proc'[q].read
             /\ proc'[q].read => row'[proc'[q].s].tree
  <2>1. CASE q = p
      BY <2>1
  <2>2. CASE q # p
      BY <2>2, <1>1 DEF PlacementInv, RecordComesFirst
  <2> QED  BY <2>1, <2>2
<1> QED  BY <1>2 DEF RecordComesFirst

\* Who has a lock keeps it: a step of p that takes none and gives none back.
LEMMA LockKept ==
    ASSUME PlacementInv, NEW p \in Processes, lock' = lock,
           \A q \in Processes : q # p => proc'[q] = proc[q],
           proc[p].pc # "refused",
           proc'[p].pc = "idle" => proc'[p] = Idle,
           proc'[p].pc # "idle" => proc'[p].s \in Sessions,
           Past(p) => proc'[p].s = proc[p].s /\ (Past(p)' \/ proc'[p].pc = "refused"),
           Past(p)' => Past(p)
    PROVE  LockIsHeld' /\ \A s \in Sessions : lock'[s] # NoOne => proc'[lock'[s]].s = s
<1>1. \A s \in Sessions : lock[s] # NoOne => lock[s] \in Processes
    BY DEF PlacementInv, TypeOK
<1>2. \A q \in Processes : q # p => (Past(q)' <=> Past(q))
    BY DEF Past
<1>3. \A q \in Processes : Past(q)' => lock'[proc'[q].s] = q
    BY <1>2 DEF PlacementInv, LockIsHeld
<1>4. ASSUME NEW s \in Sessions, lock'[s] # NoOne
      PROVE  proc'[lock'[s]].s = s /\ (Past(lock[s])' \/ proc'[lock'[s]].pc = "refused")
  <2>1. CASE lock[s] = p
      BY <2>1, <1>4 DEF PlacementInv, LockIsHeld, TypeOK
  <2>2. CASE lock[s] # p
      BY <2>2, <1>4, <1>1, <1>2 DEF PlacementInv, LockIsHeld, TypeOK
  <2> QED  BY <2>1, <2>2
<1>5. \A q \in Processes : /\ proc'[q].pc = "idle" => proc'[q] = Idle
                           /\ proc'[q].pc # "idle" => proc'[q].s \in Sessions
    BY DEF PlacementInv, LockIsHeld
<1> QED  BY <1>3, <1>4, <1>5 DEF LockIsHeld, Past

LEMMA DispatchInv ==
    ASSUME PlacementInv, NEW p \in Processes, NEW s \in Sessions, NEW dir \in Callers, NEW worktree \in BOOLEAN, Dispatch(p, s, dir, worktree)
    PROVE  PlacementInv'
<1> DEFINE r == [Idle EXCEPT !.pc = IF worktree THEN "record" ELSE "load", !.s = s, !.from = dir]
<1>1. dir \in Dirs
    BY PlacementAssumption
<1>2. /\ row' \in [Sessions -> [exists : BOOLEAN, parent : Sessions \union {NoOne}, cwd : Dirs, tree : BOOLEAN]]
      /\ row'[s].exists /\ ~row'[s].tree
      /\ \A t \in Sessions : t # s => row'[t] = row[t]
      /\ UNCHANGED <<lock, at, branch, made, repo>> /\ ~row[s].exists /\ proc[p].pc = "idle"
    BY <1>1 DEF PlacementInv, TypeOK, Dispatch, git, Idle
<1>3. r \in Process /\ r.pc \in {"record", "load"} /\ r.s = s /\ ~r.saw /\ ~r.read
    BY <1>1, DirsAreRoots DEF Process, Idle
<1>4. /\ proc' \in [Processes -> Process]
      /\ proc'[p] = r
      /\ \A q \in Processes : q # p => proc'[q] = proc[q]
    BY <1>3, Steps DEF PlacementInv, Dispatch
<1> HIDE DEF r
<1>l. LockIsHeld' /\ \A t \in Sessions : lock'[t] # NoOne => proc'[lock'[t]].s = t
    BY <1>2, <1>3, <1>4, LockKept DEF Past
<1>r. RecordComesFirst'
  <2>1. /\ \A t \in Sessions : row[t].exists => row'[t].exists /\ (row[t].tree => row'[t].tree)
        /\ \A t \in Sessions : (made'[t] => row'[t].tree) /\ (row'[t].tree => row'[t].exists)
      BY <1>2, <1>3, <1>4 DEF PlacementInv, TypeOK, RecordComesFirst
  <2> QED  BY <1>2, <1>3, <1>4, <2>1, RecordKept DEF PlacementInv, RecordComesFirst
<1>t. TypeOK'
    BY <1>2, <1>3, <1>4, <1>l DEF PlacementInv, TypeOK, Standing
<1> QED  BY <1>l, <1>r, <1>t DEF PlacementInv

LEMMA RecordInv ==
    ASSUME PlacementInv, NEW p \in Processes, Record(p)
    PROVE  PlacementInv'
<1>1. proc[p].s \in Sessions /\ row[proc[p].s].exists /\ proc[p].pc = "record"
    BY DEF PlacementInv, LockIsHeld, RecordComesFirst, Record
<1>2. /\ row' \in [Sessions -> [exists : BOOLEAN, parent : Sessions \union {NoOne}, cwd : Dirs, tree : BOOLEAN]]
      /\ row'[proc[p].s].exists /\ row'[proc[p].s].tree
      /\ \A t \in Sessions : t # proc[p].s => row'[t] = row[t]
      /\ UNCHANGED <<lock, at, branch, made, repo>>
    BY <1>1 DEF PlacementInv, TypeOK, Record, git
<1>3. /\ proc' \in [Processes -> Process]
      /\ proc'[p].pc = "create" /\ proc'[p].s = proc[p].s /\ proc'[p].pen = proc[p].pen
      /\ proc'[p].saw = proc[p].saw /\ proc'[p].read = proc[p].read
      /\ \A q \in Processes : q # p => proc'[q] = proc[q]
    BY GotoSteps DEF PlacementInv, Record
<1>l. LockIsHeld' /\ \A t \in Sessions : lock'[t] # NoOne => proc'[lock'[t]].s = t
    BY <1>1, <1>2, <1>3, LockKept DEF Past
<1>r. RecordComesFirst'
  <2>1. /\ \A t \in Sessions : row[t].exists => row'[t].exists /\ (row[t].tree => row'[t].tree)
        /\ \A t \in Sessions : (made'[t] => row'[t].tree) /\ (row'[t].tree => row'[t].exists)
      BY <1>1, <1>2, <1>3 DEF PlacementInv, TypeOK, RecordComesFirst
  <2> QED  BY <1>1, <1>2, <1>3, <2>1, RecordKept DEF PlacementInv, RecordComesFirst
<1>t. TypeOK'
    BY <1>1, <1>2, <1>3, <1>l DEF PlacementInv, TypeOK, Standing
<1> QED  BY <1>l, <1>r, <1>t DEF PlacementInv

LEMMA CreateInv ==
    ASSUME PlacementInv, NEW p \in Processes, Create(p)
    PROVE  PlacementInv'
<1>f. proc[p].s \in Sessions /\ row[proc[p].s].exists /\ row[proc[p].s].tree
    BY DEF PlacementInv, LockIsHeld, RecordComesFirst, Create
<1>a. Tree(proc[p].s) \in Dirs
    BY <1>f, DirsAreRoots
<1>b. proc' = [proc EXCEPT ![p].cwd = Tree(proc[p].s), ![p].pc = IF proc[p].pen THEN "lock" ELSE "load"]
    BY DEF Create, PlacementInv, TypeOK
<1>0. /\ proc' \in [Processes -> Process]
      /\ proc'[p].pc \in {"lock", "load"} /\ proc'[p].s = proc[p].s /\ proc'[p].pen = proc[p].pen
      /\ proc'[p].saw = proc[p].saw /\ proc'[p].read = proc[p].read
      /\ \A q \in Processes : q # p => proc'[q] = proc[q]
    BY <1>a, <1>b, PlacedSteps DEF PlacementInv
<1>1. LockIsHeld' /\ \A s \in Sessions : lock'[s] # NoOne => proc'[lock'[s]].s = s
    BY <1>0, <1>f, LockKept DEF Create, Past
<1>2. TypeOK'
    BY <1>0, <1>f, <1>1 DEF PlacementInv, TypeOK, Create, git, Standing, Added, CanAdd
<1>3. RecordComesFirst'
  <2>1. /\ \A s \in Sessions : row[s].exists => row'[s].exists /\ (row[s].tree => row'[s].tree)
        /\ \A s \in Sessions : (made'[s] => row'[s].tree) /\ (row'[s].tree => row'[s].exists)
      BY <1>f DEF PlacementInv, TypeOK, RecordComesFirst, Create, git, Added, CanAdd
  <2> QED  BY <1>0, <1>f, <2>1, RecordKept DEF PlacementInv, RecordComesFirst, Create, git
<1> QED  BY <1>1, <1>2, <1>3 DEF PlacementInv

LEMMA CreateHalfInv ==
    ASSUME PlacementInv, NEW p \in Processes, CreateHalf(p)
    PROVE  PlacementInv'
<1>1. TypeOK'
    BY PlacementAssumption, DirsAreRoots, IdleIsProcess, ConfinedIsRoots
    DEF PlacementInv, TypeOK, RecordComesFirst, LockIsHeld, Past, CreateHalf, git, Process, Idle, NoRow
<1>2. RecordComesFirst'
    BY PlacementAssumption
    DEF PlacementInv, TypeOK, RecordComesFirst, LockIsHeld, CreateHalf, git, Process, Idle, NoRow
<1>3. LockIsHeld'
    BY PlacementAssumption
    DEF PlacementInv, TypeOK, LockIsHeld, Past, CreateHalf, git, Process, Idle, NoRow
<1> QED  BY <1>1, <1>2, <1>3 DEF PlacementInv

LEMMA CreateFailsInv ==
    ASSUME PlacementInv, NEW p \in Processes, CreateFails(p)
    PROVE  PlacementInv'
<1>1. TypeOK'
    BY PlacementAssumption, DirsAreRoots, IdleIsProcess, ConfinedIsRoots
    DEF PlacementInv, TypeOK, RecordComesFirst, LockIsHeld, Past, CreateFails, git, Process, Idle, NoRow
<1>2. RecordComesFirst'
    BY PlacementAssumption
    DEF PlacementInv, TypeOK, RecordComesFirst, LockIsHeld, CreateFails, git, Process, Idle, NoRow
<1>3. LockIsHeld'
    BY PlacementAssumption
    DEF PlacementInv, TypeOK, LockIsHeld, Past, CreateFails, git, Process, Idle, NoRow
<1> QED  BY <1>1, <1>2, <1>3 DEF PlacementInv

LEMMA SpawnedInv ==
    ASSUME PlacementInv, NEW p \in Processes, Spawned(p)
    PROVE  PlacementInv'
<1>f. proc[p].s \in Sessions /\ proc[p].from \in Dirs
    BY DEF PlacementInv, TypeOK, Process, LockIsHeld, Spawned
<1>b. Loaded(proc[p].s, proc[p].from) \in Process
    BY <1>f, LoadedIsProcess DEF PlacementInv, TypeOK, Spawned
<1>c. /\ Loaded(proc[p].s, proc[p].from).pc = "lock" /\ Loaded(proc[p].s, proc[p].from).s = proc[p].s
      /\ Loaded(proc[p].s, proc[p].from).saw = made[proc[p].s]
      /\ Loaded(proc[p].s, proc[p].from).read = row'[proc[p].s].tree
    BY DEF Loaded, Idle
<1>0. /\ proc' \in [Processes -> Process]
      /\ proc'[p].pc = "lock" /\ proc'[p].s = proc[p].s
      /\ proc'[p].saw = made[proc[p].s] /\ proc'[p].read = row[proc[p].s].tree
      /\ \A q \in Processes : q # p => proc'[q] = proc[q]
    BY <1>b, <1>c, Steps DEF PlacementInv, Spawned
<1>1. LockIsHeld' /\ \A s \in Sessions : lock'[s] # NoOne => proc'[lock'[s]].s = s
    BY <1>0, <1>f, LockKept DEF Spawned, Past
<1>2. TypeOK'
    BY <1>0, <1>f, <1>1 DEF PlacementInv, TypeOK, Spawned, git, Standing
<1>3. RecordComesFirst'
  <2>1. /\ \A s \in Sessions : row[s].exists => row'[s].exists /\ (row[s].tree => row'[s].tree)
        /\ \A s \in Sessions : (made'[s] => row'[s].tree) /\ (row'[s].tree => row'[s].exists)
      BY <1>f DEF PlacementInv, TypeOK, RecordComesFirst, Spawned, git
  <2> QED  BY <1>0, <1>f, <2>1, RecordKept DEF PlacementInv, RecordComesFirst, Spawned, git
<1> QED  BY <1>1, <1>2, <1>3 DEF PlacementInv

LEMMA RunInv ==
    ASSUME PlacementInv, NEW p \in Processes, NEW s \in Sessions, NEW dir \in Callers, Run(p, s, dir)
    PROVE  PlacementInv'
<1>a. dir \in Dirs
    BY PlacementAssumption
<1>b. row' \in [Sessions -> [exists : BOOLEAN, parent : Sessions \union {NoOne}, cwd : Dirs, tree : BOOLEAN]]
    BY <1>a DEF PlacementInv, TypeOK, Run
<1>c. Loaded(s, dir) \in Process
    BY <1>a, <1>b, LoadedIsProcess DEF PlacementInv, TypeOK
<1>0. /\ proc' \in [Processes -> Process]
      /\ proc'[p] = Loaded(s, dir)
      /\ \A q \in Processes : q # p => proc'[q] = proc[q]
    BY <1>c, Steps DEF PlacementInv, Run
<1>1. TypeOK'
    BY <1>0, <1>b, PlacementAssumption
    DEF PlacementInv, TypeOK, LockIsHeld, Past, Run, git, Process, Standing, Loaded, Idle
<1>2. RecordComesFirst'
    BY <1>0, <1>b, PlacementAssumption
    DEF PlacementInv, TypeOK, RecordComesFirst, LockIsHeld, Run, git, Process, Loaded, Idle
<1>3. LockIsHeld'
    BY <1>0, <1>b, PlacementAssumption
    DEF PlacementInv, TypeOK, LockIsHeld, Past, Run, git, Process, Loaded, Idle
<1> QED  BY <1>1, <1>2, <1>3 DEF PlacementInv

LEMMA DelegateInv ==
    ASSUME PlacementInv, NEW p \in Processes, NEW q \in Processes, NEW c \in Sessions, NEW worktree \in BOOLEAN, Delegate(p, q, c, worktree)
    PROVE  PlacementInv'
<1> DEFINE first == worktree /\ ~row'[c].tree
           r == [Loaded(c, proc[q].cwd) EXCEPT !.pen = TRUE, !.inherited = proc[q].roots,
                                               !.pc = IF first THEN "record" ELSE "locate"]
<1>a. proc[q].cwd \in Dirs /\ proc[q].roots \subseteq Roots /\ proc[q].s \in Sessions
    BY DEF PlacementInv, TypeOK, Process, LockIsHeld, Delegate, HandOver
<1>b. row' \in [Sessions -> [exists : BOOLEAN, parent : Sessions \union {NoOne}, cwd : Dirs, tree : BOOLEAN]]
    BY <1>a DEF PlacementInv, TypeOK, Delegate, HandOver
<1>c. /\ Loaded(c, proc[q].cwd) \in Process
      /\ Loaded(c, proc[q].cwd) = [Idle EXCEPT !.pc = "lock", !.s = c, !.from = proc[q].cwd,
                                               !.read = row'[c].tree, !.saw = made[c]]
    BY <1>a, <1>b, LoadedIsProcess DEF PlacementInv, TypeOK
<1>d. r \in Process
    BY <1>a, <1>c DEF Process
<1>e. /\ r.pc \in {"record", "locate"}
      /\ r.pen = TRUE /\ r.s = c /\ r.read = row'[c].tree /\ r.saw = made[c]
    BY <1>c DEF Idle
<1>f. row'[c].exists
    BY <1>a DEF PlacementInv, TypeOK, Delegate, HandOver
<1>g. proc[p].pc = "idle"
    BY DEF Delegate, HandOver, Idle
<1>0. /\ proc' \in [Processes -> Process]
      /\ proc'[p] = r
      /\ \A o \in Processes : o # p => proc'[o] = proc[o]
    BY <1>d, Steps DEF PlacementInv, Delegate, HandOver
<1> HIDE DEF r
<1>h. /\ \A t \in Sessions : t # c => row'[t] = row[t]
      /\ row[c].exists => row'[c] = row[c]
      /\ ~row[c].exists => ~row'[c].tree
      /\ UNCHANGED <<lock, at, branch, made, repo>>
    BY <1>a DEF PlacementInv, TypeOK, Delegate, HandOver, git
<1>l. LockIsHeld' /\ \A t \in Sessions : lock'[t] # NoOne => proc'[lock'[t]].s = t
    BY <1>b, <1>e, <1>f, <1>g, <1>h, <1>0, LockKept DEF Past
<1>r. RecordComesFirst'
  <2>1. /\ \A t \in Sessions : row[t].exists => row'[t].exists /\ (row[t].tree => row'[t].tree)
        /\ \A t \in Sessions : (made'[t] => row'[t].tree) /\ (row'[t].tree => row'[t].exists)
      BY <1>b, <1>e, <1>f, <1>g, <1>h, <1>0 DEF PlacementInv, TypeOK, RecordComesFirst
  <2> QED  BY <1>b, <1>e, <1>f, <1>g, <1>h, <1>0, <2>1, RecordKept DEF PlacementInv, RecordComesFirst
<1>t. TypeOK'
    BY <1>b, <1>e, <1>f, <1>g, <1>h, <1>0, <1>l DEF PlacementInv, TypeOK, Standing
<1> QED  BY <1>l, <1>r, <1>t DEF PlacementInv

LEMMA LockInv ==
    ASSUME PlacementInv, NEW p \in Processes, Lock(p)
    PROVE  PlacementInv'
<1>1. CASE lock[proc[p].s] = NoOne
  <2> DEFINE s == proc[p].s
             pc == IF proc[p].pen THEN "confine" ELSE "locate"
  <2>a. s \in Sessions
      BY DEF PlacementInv, LockIsHeld, Lock
  <2>g. Goto(p, pc)
      BY <1>1 DEF Lock
  <2>h. pc \in {"confine", "locate"}
      OBVIOUS
  <2> HIDE DEF pc
  <2>0. /\ proc' \in [Processes -> Process]
        /\ proc'[p].s = s /\ proc'[p].pen = proc[p].pen /\ proc'[p].pc = pc
        /\ proc'[p].saw = proc[p].saw /\ proc'[p].read = proc[p].read
        /\ \A q \in Processes : q # p => proc'[q] = proc[q]
      BY <2>g, <2>h, GotoSteps DEF PlacementInv
  <2>c. lock' = [lock EXCEPT ![s] = p]
      BY <1>1 DEF Lock
  <2>d. \A t \in Sessions : lock[t] # NoOne => lock[t] # p
      BY DEF PlacementInv, TypeOK, LockIsHeld, Past, Lock
  <2> USE DEF pc
  <2>1. TypeOK'
      BY <1>1, <2>a, <2>0, <2>c, <2>d, PlacementAssumption DEF PlacementInv, TypeOK, Lock, git
  <2>2. RecordComesFirst'
      BY <1>1, <2>a, <2>0, <2>c DEF PlacementInv, RecordComesFirst, Lock, git
  <2>3. LockIsHeld'
      BY <1>1, <2>a, <2>0, <2>c, <2>d, PlacementAssumption DEF PlacementInv, TypeOK, LockIsHeld, Past, Lock, git
  <2> QED  BY <2>1, <2>2, <2>3 DEF PlacementInv
<1>2. CASE lock[proc[p].s] # NoOne
  <2>0. /\ proc' \in [Processes -> Process]
        /\ proc'[p] = Idle
        /\ \A q \in Processes : q # p => proc'[q] = proc[q]
      BY <1>2, Steps, IdleIsProcess DEF PlacementInv, Lock
  <2>1. TypeOK'
      BY <1>2, <2>0, PlacementAssumption DEF PlacementInv, TypeOK, LockIsHeld, Past, Lock, git
  <2>2. RecordComesFirst'
      BY <1>2, <2>0 DEF PlacementInv, RecordComesFirst, Lock, git, Idle
  <2>3. LockIsHeld'
      BY <1>2, <2>0, PlacementAssumption DEF PlacementInv, TypeOK, LockIsHeld, Past, Lock, git, Idle
  <2> QED  BY <2>1, <2>2, <2>3 DEF PlacementInv
<1> QED  BY <1>1, <1>2

LEMMA LocateInv ==
    ASSUME PlacementInv, NEW p \in Processes, Locate(p)
    PROVE  PlacementInv'
<1> DEFINE s == proc[p].s
<1>1. s \in Sessions /\ Tree(s) \in Dirs /\ proc[p].from \in Dirs /\ proc[p].pc = "locate"
    BY DirsAreRoots DEF PlacementInv, TypeOK, Process, LockIsHeld, Locate
<1>2. /\ proc' \in [Processes -> Process]
      /\ proc'[p].pc \in {"recreate", "refused", IF proc[p].pen THEN "lock" ELSE "confine"}
      /\ proc'[p].pc = "recreate" => proc[p].read
      /\ proc'[p].s = s /\ proc'[p].pen = proc[p].pen
      /\ proc'[p].saw = proc[p].saw /\ proc'[p].read = proc[p].read
      /\ \A q \in Processes : q # p => proc'[q] = proc[q]
  <2>1. CASE locate(proc[p].read, s) = "Recreate"
    <3>1. Goto(p, "recreate")
        BY <2>1 DEF Locate
    <3>2. proc[p].read
      <4>1. proc[p].read \in BOOLEAN
          BY DEF PlacementInv, TypeOK, Process
      <4> QED  BY <2>1, <4>1, OnlyRecordedIsRecreated DEF locate
    <3> QED  BY <3>1, <3>2, GotoSteps DEF PlacementInv
  <2>2. CASE Goto(p, "refused")
    <3>1. /\ proc' \in [Processes -> Process]
          /\ proc'[p].pc = "refused"
          /\ proc'[p].s = s /\ proc'[p].pen = proc[p].pen
          /\ proc'[p].saw = proc[p].saw /\ proc'[p].read = proc[p].read
          /\ \A q \in Processes : q # p => proc'[q] = proc[q]
        BY <2>2, GotoSteps DEF PlacementInv
    <3> QED  BY <3>1
  <2>3. ASSUME NEW dir \in Dirs, Placed(p, dir)
        PROVE  /\ proc' \in [Processes -> Process]
               /\ proc'[p].pc \in {"recreate", "refused", IF proc[p].pen THEN "lock" ELSE "confine"}
               /\ proc'[p].pc # "recreate"
               /\ proc'[p].s = s /\ proc'[p].pen = proc[p].pen
               /\ proc'[p].saw = proc[p].saw /\ proc'[p].read = proc[p].read
               /\ \A q \in Processes : q # p => proc'[q] = proc[q]
    <3>1. proc' = [proc EXCEPT ![p].cwd = dir, ![p].pc = IF proc[p].pen THEN "lock" ELSE "confine"]
        BY <2>3 DEF Placed
    <3> QED  BY <3>1, PlacedSteps DEF PlacementInv
  <2> QED  BY <1>1, <2>1, <2>2, <2>3 DEF Locate
<1>3. UNCHANGED <<row, lock, at, branch, made, repo>>
    BY DEF Locate, git
<1> HIDE DEF s
<1> USE DEF s
<1>l. LockIsHeld' /\ \A t \in Sessions : lock'[t] # NoOne => proc'[lock'[t]].s = t
    BY <1>1, <1>2, <1>3, LockKept DEF Past
<1>r. RecordComesFirst'
  <2>1. /\ \A t \in Sessions : row[t].exists => row'[t].exists /\ (row[t].tree => row'[t].tree)
        /\ \A t \in Sessions : (made'[t] => row'[t].tree) /\ (row'[t].tree => row'[t].exists)
      BY <1>1, <1>2, <1>3 DEF PlacementInv, TypeOK, RecordComesFirst
  <2> QED  BY <1>1, <1>2, <1>3, <2>1, RecordKept DEF PlacementInv, RecordComesFirst
<1>t. TypeOK'
    BY <1>1, <1>2, <1>3, <1>l DEF PlacementInv, TypeOK, Standing
<1> QED  BY <1>l, <1>r, <1>t DEF PlacementInv

LEMMA RecreateInv ==
    ASSUME PlacementInv, NEW p \in Processes, Recreate(p)
    PROVE  PlacementInv'
<1> DEFINE s == proc[p].s
<1>1. s \in Sessions /\ Tree(s) \in Dirs /\ row[s].exists /\ row[s].tree /\ proc[p].pc = "recreate"
    BY DirsAreRoots DEF PlacementInv, RecordComesFirst, LockIsHeld, Recreate
<1>2. /\ proc' \in [Processes -> Process]
      /\ proc'[p].pc \in {"refused", IF proc[p].pen THEN "lock" ELSE "confine"}
      /\ proc'[p].s = s /\ proc'[p].pen = proc[p].pen
      /\ proc'[p].saw = proc[p].saw /\ proc'[p].read = proc[p].read
      /\ \A q \in Processes : q # p => proc'[q] = proc[q]
    BY <1>1, GotoSteps, PlacedSteps DEF PlacementInv, Placed, Recreate
<1>3. /\ UNCHANGED <<row, lock, repo>>
      /\ at' \in [Sessions -> Standing] /\ branch' \in [Sessions -> BOOLEAN]
      /\ made' \in [Sessions -> BOOLEAN]
      /\ \A t \in Sessions : made'[t] => made[t] \/ t = s
    BY <1>1 DEF PlacementInv, TypeOK, Recreate, Added, git, Standing
<1>l. LockIsHeld' /\ \A t \in Sessions : lock'[t] # NoOne => proc'[lock'[t]].s = t
    BY <1>1, <1>2, <1>3, LockKept DEF Past
<1>r. RecordComesFirst'
  <2>1. /\ \A t \in Sessions : row[t].exists => row'[t].exists /\ (row[t].tree => row'[t].tree)
        /\ \A t \in Sessions : (made'[t] => row'[t].tree) /\ (row'[t].tree => row'[t].exists)
      BY <1>1, <1>2, <1>3 DEF PlacementInv, TypeOK, RecordComesFirst
  <2> QED  BY <1>1, <1>2, <1>3, <2>1, RecordKept DEF PlacementInv, RecordComesFirst
<1>t. TypeOK'
    BY <1>1, <1>2, <1>3, <1>l DEF PlacementInv, TypeOK, Standing
<1> QED  BY <1>l, <1>r, <1>t DEF PlacementInv

LEMMA ConfineInv ==
    ASSUME PlacementInv, NEW p \in Processes, Confine(p)
    PROVE  PlacementInv'
<1> DEFINE roots == IF proc[p].pen /\ proc[p].cwd = proc[p].from
                    THEN proc[p].inherited ELSE Confined(proc[p].cwd)
           r == [Idle EXCEPT !.pc = "work", !.pen = proc[p].pen, !.s = proc[p].s,
                             !.cwd = proc[p].cwd, !.roots = roots]
<1>a. roots \subseteq Roots /\ proc[p] \in Process
    BY ConfinedIsRoots DEF PlacementInv, TypeOK, Process
<1> HIDE DEF roots
<1>f. r \in Process /\ r.pc = "work" /\ r.s = proc[p].s /\ ~r.saw /\ ~r.read
    BY <1>a, DirsAreRoots DEF Process, Idle
<1>c. proc' = [proc EXCEPT ![p] = r]
    BY DEF Confine, Working, roots
<1>g. proc[p].s \in Sessions
    BY DEF PlacementInv, LockIsHeld, Confine
<1>0. /\ proc' \in [Processes -> Process]
      /\ proc'[p] = r
      /\ \A q \in Processes : q # p => proc'[q] = proc[q]
    BY <1>f, <1>c, Steps DEF PlacementInv
<1> HIDE DEF r
<1>1. LockIsHeld' /\ \A s \in Sessions : lock'[s] # NoOne => proc'[lock'[s]].s = s
    BY <1>0, <1>f, LockKept, <1>g DEF Confine, Past
<1>2. TypeOK'
    BY <1>0, <1>f, <1>1, <1>g DEF PlacementInv, TypeOK, Confine, git, Standing
<1>3. RecordComesFirst'
  <2>1. /\ \A s \in Sessions : row[s].exists => row'[s].exists /\ (row[s].tree => row'[s].tree)
        /\ \A s \in Sessions : (made'[s] => row'[s].tree) /\ (row'[s].tree => row'[s].exists)
      BY <1>f, <1>g DEF PlacementInv, TypeOK, RecordComesFirst, Confine, git
  <2> QED  BY <1>0, <1>f, <2>1, RecordKept, <1>g DEF PlacementInv, RecordComesFirst, Confine, git
<1> QED  BY <1>1, <1>2, <1>3 DEF PlacementInv

LEMMA EndInv ==
    ASSUME PlacementInv, NEW p \in Processes, End(p)
    PROVE  PlacementInv'
<1>1. TypeOK'
    BY PlacementAssumption, DirsAreRoots, IdleIsProcess, ConfinedIsRoots
    DEF PlacementInv, TypeOK, RecordComesFirst, LockIsHeld, Past, End, git, Process, Idle, NoRow
<1>2. RecordComesFirst'
    BY PlacementAssumption
    DEF PlacementInv, TypeOK, RecordComesFirst, LockIsHeld, End, git, Process, Idle, NoRow
<1>3. LockIsHeld'
    BY PlacementAssumption
    DEF PlacementInv, TypeOK, LockIsHeld, Past, End, git, Process, Idle, NoRow
<1> QED  BY <1>1, <1>2, <1>3 DEF PlacementInv

LEMMA MeddleInv ==
    ASSUME PlacementInv, NEW s \in Sessions, Meddle(s), UNCHANGED <<row, lock, proc, made>>
    PROVE  PlacementInv'
<1>1. TypeOK'
    BY DEF PlacementInv, TypeOK, Meddle, Standing
<1>2. RecordComesFirst' /\ LockIsHeld'
    BY DEF PlacementInv, RecordComesFirst, LockIsHeld, Past
<1> QED  BY <1>1, <1>2 DEF PlacementInv

LEMMA InitInv == Init => PlacementInv
BY IdleIsProcess, DirsAreRoots
DEF Init, PlacementInv, TypeOK, RecordComesFirst, LockIsHeld, Past, Standing, NoRow, Idle

LEMMA NextInv == PlacementInv /\ [Next]_vars => PlacementInv'
<1> SUFFICES ASSUME PlacementInv, [Next]_vars PROVE PlacementInv'
    OBVIOUS
<1>1. ASSUME NEW p \in Processes, NEW s \in Sessions, NEW dir \in Callers,
             Run(p, s, dir) \/ \E worktree \in BOOLEAN : Dispatch(p, s, dir, worktree)
      PROVE  PlacementInv'
    BY <1>1, RunInv, DispatchInv
<1>2. ASSUME NEW p \in Processes, NEW q \in Processes, NEW c \in Sessions,
             NEW worktree \in BOOLEAN, Delegate(p, q, c, worktree)
      PROVE  PlacementInv'
    BY <1>2, DelegateInv
<1>3. ASSUME NEW p \in Processes,
             Isolate(p) \/ Spawned(p) \/ Lock(p) \/ Locate(p) \/ Recreate(p) \/ Confine(p) \/ End(p)
      PROVE  PlacementInv'
    BY <1>3, RecordInv, CreateInv, CreateHalfInv, CreateFailsInv, SpawnedInv, LockInv, LocateInv,
       RecreateInv, ConfineInv, EndInv DEF Isolate
<1>4. ASSUME NEW s \in Sessions, Meddle(s), UNCHANGED <<row, lock, proc, made>>
      PROVE  PlacementInv'
    BY <1>4, MeddleInv
<1>5. CASE UNCHANGED vars
    BY <1>5 DEF vars, PlacementInv, TypeOK, RecordComesFirst, LockIsHeld, Past
<1> QED  BY <1>1, <1>2, <1>3, <1>4, <1>5 DEF Next

\* Rows, locks, processes and what stands at the paths keep their types, and
\* only a process that works on a session has its lock, for any number of
\* sessions and processes and whatever the user does (cli/src/main.rs:347-505).
THEOREM PlacementTypeCorrect == Spec => []TypeOK
<1>1. PlacementInv => TypeOK
    BY DEF PlacementInv
<1> QED  BY InitInv, NextInv, <1>1, PTL DEF Spec

-----------------------------------------------------------------------------
(* What a step may do to the place of a run and to the user's work.        *)

Refuses(p) == proc[p].pc \in {"locate", "recreate"} /\ proc'[p].pc = "refused"

\* Most steps place nobody, refuse nobody and leave the paths alone.
LEMMA QuietSteps ==
    ASSUME PlacementInv, NEW p \in Processes,
           \/ \E s \in Sessions, dir \in Callers :
                 Run(p, s, dir) \/ \E worktree \in BOOLEAN : Dispatch(p, s, dir, worktree)
           \/ \E q \in Processes, c \in Sessions, worktree \in BOOLEAN : Delegate(p, q, c, worktree)
           \/ Record(p) \/ CreateHalf(p) \/ CreateFails(p) \/ Spawned(p) \/ Lock(p) \/ Confine(p)
           \/ End(p)
    PROVE  /\ \A q \in Processes : ~IsPlaced(q) /\ ~Refuses(q)
           /\ at' = at
           /\ \A s \in Sessions : branch[s] => branch'[s]
<1>1. \A q \in Processes : q # p => proc'[q] = proc[q]
    BY DEF PlacementInv, TypeOK, Run, Dispatch, Delegate, HandOver, Record, CreateHalf, CreateFails, Spawned,
           Lock, Confine, Working, End, Goto
<1>2. proc[p].pc \notin {"create", "locate", "recreate"} \/ proc'[p] = Idle
  <2>1. CASE CreateHalf(p) \/ CreateFails(p) \/ End(p)
      BY <2>1 DEF PlacementInv, TypeOK, CreateHalf, CreateFails, End
  <2>2. CASE proc[p] = Idle \/ proc[p].pc \in {"record", "load", "lock", "confine"}
      BY <2>2 DEF Idle
  <2> QED  BY <2>1, <2>2 DEF Run, Dispatch, Delegate, HandOver, Record, Spawned, Lock, Confine
<1>3. at' = at /\ \A s \in Sessions : branch[s] => branch'[s]
    BY DEF PlacementInv, TypeOK, Run, Dispatch, Delegate, HandOver, Record, CreateHalf, CreateFails, Spawned,
           Lock, Confine, End, git
<1> QED  BY <1>1, <1>2, <1>3 DEF IsPlaced, Refuses, Idle

LEMMA CreatePlaces ==
    ASSUME PlacementInv, NEW p \in Processes, Create(p)
    PROVE  /\ proc[p].s \in Sessions /\ at[proc[p].s] = "nothing" /\ ~branch[proc[p].s]
           /\ at' = [at EXCEPT ![proc[p].s] = "own"]
           /\ branch' = [branch EXCEPT ![proc[p].s] = TRUE]
           /\ proc'[p].cwd = Tree(proc[p].s) /\ proc[p].pc = "create"
           /\ \A q \in Processes : q # p => proc'[q] = proc[q]
<1>1. proc[p].s \in Sessions /\ Tree(proc[p].s) \in Dirs
    BY DirsAreRoots DEF PlacementInv, LockIsHeld, Create
<1>2. proc' = [proc EXCEPT ![p].cwd = Tree(proc[p].s), ![p].pc = IF proc[p].pen THEN "lock" ELSE "load"]
    BY DEF Create, PlacementInv, TypeOK
<1>3. proc'[p].cwd = Tree(proc[p].s) /\ \A q \in Processes : q # p => proc'[q] = proc[q]
    BY <1>1, <1>2, PlacedSteps DEF PlacementInv
<1> QED  BY <1>1, <1>3 DEF Create, CanAdd, Added

LEMMA RecreatePlaces ==
    ASSUME PlacementInv, NEW p \in Processes, Recreate(p)
    PROVE  /\ proc[p].s \in Sessions /\ proc[p].pc = "recreate"
           /\ \/ /\ at[proc[p].s] = "nothing" /\ branch[proc[p].s]
                 /\ at' = [at EXCEPT ![proc[p].s] = "own"]
                 /\ branch' = [branch EXCEPT ![proc[p].s] = TRUE]
                 /\ proc'[p].cwd = Tree(proc[p].s)
                 /\ proc'[p].pc # "refused"
              \/ /\ ~(at[proc[p].s] = "nothing" /\ branch[proc[p].s] /\ repo_root(row[proc[p].s].cwd))
                 /\ at' = at /\ branch' = branch /\ proc'[p].pc = "refused"
           /\ \A q \in Processes : q # p => proc'[q] = proc[q]
<1>1. proc[p].s \in Sessions /\ Tree(proc[p].s) \in Dirs /\ proc[p].pc = "recreate"
    BY DirsAreRoots DEF PlacementInv, LockIsHeld, Recreate
<1>2. CASE CanAdd(row[proc[p].s].cwd, proc[p].s, FALSE)
  <2>1. proc' = [proc EXCEPT ![p].cwd = Tree(proc[p].s), ![p].pc = IF proc[p].pen THEN "lock" ELSE "confine"]
      BY <1>2 DEF Recreate, Placed
  <2>2. /\ proc'[p].cwd = Tree(proc[p].s) /\ proc'[p].pc # "refused"
        /\ \A q \in Processes : q # p => proc'[q] = proc[q]
      BY <1>1, <2>1, PlacedSteps DEF PlacementInv
  <2> QED  BY <1>1, <1>2, <2>2 DEF Recreate, CanAdd, Added
<1>3. CASE ~CanAdd(row[proc[p].s].cwd, proc[p].s, FALSE)
  <2>1. Goto(p, "refused")
      BY <1>3 DEF Recreate
  <2>2. proc'[p].pc = "refused" /\ \A q \in Processes : q # p => proc'[q] = proc[q]
      BY <2>1, GotoSteps DEF PlacementInv
  <2>3. branch[proc[p].s] \in BOOLEAN
      BY <1>1 DEF PlacementInv, TypeOK
  <2> QED  BY <1>1, <1>3, <2>2, <2>3 DEF Recreate, CanAdd, git
<1> QED  BY <1>2, <1>3

\* What the adapter decides for a process that read a recorded worktree.
LEMMA LocatePlaces ==
    ASSUME PlacementInv, NEW p \in Processes, Locate(p)
    PROVE  /\ proc[p].s \in Sessions /\ proc[p].pc = "locate"
           /\ at' = at /\ branch' = branch
           /\ proc'[p].pc \in {"lock", "confine"} /\ proc[p].read =>
                 proc'[p].cwd = Tree(proc[p].s) /\ at[proc[p].s] = "own"
           /\ proc'[p].pc = "refused" =>
                 ~(at[proc[p].s] = "nothing" /\ branch[proc[p].s] /\ repo_root(row[proc[p].s].cwd))
           /\ \A q \in Processes : q # p => proc'[q] = proc[q]
<1> DEFINE s == proc[p].s
           location == locate(proc[p].read, s)
<1>1. s \in Sessions /\ Tree(s) \in Dirs /\ proc[p].from \in Dirs /\ proc[p].pc = "locate"
    BY DirsAreRoots DEF PlacementInv, TypeOK, Process, LockIsHeld, Locate
<1>2. at' = at /\ branch' = branch
    BY DEF Locate, git
<1>3. proc[p].read \in BOOLEAN
    BY DEF PlacementInv, TypeOK, Process
<1>4. location = "Use" => at[s] = "own"
    BY DEF locate, decide, inspect
<1>5. location = "Shared" => ~proc[p].read
    BY <1>3 DEF locate, decide, inspect
<1>6. (at[s] = "nothing" /\ branch[s] /\ repo_root(row[s].cwd)) => location \in {"Shared", "Recreate"}
    BY <1>3 DEF locate, decide, inspect
<1>7. ASSUME NEW dir \in Dirs, Placed(p, dir)
      PROVE  /\ proc'[p].cwd = dir /\ proc'[p].pc # "refused"
             /\ \A q \in Processes : q # p => proc'[q] = proc[q]
  <2>1. proc' = [proc EXCEPT ![p].cwd = dir, ![p].pc = IF proc[p].pen THEN "lock" ELSE "confine"]
      BY <1>7 DEF Placed
  <2> QED  BY <2>1, PlacedSteps DEF PlacementInv
<1>8. CASE location = "Shared"
  <2>1. Placed(p, proc[p].from)
      BY <1>8 DEF Locate
  <2> QED  BY <1>1, <1>2, <1>5, <1>7, <1>8, <2>1
<1>9. CASE location = "Use"
  <2>1. Placed(p, Tree(s))
      BY <1>9 DEF Locate
  <2> QED  BY <1>1, <1>2, <1>4, <1>7, <1>9, <2>1
<1>10. CASE location = "Recreate"
  <2>1. Goto(p, "recreate")
      BY <1>10 DEF Locate
  <2>2. proc'[p].pc = "recreate" /\ \A q \in Processes : q # p => proc'[q] = proc[q]
      BY <2>1, GotoSteps DEF PlacementInv
  <2> QED  BY <1>1, <1>2, <2>2
<1>11. CASE location \notin {"Shared", "Use", "Recreate"}
  <2>1. Goto(p, "refused")
      BY <1>11 DEF Locate
  <2>2. proc'[p].pc = "refused" /\ \A q \in Processes : q # p => proc'[q] = proc[q]
      BY <2>1, GotoSteps DEF PlacementInv
  <2> QED  BY <1>1, <1>2, <1>6, <1>11, <2>2
<1> QED  BY <1>8, <1>9, <1>10, <1>11

InOwnTree == \A p \in Processes : IsPlaced(p) /\ (proc[p].saw \/ proc[p].read) =>
                 proc'[p].cwd = Tree(proc[p].s) /\ at'[proc[p].s] = "own"

KeepsWork ==
    /\ \A s \in Sessions : (at[s] # "nothing" => at'[s] = at[s]) /\ (branch[s] => branch'[s])
    /\ \A p \in Processes : Refuses(p) =>
          ~(at[proc[p].s] = "nothing" /\ branch[proc[p].s] /\ repo_root(row[proc[p].s].cwd))

LEMMA StepIsSafe == PlacementInv /\ [Next]_vars => InOwnTree /\ (proc' # proc => KeepsWork)
<1> SUFFICES ASSUME PlacementInv, [Next]_vars PROVE InOwnTree /\ (proc' # proc => KeepsWork)
    OBVIOUS
<1>1. ASSUME NEW p \in Processes,
             \/ \E s \in Sessions, dir \in Callers :
                   Run(p, s, dir) \/ \E worktree \in BOOLEAN : Dispatch(p, s, dir, worktree)
             \/ \E q \in Processes, c \in Sessions, worktree \in BOOLEAN : Delegate(p, q, c, worktree)
             \/ Record(p) \/ CreateHalf(p) \/ CreateFails(p) \/ Spawned(p) \/ Lock(p) \/ Confine(p)
             \/ End(p)
      PROVE  InOwnTree /\ KeepsWork
    BY <1>1, QuietSteps DEF InOwnTree, KeepsWork
<1>2. ASSUME NEW p \in Processes, Create(p)
      PROVE  InOwnTree /\ KeepsWork
    BY <1>2, CreatePlaces DEF InOwnTree, KeepsWork, IsPlaced, Refuses, PlacementInv, TypeOK
<1>3. ASSUME NEW p \in Processes, Recreate(p)
      PROVE  InOwnTree /\ KeepsWork
    BY <1>3, RecreatePlaces DEF InOwnTree, KeepsWork, IsPlaced, Refuses, PlacementInv, TypeOK
<1>4. ASSUME NEW p \in Processes, Locate(p)
      PROVE  InOwnTree /\ KeepsWork
    BY <1>4, LocatePlaces
    DEF InOwnTree, KeepsWork, IsPlaced, Refuses, PlacementInv, TypeOK, RecordComesFirst
<1>5. CASE proc' = proc
    BY <1>5 DEF InOwnTree, IsPlaced
<1>6. CASE Next
    BY <1>1, <1>2, <1>3, <1>4, <1>5, <1>6 DEF Next, Isolate
<1>7. CASE UNCHANGED vars
    BY <1>5, <1>7 DEF vars
<1> QED  BY <1>6, <1>7

\* Once a session has had a tree of its own, or its row names one that was never
\* made, every run of it that read its row since is placed in that tree and on its branch, or refused, for any number of
\* sessions and processes and whatever the user does (cli/src/main.rs:457-489,
\* harness/src/worktree.rs:185-321).
THEOREM PlacedInItsOwnTree == Spec => RunsInItsOwnTree
<1>1. PlacementInv /\ [Next]_vars =>
          [\A p \in Processes : IsPlaced(p) /\ (proc[p].saw \/ proc[p].read) =>
              proc'[p].cwd = Tree(proc[p].s) /\ at'[proc[p].s] = "own"]_vars
    BY StepIsSafe DEF InOwnTree
<1> QED  BY InitInv, NextInv, <1>1, PTL DEF Spec, RunsInItsOwnTree

\* No step of bullpen removes or replaces a tree or a branch, and no run is
\* refused while its branch is there and its path is free, for any number of
\* sessions and processes (harness/src/worktree.rs:80-126, :185-244).
THEOREM NoWorkIsLost == Spec => WorkIsKept
<1> DEFINE Kept ==
        /\ \A s \in Sessions : /\ at[s] # "nothing" => at'[s] = at[s]
                               /\ branch[s] => branch'[s]
        /\ \A p \in Processes :
              LET s == proc[p].s IN
              (proc[p].pc \in {"locate", "recreate"} /\ proc'[p].pc = "refused")
                  => ~(at[s] = "nothing" /\ branch[s] /\ repo_root(row[s].cwd))
<1>1. PlacementInv /\ [Next]_vars => [proc' # proc => Kept]_vars
    BY StepIsSafe DEF KeepsWork, Refuses
<1> QED  BY InitInv, NextInv, <1>1, PTL DEF Spec, WorkIsKept

-----------------------------------------------------------------------------
(* What a confined run may write to.                                       *)

\* A set with a session has its parent.
Closed(C) == \A y \in C : row[y].parent \in C \union {NoOne}

\* The sessions above s: they exist, s is not one of them, the parent of each,
\* as of s, is one of them or there is none, and s works for all of them.
Line(S, s) ==
    /\ S \subseteq {x \in Sessions : row[x].exists}
    /\ row[s].exists /\ s \notin S
    /\ \A x \in S \union {s} : row[x].parent \in S \union {NoOne}
    /\ \A C \in SUBSET Sessions : s \in C /\ Closed(C) => S \subseteq C

\* A process works for s below the sessions S: where it comes from and where it
\* is are trees of theirs, or its own.
Below(r, S) ==
    /\ Line(S, r.s)
    /\ \A x \in Sessions : /\ r.from = Tree(x) => x \in S
                           /\ r.cwd = Tree(x) /\ x # r.s => x \in S

\* A sandbox opens one directory of the sessions' and the user's.
Bounded(r) ==
    /\ r.pc = "work" => r.roots \intersect Dirs = {r.cwd}
    /\ r.pc \notin {"idle", "work"} /\ r.pen => r.inherited \intersect Dirs = {r.from}

LineInv == \A s \in Sessions : row[s].exists => \E S \in SUBSET Sessions : Line(S, s)

BelowInv == \A p \in Processes :
    /\ proc[p].pc # "idle" => \E S \in SUBSET Sessions : Below(proc[p], S)
    /\ Bounded(proc[p])

PlaceInv == LineInv /\ BelowInv

\* No command is typed in a session's worktree.
NotInATree == \A s \in Sessions : Tree(s) \notin Callers

LEMMA TreesDiffer ==
    /\ \A x, y : Tree(x) = Tree(y) => x = y
    /\ \A x : Tree(x) # Elsewhere /\ Tree(x) # Checkout
    /\ Temp \notin Dirs /\ Git \notin Dirs
BY DEF Tree, Elsewhere, Checkout, Temp, Git, Dirs

\* The sessions above one that exists are the same after every step that
\* leaves the parents of the rows there are.
RowsStay == \A s \in Sessions : row[s].exists => row'[s].exists /\ row'[s].parent = row[s].parent

LEMMA LineStays ==
    ASSUME RowsStay, NEW s \in Sessions, NEW S \in SUBSET Sessions, Line(S, s)
    PROVE  Line(S, s)'
<1>1. ASSUME NEW C \in SUBSET Sessions, s \in C, Closed(C)' PROVE S \subseteq C
  <2>1. PICK D \in SUBSET Sessions : D = C \intersect (S \union {s})
      OBVIOUS
  <2>2. Closed(D)
      BY <1>1, <2>1 DEF RowsStay, Line, Closed
  <2>3. S \subseteq D
      BY <1>1, <2>1, <2>2 DEF Line
  <2> QED  BY <2>1, <2>3
<1>2. /\ S \subseteq {x \in Sessions : row'[x].exists}
      /\ row'[s].exists /\ s \notin S
      /\ \A x \in S \union {s} : row'[x].parent \in S \union {NoOne}
    BY DEF RowsStay, Line
<1> QED  BY <1>1, <1>2 DEF Line

LEMMA BelowStays ==
    ASSUME RowsStay, NEW r, r.s \in Sessions, NEW S \in SUBSET Sessions, Below(r, S)
    PROVE  Below(r, S)'
BY LineStays DEF Below

\* A step of p's own, on rows that are there.
LEMMA BelowKept ==
    ASSUME PlacementInv, BelowInv, RowsStay, NEW p \in Processes, NEW t,
           \A q \in Processes : q # p => proc'[q] = proc[q],
           proc'[p] = t,
           t.pc # "idle" => \E S \in SUBSET Sessions : Below(t, S)',
           Bounded(t)
    PROVE  BelowInv'
<1>1. ASSUME NEW q \in Processes, q # p, proc'[q].pc # "idle"
      PROVE  \E S \in SUBSET Sessions : Below(proc[q], S)'
  <2>1. PICK r : r = proc[q]
    OBVIOUS
  <2>2. PICK S \in SUBSET Sessions : Below(r, S)
    BY <1>1, <2>1 DEF BelowInv
  <2>3. r.s \in Sessions
    BY <1>1, <2>1 DEF PlacementInv, LockIsHeld
  <2>4. Below(r, S)' /\ proc'[q] = r
    BY <1>1, <2>1, <2>2, <2>3, BelowStays
  <2> QED BY <2>4
<1>2. ASSUME proc'[p].pc # "idle" PROVE \E S \in SUBSET Sessions : Below(proc[p], S)'
  BY <1>2
<1>3. \A q \in Processes : Bounded(proc[q])'
  BY DEF BelowInv, Bounded
<1> QED BY <1>1, <1>2, <1>3 DEF BelowInv

\* From the row that was read to the sandbox a process keeps what it came with,
\* and is in its own tree or where it came from.
Carries(r, t) ==
    /\ r.pc \notin {"idle", "work"} /\ t.pc \notin {"idle", "work"}
    /\ t.s = r.s /\ t.from = r.from
    /\ t.cwd \in {r.cwd, r.from, Tree(r.s), Elsewhere}
    /\ t.pen => r.pen /\ t.inherited = r.inherited

LEMMA Carried ==
    ASSUME PlacementInv, BelowInv, RowsStay, NEW p \in Processes,
           \A q \in Processes : q # p => proc'[q] = proc[q],
           Carries(proc[p], proc'[p])
    PROVE  BelowInv'
<1>0. PICK r, t : r = proc[p] /\ t = proc'[p]
  OBVIOUS
<1>1. r.s \in Sessions /\ r.pc \notin {"idle", "work"}
  BY <1>0 DEF PlacementInv, LockIsHeld, Carries
<1>2. PICK S \in SUBSET Sessions : Below(r, S)
  BY <1>0, <1>1 DEF BelowInv
<1>3. Below(r, S)'
  BY <1>1, <1>2, BelowStays
<1>4. Carries(r, t)
  BY <1>0
<1>5. \A x \in Sessions : /\ t.from = Tree(x) => x \in S
                         /\ t.cwd = Tree(x) /\ x # t.s => x \in S
  BY <1>2, <1>4, TreesDiffer DEF Below, Carries
<1>6. Below(t, S)'
  BY <1>3, <1>4, <1>5 DEF Below, Carries
<1>7. Bounded(t)
  BY <1>0, <1>4 DEF BelowInv, Bounded, Carries
<1> QED BY <1>0, <1>6, <1>7, BelowKept

LEMMA Ceases ==
    ASSUME PlacementInv, BelowInv, RowsStay, NEW p \in Processes,
           \A q \in Processes : q # p => proc'[q] = proc[q],
           proc'[p] = Idle
    PROVE  BelowInv'
BY BelowKept DEF Idle, Bounded

LEMMA OwnSteps ==
    ASSUME PlacementInv, BelowInv, NEW p \in Processes,
           \/ Record(p) \/ Create(p) \/ CreateHalf(p) \/ CreateFails(p) \/ Spawned(p) \/ Lock(p)
           \/ Locate(p) \/ Recreate(p) \/ End(p)
    PROVE  /\ RowsStay /\ \A s \in Sessions : row'[s].exists => row[s].exists
           /\ \A q \in Processes : q # p => proc'[q] = proc[q]
           /\ Carries(proc[p], proc'[p]) \/ proc'[p] = Idle
<1>0. proc[p] \in Process /\ proc \in [Processes -> Process]
    BY DEF PlacementInv, TypeOK
<1>1. /\ RowsStay
      /\ \A s \in Sessions : row'[s].exists => row[s].exists
  <2>1. UNCHANGED row \/ \E s \in Sessions : row' = [row EXCEPT ![s].tree = TRUE]
      BY DEF PlacementInv, LockIsHeld, Record, Create, CreateHalf, CreateFails, Spawned, Lock, Locate, Recreate, End
  <2> QED  BY <2>1 DEF PlacementInv, TypeOK, RowsStay
<1>2. CASE CreateHalf(p) \/ CreateFails(p) \/ End(p)
    BY <1>0, <1>1, <1>2 DEF CreateHalf, CreateFails, End
<1>3. ASSUME NEW pc \in {"create", "confine", "locate", "recreate", "refused"}, Goto(p, pc),
             proc[p].pc \notin {"idle", "work"}
      PROVE  Carries(proc[p], proc'[p]) /\ \A q \in Processes : q # p => proc'[q] = proc[q]
  <2>1. proc'[p] = [proc[p] EXCEPT !.pc = pc] /\ \A q \in Processes : q # p => proc'[q] = proc[q]
      BY <1>0, <1>3 DEF Goto
  <2> QED  BY <1>0, <1>3, <2>1 DEF Carries, Process
<1>4. ASSUME NEW pc \in {"lock", "load", "confine"}, NEW dir \in {proc[p].from, Tree(proc[p].s)},
             proc' = [proc EXCEPT ![p].cwd = dir, ![p].pc = pc],
             proc[p].pc \notin {"idle", "work"}
      PROVE  Carries(proc[p], proc'[p]) /\ \A q \in Processes : q # p => proc'[q] = proc[q]
  <2>1. proc'[p] = [[proc[p] EXCEPT !.cwd = dir] EXCEPT !.pc = pc]
        /\ \A q \in Processes : q # p => proc'[q] = proc[q]
      BY <1>0, <1>4
  <2>2. dir \in Dirs
      BY <1>0, DirsAreRoots, <1>4 DEF Process, PlacementInv, LockIsHeld
  <2>3. PICK r : r = [proc[p] EXCEPT !.cwd = dir]
      OBVIOUS
  <2>4. /\ r \in Process /\ r.cwd = dir /\ r.s = proc[p].s /\ r.from = proc[p].from
        /\ r.pen = proc[p].pen /\ r.inherited = proc[p].inherited
      BY <1>0, <2>2, <2>3 DEF Process
  <2>5. /\ proc'[p].pc = pc /\ proc'[p].cwd = r.cwd /\ proc'[p].s = r.s /\ proc'[p].from = r.from
        /\ proc'[p].pen = r.pen /\ proc'[p].inherited = r.inherited
      BY <2>1, <2>3, <2>4 DEF Process
  <2> QED  BY <1>4, <2>1, <2>4, <2>5 DEF Carries
<1>5. CASE Record(p)
    BY <1>1, <1>3, <1>5 DEF Record
<1>6. CASE Create(p)
  <2>1. proc' = [proc EXCEPT ![p].cwd = Tree(proc[p].s), ![p].pc = IF proc[p].pen THEN "lock" ELSE "load"]
      BY <1>0, <1>6 DEF Create
  <2> QED  BY <1>1, <1>4, <1>6, <2>1 DEF Create
<1>7. CASE Spawned(p)
  <2>1. proc'[p] = Loaded(proc[p].s, proc[p].from) /\ proc[p].pc = "load"
        /\ \A q \in Processes : q # p => proc'[q] = proc[q]
      BY <1>0, <1>7 DEF Spawned
  <2> QED  BY <1>1, <2>1 DEF Carries, Loaded, Idle
<1>8. CASE Lock(p)
  <2>1. CASE lock[proc[p].s] = NoOne
    <3>1. Goto(p, IF proc[p].pen THEN "confine" ELSE "locate") /\ proc[p].pc = "lock"
        BY <1>8, <2>1 DEF Lock
    <3> QED  BY <1>1, <1>3, <3>1
  <2>2. CASE lock[proc[p].s] # NoOne
      BY <1>0, <1>1, <1>8, <2>2 DEF Lock
  <2> QED  BY <2>1, <2>2
<1>9. CASE Locate(p)
  <2>1. /\ proc[p].pc = "locate"
        /\ \/ \E dir \in {proc[p].from, Tree(proc[p].s)} : Placed(p, dir)
           \/ Goto(p, "recreate") \/ Goto(p, "refused")
      BY <1>9 DEF Locate
  <2>2. ASSUME NEW dir \in {proc[p].from, Tree(proc[p].s)}, Placed(p, dir)
        PROVE  proc' = [proc EXCEPT ![p].cwd = dir, ![p].pc = IF proc[p].pen THEN "lock" ELSE "confine"]
      BY <2>2 DEF Placed
  <2> QED  BY <1>1, <1>3, <1>4, <2>1, <2>2
<1>10. CASE Recreate(p)
  <2>1. proc[p].pc = "recreate" /\ (Placed(p, Tree(proc[p].s)) \/ Goto(p, "refused"))
      BY <1>10 DEF Recreate
  <2>2. Placed(p, Tree(proc[p].s)) =>
          proc' = [proc EXCEPT ![p].cwd = Tree(proc[p].s), ![p].pc = IF proc[p].pen THEN "lock" ELSE "confine"]
      BY DEF Placed
  <2> QED  BY <1>1, <1>3, <1>4, <2>1, <2>2
<1> QED  BY <1>2, <1>5, <1>6, <1>7, <1>8, <1>9, <1>10

\* The roots a run gets are around its place alone.
LEMMA ConfineBounds ==
    ASSUME PlacementInv, BelowInv, NEW p \in Processes, Confine(p)
    PROVE  /\ RowsStay /\ UNCHANGED row
           /\ \A q \in Processes : q # p => proc'[q] = proc[q]
           /\ proc[p].pc = "confine" /\ proc[p].s \in Sessions
           /\ proc'[p].pc = "work" /\ proc'[p].s = proc[p].s
           /\ proc'[p].from = Elsewhere /\ proc'[p].cwd = proc[p].cwd
           /\ proc'[p].roots \intersect Dirs = {proc[p].cwd}
           /\ proc'[p].roots = IF proc[p].pen /\ proc[p].cwd = proc[p].from
                               THEN proc[p].inherited ELSE Confined(proc[p].cwd)
<1> DEFINE roots == IF proc[p].pen /\ proc[p].cwd = proc[p].from
                    THEN proc[p].inherited ELSE Confined(proc[p].cwd)
<1>1. proc'[p] = [Idle EXCEPT !.pc = "work", !.pen = proc[p].pen, !.s = proc[p].s,
                             !.cwd = proc[p].cwd, !.roots = roots]
      /\ \A q \in Processes : q # p => proc'[q] = proc[q]
    BY DEF Confine, Working, PlacementInv, TypeOK
<1>2. proc[p].pc = "confine" /\ proc[p].s \in Sessions /\ UNCHANGED row /\ proc[p].cwd \in Dirs
    BY DEF Confine, PlacementInv, LockIsHeld, TypeOK, Process
<1>3. roots \intersect Dirs = {proc[p].cwd}
  <2>1. CASE proc[p].pen /\ proc[p].cwd = proc[p].from
      BY <1>2, <2>1 DEF BelowInv, Bounded
  <2>2. CASE ~(proc[p].pen /\ proc[p].cwd = proc[p].from)
      BY <1>2, <2>2, TreesDiffer DEF Confined, git_write_roots
  <2> QED  BY <2>1, <2>2
<1> QED  BY <1>1, <1>2, <1>3 DEF RowsStay, Idle

LEMMA ConfineStep ==
    ASSUME PlacementInv, BelowInv, NEW p \in Processes, Confine(p)
    PROVE  BelowInv'
<1>0. PICK r, t : r = proc[p] /\ t = proc'[p]
    OBVIOUS
<1>1. PICK S \in SUBSET Sessions : Below(r, S)
    BY <1>0, ConfineBounds DEF BelowInv
<1>2. r.s \in Sessions
    BY <1>0, ConfineBounds
<1>3. Below(r, S)'
    BY <1>1, <1>2, ConfineBounds, BelowStays
<1>4. Below(t, S)'
    BY <1>0, <1>3, ConfineBounds, TreesDiffer DEF Below
<1>5. Bounded(t)
    BY <1>0, ConfineBounds DEF Bounded
<1> QED  BY <1>0, <1>4, <1>5, ConfineBounds, BelowKept

\* A session that is new has nobody above it, if it is the user's.
LEMMA RunStep ==
    ASSUME PlacementInv, PlaceInv, NotInATree, NEW p \in Processes, NEW s \in Sessions, NEW dir \in Callers,
           Run(p, s, dir) \/ \E worktree \in BOOLEAN : Dispatch(p, s, dir, worktree)
    PROVE  BelowInv' /\ LineInv'
<1>1. /\ RowsStay
      /\ \A x \in Sessions \ {s} : row'[x] = row[x]
      /\ row'[s].exists /\ (~row[s].exists => row'[s].parent = NoOne)
  <2>1. \/ row' = row /\ row[s].exists
        \/ ~row[s].exists /\ row' = [row EXCEPT ![s] = [exists |-> TRUE, parent |-> NoOne, cwd |-> dir, tree |-> FALSE]]
      BY DEF Run, Dispatch, PlacementInv, TypeOK
  <2> QED  BY <2>1 DEF PlacementInv, TypeOK, RowsStay
<1>2. /\ \A q \in Processes : q # p => proc'[q] = proc[q]
      /\ proc'[p].s = s /\ proc'[p].from = dir /\ proc'[p].cwd = Elsewhere
      /\ proc'[p].pc \notin {"idle", "work"} /\ proc'[p].pen = FALSE
  <2>1. CASE Run(p, s, dir)
      BY <2>1 DEF PlacementInv, TypeOK, Run, Loaded, Idle
  <2>2. ASSUME NEW worktree \in BOOLEAN, Dispatch(p, s, dir, worktree)
        PROVE  \E pc \in {"record", "load"} :
                  proc' = [proc EXCEPT ![p] = [Idle EXCEPT !.pc = pc, !.s = s, !.from = dir]]
      BY <2>2 DEF Dispatch
  <2>3. ASSUME NEW pc \in {"record", "load"},
               proc' = [proc EXCEPT ![p] = [Idle EXCEPT !.pc = pc, !.s = s, !.from = dir]]
        PROVE  /\ \A q \in Processes : q # p => proc'[q] = proc[q]
               /\ proc'[p].s = s /\ proc'[p].from = dir /\ proc'[p].cwd = Elsewhere
               /\ proc'[p].pc \notin {"idle", "work"} /\ proc'[p].pen = FALSE
      BY <2>3 DEF PlacementInv, TypeOK, Idle
  <2> QED  BY <2>1, <2>2, <2>3
<1>3. \E S \in SUBSET Sessions : Line(S, s)'
  <2>1. CASE row[s].exists
    <3>1. PICK S \in SUBSET Sessions : Line(S, s)
        BY <2>1 DEF PlaceInv, LineInv
    <3> QED  BY <1>1, <3>1, LineStays
  <2>2. CASE ~row[s].exists
    <3>1. Line({}, s)'
        BY <1>1, <2>2 DEF Line
    <3> QED  BY <3>1
  <2> QED  BY <2>1, <2>2
<1>4. LineInv'
  <2> SUFFICES ASSUME NEW x \in Sessions, row'[x].exists, x # s PROVE \E S \in SUBSET Sessions : Line(S, x)'
      BY <1>3 DEF LineInv
  <2>1. PICK S \in SUBSET Sessions : Line(S, x)
      BY <1>1 DEF PlaceInv, LineInv
  <2> QED  BY <1>1, <2>1, LineStays
<1>5. PICK t : t = proc'[p]
    OBVIOUS
<1>6. PICK S \in SUBSET Sessions : Line(S, s)'
    BY <1>3
<1>7. Below(t, S)'
    BY <1>2, <1>5, <1>6, TreesDiffer DEF Below, NotInATree
<1>8. Bounded(t)
    BY <1>2, <1>5 DEF Bounded
<1>9. BelowInv'
    BY <1>1, <1>2, <1>5, <1>7, <1>8, BelowKept DEF PlaceInv
<1> QED  BY <1>4, <1>9

\* A child is not above the session that delegates to it.
LEMMA DelegateStep ==
    ASSUME PlacementInv, PlaceInv, NEW p \in Processes, NEW q \in Processes, NEW c \in Sessions,
           NEW worktree \in BOOLEAN, Delegate(p, q, c, worktree)
    PROVE  BelowInv' /\ LineInv'
<1>0. PICK r, t : r = proc[q] /\ t = proc'[p]
    OBVIOUS
<1>1. /\ r.pc = "work" /\ r.s # c /\ r.s \in Sessions
      /\ row[c].exists => row[c].parent = r.s
    BY <1>0 DEF Delegate, HandOver, PlacementInv, LockIsHeld
<1>2. PICK S \in SUBSET Sessions : Below(r, S)
    BY <1>0, <1>1 DEF PlaceInv, BelowInv
<1>3. c \notin S
    BY <1>1, <1>2, PlacementAssumption DEF Below, Line
<1>4. /\ RowsStay
      /\ \A x \in Sessions \ {c} : row'[x] = row[x]
      /\ row'[c].exists /\ row'[c].parent = r.s
    BY <1>0, <1>1 DEF Delegate, HandOver, PlacementInv, TypeOK, RowsStay
<1>5. Line(S \union {r.s}, c)'
  <2>1. ASSUME NEW C \in SUBSET Sessions, c \in C, Closed(C)' PROVE S \union {r.s} \subseteq C
    <3>1. r.s \in C
        BY <1>1, <1>4, <2>1, PlacementAssumption DEF Closed
    <3>2. Line(S, r.s)'
        BY <1>1, <1>2, <1>4, LineStays DEF Below
    <3> QED  BY <2>1, <3>1, <3>2 DEF Line
  <2>2. /\ S \union {r.s} \subseteq {x \in Sessions : row'[x].exists}
        /\ row'[c].exists /\ c \notin S \union {r.s}
        /\ \A x \in (S \union {r.s}) \union {c} : row'[x].parent \in (S \union {r.s}) \union {NoOne}
      BY <1>1, <1>2, <1>3, <1>4 DEF Below, Line, RowsStay
  <2> QED  BY <2>1, <2>2 DEF Line
<1>6. LineInv'
  <2> SUFFICES ASSUME NEW x \in Sessions, row'[x].exists, x # c PROVE \E T \in SUBSET Sessions : Line(T, x)'
      BY <1>1, <1>5 DEF LineInv
  <2>1. PICK T \in SUBSET Sessions : Line(T, x)
      BY <1>4 DEF PlaceInv, LineInv
  <2> QED  BY <1>4, <2>1, LineStays
<1>7. /\ \A o \in Processes : o # p => proc'[o] = proc[o]
      /\ t.s = c /\ t.from = r.cwd /\ t.cwd = Elsewhere /\ t.inherited = r.roots
      /\ t.pc \in {"record", "locate"}
  <2>1. /\ \A o \in Processes : o # p => proc'[o] = proc[o]
        /\ t = [Loaded(c, r.cwd) EXCEPT !.pen = TRUE, !.inherited = r.roots,
                                        !.pc = IF worktree /\ ~row'[c].tree THEN "record" ELSE "locate"]
      BY <1>0 DEF Delegate, HandOver, PlacementInv, TypeOK
  <2> QED  BY <2>1 DEF Loaded, Idle
<1>8. Below(t, S \union {r.s})'
    BY <1>2, <1>5, <1>7, TreesDiffer DEF Below
<1>9. Bounded(t)
    BY <1>0, <1>1, <1>7 DEF Bounded, PlaceInv, BelowInv
<1>10. BelowInv'
    BY <1>0, <1>1, <1>4, <1>7, <1>8, <1>9, BelowKept DEF PlaceInv
<1> QED  BY <1>6, <1>10

LEMMA PlaceInit == Init => PlaceInv
BY DEF Init, NoRow, Idle, PlaceInv, LineInv, BelowInv, Bounded

LEMMA PlaceStep == ASSUME NotInATree PROVE PlacementInv /\ PlaceInv /\ [Next]_vars => PlaceInv'
<1> SUFFICES ASSUME PlacementInv, PlaceInv, [Next]_vars PROVE PlaceInv'
    OBVIOUS
<1>0. ASSUME RowsStay, \A s \in Sessions : row'[s].exists => row[s].exists PROVE LineInv'
  <2> SUFFICES ASSUME NEW x \in Sessions, row'[x].exists PROVE \E S \in SUBSET Sessions : Line(S, x)'
      BY DEF LineInv
  <2>1. PICK S \in SUBSET Sessions : Line(S, x)
      BY <1>0 DEF PlaceInv, LineInv
  <2> QED  BY <1>0, <2>1, LineStays
<1>1. ASSUME NEW p \in Processes, NEW s \in Sessions, NEW dir \in Callers,
             Run(p, s, dir) \/ \E worktree \in BOOLEAN : Dispatch(p, s, dir, worktree)
      PROVE  PlaceInv'
    BY <1>1, RunStep DEF PlaceInv
<1>2. ASSUME NEW p \in Processes, NEW q \in Processes, NEW c \in Sessions,
             NEW worktree \in BOOLEAN, Delegate(p, q, c, worktree)
      PROVE  PlaceInv'
    BY <1>2, DelegateStep DEF PlaceInv
<1>3. ASSUME NEW p \in Processes, Confine(p) PROVE PlaceInv'
  <2>1. RowsStay /\ \A s \in Sessions : row'[s].exists => row[s].exists
      BY <1>3, ConfineBounds DEF PlaceInv
  <2> QED  BY <1>0, <1>3, <2>1, ConfineStep DEF PlaceInv
<1>4. ASSUME NEW p \in Processes,
             Isolate(p) \/ Spawned(p) \/ Lock(p) \/ Locate(p) \/ Recreate(p) \/ End(p)
      PROVE  PlaceInv'
  <2>1. /\ RowsStay /\ \A s \in Sessions : row'[s].exists => row[s].exists
        /\ \A q \in Processes : q # p => proc'[q] = proc[q]
        /\ Carries(proc[p], proc'[p]) \/ proc'[p] = Idle
      BY <1>4, OwnSteps DEF PlaceInv, Isolate
  <2> QED  BY <1>0, <2>1, Carried, Ceases DEF PlaceInv
<1>5. CASE UNCHANGED <<row, proc>>
    BY <1>5 DEF PlaceInv, LineInv, BelowInv, Below, Bounded, Line, Closed
<1> QED  BY <1>1, <1>2, <1>3, <1>4, <1>5 DEF Next, vars

LEMMA PlaceHolds == ASSUME NotInATree PROVE Spec => [](PlacementInv /\ PlaceInv)
BY InitInv, NextInv, PlaceInit, PlaceStep, PTL DEF Spec

\* When no command is typed in a session's worktree, whoever works in one, or
\* may write there, is its session or was delegated by it, through any depth of
\* delegation and however often runs end, die and are resumed from elsewhere
\* (harness/src/pen.rs:128-152, :174-180, cli/src/main.rs:457-489).
THEOREM TreesAreForTheirLine == ASSUME NotInATree PROVE Spec => []NoStrangerInATree
<1>1. PlacementInv /\ PlaceInv => NoStrangerInATree
  <2> SUFFICES ASSUME PlacementInv, PlaceInv, NEW p \in Processes, NEW s \in Sessions,
                      proc[p].pc = "work", Tree(s) \in {proc[p].cwd} \union proc[p].roots
               PROVE  s \in WorksFor(proc[p].s)
      BY DEF NoStrangerInATree
  <2>1. PICK S \in SUBSET Sessions : Below(proc[p], S)
      BY DEF PlaceInv, BelowInv
  <2>2. proc[p].cwd = Tree(s)
      BY DirsAreRoots DEF PlaceInv, BelowInv, Bounded
  <2>3. s = proc[p].s \/ s \in S
      BY <2>1, <2>2 DEF Below
  <2>4. ASSUME NEW C \in SUBSET Sessions, proc[p].s \in C, Closed(C) PROVE s \in C
      BY <2>1, <2>3, <2>4 DEF Below, Line
  <2> QED  BY <2>4 DEF WorksFor, Closed
<1> QED  BY <1>1, PlaceHolds, PTL

\* When no command is typed in a session's worktree, a confined run may write
\* where it works, to no other tree and not to the checkout; and from a linked
\* worktree that stands to the repository it commits through.  A child that
\* works in its own tree is never where its parent is, so it has a sandbox of
\* its own (cli/src/main.rs:489-505, harness/src/pen.rs:455-468).
THEOREM WritesWhereItWorks == ASSUME NotInATree PROVE Spec => ConfinedToItsPlace
<1> DEFINE Confines ==
        \A p \in Processes :
          (proc[p].pc = "confine" /\ proc'[p].pc = "work") =>
              /\ proc'[p].roots \intersect Dirs = {proc[p].cwd}
              /\ (proc[p].cwd = Tree(proc[p].s) /\ at[proc[p].s] = "own" /\ repo)
                    => Git \in proc'[p].roots
<1>1. PlacementInv /\ PlaceInv /\ [Next]_vars => [Confines]_vars
  <2> SUFFICES ASSUME PlacementInv, PlaceInv, Next, NEW p \in Processes,
                      proc[p].pc = "confine", proc'[p].pc = "work"
               PROVE  /\ proc'[p].roots \intersect Dirs = {proc[p].cwd}
                      /\ (proc[p].cwd = Tree(proc[p].s) /\ at[proc[p].s] = "own" /\ repo)
                            => Git \in proc'[p].roots
      OBVIOUS
  <2>1. Confine(p)
    <3>1. ASSUME NEW q \in Processes, q # p,
                 \A o \in Processes : o # q => proc'[o] = proc[o]
          PROVE  FALSE
        BY <3>1
    <3>2. ASSUME NEW q \in Processes, Confine(q) PROVE q = p
        BY <3>1, <3>2, ConfineBounds DEF PlaceInv
    <3>3. ASSUME NEW q \in Processes,
                 \/ Isolate(q) \/ Spawned(q) \/ Lock(q) \/ Locate(q) \/ Recreate(q) \/ End(q)
          PROVE  FALSE
      <4>1. /\ \A o \in Processes : o # q => proc'[o] = proc[o]
            /\ Carries(proc[q], proc'[q]) \/ proc'[q] = Idle
          BY <3>3, OwnSteps DEF PlaceInv, Isolate
      <4> QED  BY <3>1, <4>1 DEF Carries, Idle
    <3>4. ASSUME NEW q \in Processes, proc[q] = Idle, NEW t, proc' = [proc EXCEPT ![q] = t] PROVE FALSE
        BY <3>4 DEF PlacementInv, TypeOK, Idle
    <3> QED  BY <3>2, <3>3, <3>4 DEF Next, Run, Dispatch, Delegate, HandOver
  <2>2. PICK S \in SUBSET Sessions : Line(S, proc[p].s) /\ \A x \in Sessions : proc[p].from = Tree(x) => x \in S
      BY DEF PlaceInv, BelowInv, Below
  <2>3. proc[p].cwd = Tree(proc[p].s) => proc[p].cwd # proc[p].from
      BY <2>1, <2>2, ConfineBounds DEF Line, PlaceInv
  <2>4. proc[p].cwd = Tree(proc[p].s) /\ at[proc[p].s] = "own" /\ repo => Git \in Confined(proc[p].cwd)
      BY <2>1, ConfineBounds, TreesDiffer DEF Confined, git_write_roots, repo_root, PlaceInv
  <2> QED  BY <2>1, <2>3, <2>4, ConfineBounds DEF PlaceInv
<1> QED  BY <1>1, PlaceHolds, PTL DEF Spec, ConfinedToItsPlace
=============================================================================
