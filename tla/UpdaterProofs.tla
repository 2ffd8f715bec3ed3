---------------------------- MODULE UpdaterProofs ----------------------------
(***************************************************************************)
(* What holds of the updater for every set of directories, updaters and    *)
(* operators and any number of snapshots and mishaps: there is always a    *)
(* way back to a whole installation, an installation left in pieces is     *)
(* reported, and a reported success lasts.                                 *)
(***************************************************************************)
EXTENDS Updater, TLAPS

-----------------------------------------------------------------------------
(***************************************************************************)
(* The range of every variable.  The snapshot of a plan is a tree from the *)
(* moment of the deployment on, so that a rollback has one to restore.     *)
(***************************************************************************)
Phases ==
    {"idle", "gates", "staging", "prepared", "backing up", "deploying", "restoring"}

Jobs ==
    [kind : {"none", "backup", "deploy", "restore", "done", "failed"},
     next : Nat \ {0}, step : {"remove", "create", "complete"},
     source : Tree, manifest : Tree]

Plans == [original : Tree, expected : Tree, snapshot : Tree \cup {0}]

TypeOK ==
    /\ tree \in Tree
    /\ snapshots \in Seq(Tree)
    /\ lock \subseteq Updaters
    /\ phase \in [Updaters -> Phases]
    /\ plan \in [Updaters -> Plans]
    /\ job \in [Processes -> Jobs]
    /\ reports \subseteq {"success", "unrecovered"}
    /\ mishaps \in Nat
    /\ \A u \in Updaters : phase[u] = "deploying" => plan[u].snapshot \in Tree

LEMMA NoTreeIsTree == NoTree \in Tree
  BY DEF NoTree, Tree, Content

LEMMA NoJobIsJob == NoJob \in Jobs
  BY NoTreeIsTree DEF NoJob, Jobs

LEMMA NoJobIsIdle == NoJob.kind = "none"
  BY DEF NoJob

LEMMA NoPlanIsPlan == NoPlan \in Plans
  BY NoTreeIsTree DEF NoPlan, Plans

LEMMA LayoutIsTree == \A t \in Tree : Layout(t) \in Tree
  BY DEF Layout, Tree, Content

\* The directory at work is one of the managed ones.
LEMMA CurrentIsDir ==
    ASSUME NEW p \in Processes, job[p] \in Jobs, ~Finished(p)
    PROVE  Current(p) \in Dirs
  <1>1. job[p].next \in Nat \ {0}
    BY DEF Jobs
  <1>2. Managed \in Seq(Dirs)
    BY UpdaterAssumption
  <1>3. job[p].next \in DOMAIN Managed
    BY <1>1, <1>2 DEF Finished
  <1> QED
    BY <1>3 DEF Current, Dirs

\* A directory that is written leaves a tree.
LEMMA WriteKeepsTree ==
    ASSUME NEW t \in Tree, NEW d \in Dirs, NEW c \in Content
    PROVE  [t EXCEPT ![d] = c] \in Tree
  BY DEF Tree

LEMMA BeginKeepsJobs ==
    ASSUME job \in [Processes -> Jobs], NEW p \in Processes,
           NEW kind \in {"backup", "deploy", "restore"},
           NEW source \in Tree, NEW manifest \in Tree, Begin(p, kind, source, manifest)
    PROVE  /\ job' \in [Processes -> Jobs]
           /\ job'[p].kind = kind
           /\ \A q \in Processes : q # p => job'[q] = job[q]
  BY DEF Begin, Jobs

LEMMA EndKeepsJobs ==
    ASSUME job \in [Processes -> Jobs], NEW p \in Processes,
           NEW kind \in {"done", "failed"}, End(p, kind)
    PROVE  /\ job' \in [Processes -> Jobs]
           /\ job'[p].kind = kind
           /\ job[p].kind = "backup" => job'[p].source = job[p].source
           /\ \A q \in Processes : q # p => job'[q] = job[q]
  <1>1. job[p].source \in Tree /\ NoTree \in Tree
    BY NoTreeIsTree DEF Jobs
  <1> DEFINE kept == IF job[p].kind = "backup" THEN job[p].source ELSE NoTree
             ended == [NoJob EXCEPT !.kind = kind, !.source = kept]
  <1>2. kept \in Tree
    BY <1>1
  <1>3. job' = [job EXCEPT ![p] = ended]
    BY DEF End
  <1> HIDE DEF kept
  <1>4. ended \in Jobs /\ ended.kind = kind /\ ended.source = kept
    <2> HIDE DEF NoJob, Tree
    <2> QED
      BY <1>2, NoJobIsJob DEF Jobs
  <1> HIDE DEF ended
  <1> QED
    BY <1>3, <1>4 DEF kept

-----------------------------------------------------------------------------
(***************************************************************************)
(* The work on the directories.                                            *)
(***************************************************************************)

\* A job under way stays what it is or ends.  Only a deployment or a restoration
\* writes, and it is done when the tree is the one it wrote; only a backup appends
\* a snapshot, of the tree as it is, and it is done when it has.
Worked(p) ==
    /\ job' \in [Processes -> Jobs]
    /\ \A q \in Processes : q # p => job'[q] = job[q]
    /\ UNCHANGED <<lock, phase, plan, reports, mishaps>>
    /\ tree' \in Tree
    /\ tree' # tree => job[p].kind \in {"deploy", "restore"}
    /\ job[p].kind \in {"backup", "deploy", "restore"}
    /\ job'[p].kind \in {job[p].kind, "done", "failed"}
    /\ \/ snapshots' = snapshots
       \/ job[p].kind = "backup" /\ tree' = tree /\ snapshots' = Append(snapshots, tree)
    /\ job'[p].kind = "done" =>
          \/ job[p].kind = "backup" /\ snapshots' = Append(snapshots, tree)
          \/ job[p].kind \in {"deploy", "restore"} /\ tree = job[p].source

LEMMA BackUpWorks ==
    ASSUME TypeOK, NEW p \in Processes, BackUp(p)
    PROVE  Worked(p)
  <1>1. job[p] \in Jobs /\ tree \in Tree /\ job \in [Processes -> Jobs]
    BY DEF TypeOK
  <1>2. Current(p) \in Dirs
    BY <1>1, CurrentIsDir DEF BackUp
  <1>3. tree[Current(p)] \in Content
    BY <1>1, <1>2 DEF Tree
  <1> DEFINE copied == [job[p].source EXCEPT ![Current(p)] = tree[Current(p)]]
  <1>4. copied \in Tree
    <2>1. job[p].source \in Tree
      BY <1>1 DEF Jobs
    <2> QED
      BY <1>2, <1>3, <2>1 DEF Tree
  <1>5. job[p].next + 1 \in Nat \ {0}
    BY <1>1 DEF Jobs
  <1> DEFINE after == [job[p] EXCEPT !.source = copied, !.next = job[p].next + 1]
  <1>6. job' = [job EXCEPT ![p] = after]
    BY <1>1 DEF BackUp, Jobs
  <1>7. after \in Jobs /\ after.kind = "backup"
    <2> HIDE DEF copied, Tree
    <2> QED
      BY <1>1, <1>4, <1>5 DEF BackUp, Jobs
  <1> HIDE DEF after
  <1>8. job' \in [Processes -> Jobs] /\ job'[p] = after
        /\ \A q \in Processes : q # p => job'[q] = job[q]
    BY <1>1, <1>6, <1>7
  <1> QED
    BY <1>1, <1>7, <1>8 DEF BackUp, Worked, files

LEMMA PublishWorks ==
    ASSUME TypeOK, NEW p \in Processes, Publish(p)
    PROVE  Worked(p)
  <1>1. job[p] \in Jobs /\ tree \in Tree /\ job \in [Processes -> Jobs]
    BY DEF TypeOK
  <1>2. CASE End(p, "done")
    <2>1. job' \in [Processes -> Jobs] /\ job'[p].kind = "done"
          /\ \A q \in Processes : q # p => job'[q] = job[q]
      BY <1>1, <1>2, EndKeepsJobs
    <2>2. ~End(p, "failed")
      <3>1. End(p, "failed") => job'[p].kind = "failed"
        BY <1>1, EndKeepsJobs
      <3> QED
        BY <2>1, <3>1
    <2> QED
      BY <1>1, <2>1, <2>2 DEF Publish, Worked
  <1>3. CASE End(p, "failed") /\ UNCHANGED snapshots
    <2>1. job' \in [Processes -> Jobs] /\ job'[p].kind = "failed"
          /\ \A q \in Processes : q # p => job'[q] = job[q]
      BY <1>1, <1>3, EndKeepsJobs
    <2> QED
      BY <1>1, <1>3, <2>1 DEF Publish, Worked
  <1> QED
    BY <1>2, <1>3 DEF Publish

LEMMA VerifyWorks ==
    ASSUME TypeOK, NEW p \in Processes, Verify(p)
    PROVE  Worked(p)
  <1>1. job[p] \in Jobs /\ tree \in Tree /\ job \in [Processes -> Jobs]
    BY DEF TypeOK
  <1> DEFINE kind == IF tree = job[p].source THEN "done" ELSE "failed"
  <1>2. kind \in {"done", "failed"} /\ End(p, kind)
    BY DEF Verify
  <1>3. job' \in [Processes -> Jobs] /\ job'[p].kind = kind
        /\ \A q \in Processes : q # p => job'[q] = job[q]
    <2> HIDE DEF kind
    <2> QED
      BY <1>1, <1>2, EndKeepsJobs
  <1> QED
    BY <1>1, <1>3 DEF Verify, Worked, files

\* One step of a copy: what it writes is a directory of a tree.
LEMMA ReplacingWorks ==
    ASSUME TypeOK, NEW p \in Processes, Remove(p) \/ Skip(p) \/ Create(p) \/ Complete(p)
    PROVE  Worked(p)
  <1>1. job[p] \in Jobs /\ tree \in Tree /\ job \in [Processes -> Jobs]
    BY DEF TypeOK
  <1>2. /\ job[p].kind \in {"deploy", "restore"} /\ ~Finished(p)
        /\ UNCHANGED <<snapshots, lock, phase, plan, reports, mishaps>>
    BY DEF Remove, Skip, Create, Complete, Replacing
  <1>3. Current(p) \in Dirs
    BY <1>1, <1>2, CurrentIsDir
  <1>4. job[p].next \in Nat \ {0} /\ job[p].next + 1 \in Nat \ {0}
    BY <1>1 DEF Jobs
  <1>5. PICK step \in {"remove", "create", "complete"}, next \in Nat \ {0} :
           job' = [job EXCEPT ![p] = [job[p] EXCEPT !.step = step, !.next = next]]
    <2>1. CASE Remove(p)
      <3>1. job' = [job EXCEPT ![p] = [job[p] EXCEPT !.step = "create",
                                                     !.next = job[p].next]]
        BY <1>1, <2>1 DEF Remove, Jobs
      <3> QED
        BY <1>4, <3>1
    <2>2. CASE Skip(p) \/ Complete(p)
      <3>1. job' = [job EXCEPT ![p] = [job[p] EXCEPT !.step = "remove",
                                                     !.next = job[p].next + 1]]
        BY <1>1, <2>2 DEF Skip, Complete, Jobs
      <3> QED
        BY <1>4, <3>1
    <2>3. CASE Create(p)
      <3>1. job' = [job EXCEPT ![p] = [job[p] EXCEPT !.step = "complete",
                                                     !.next = job[p].next]]
        BY <1>1, <2>3 DEF Create, Jobs
      <3> QED
        BY <1>4, <3>1
    <2> QED
      BY <2>1, <2>2, <2>3
  <1>6. /\ job' \in [Processes -> Jobs] /\ job'[p].kind = job[p].kind
        /\ \A q \in Processes : q # p => job'[q] = job[q]
    <2> DEFINE after == [job[p] EXCEPT !.step = step, !.next = next]
    <2>1. after \in Jobs /\ after.kind = job[p].kind
      <3> HIDE DEF Tree
      <3> QED
        BY <1>1 DEF Jobs
    <2>2. job' = [job EXCEPT ![p] = after]
      BY <1>5
    <2> HIDE DEF after
    <2> QED
      BY <1>1, <2>1, <2>2
  <1>7. tree' \in Tree
    <2>1. job[p].source[Current(p)] \in Content
      BY <1>1, <1>3 DEF Jobs, Tree
    <2>2. \A c \in Content : [tree EXCEPT ![Current(p)] = c] \in Tree
      BY <1>1, <1>3, WriteKeepsTree
    <2>3. "absent" \in Content /\ "torn" \in Content
      BY DEF Content
    <2> QED
      BY <1>1, <2>1, <2>2, <2>3 DEF Remove, Skip, Create, Complete
  <1> QED
    BY <1>2, <1>6, <1>7 DEF Worked

LEMMA FailWorks ==
    ASSUME TypeOK, NEW p \in Processes, Fail(p)
    PROVE  Worked(p)
  <1>1. job[p] \in Jobs /\ tree \in Tree /\ job \in [Processes -> Jobs]
    BY DEF TypeOK
  <1>2. /\ job' \in [Processes -> Jobs] /\ job'[p].kind = "failed"
        /\ \A q \in Processes : q # p => job'[q] = job[q]
    BY <1>1, EndKeepsJobs DEF Fail
  <1>3. tree' \in Tree /\ (tree' # tree => job[p].kind \in {"deploy", "restore"})
    <2>1. CASE UNCHANGED tree
      BY <1>1, <2>1
    <2>2. CASE /\ job[p].kind # "backup" /\ ~Finished(p)
               /\ tree' = [tree EXCEPT ![Current(p)] = IF @ = "absent" THEN @ ELSE "torn"]
      <3>1. Current(p) \in Dirs
        BY <1>1, <2>2, CurrentIsDir
      <3>2. tree[Current(p)] \in Content /\ "torn" \in Content
        BY <1>1, <3>1 DEF Tree, Content
      <3>3. \A c \in Content : [tree EXCEPT ![Current(p)] = c] \in Tree
        BY <1>1, <3>1, WriteKeepsTree
      <3>4. tree' \in Tree
        BY <2>2, <3>2, <3>3
      <3> QED
        BY <2>2, <3>4 DEF Fail, Busy
    <2> QED
      BY <2>1, <2>2 DEF Fail
  <1> QED
    BY <1>2, <1>3 DEF Fail, Busy, Worked

LEMMA WorkWorks ==
    ASSUME TypeOK, NEW p \in Processes, Work(p)
    PROVE  Worked(p)
  BY BackUpWorks, PublishWorks, VerifyWorks, ReplacingWorks, FailWorks DEF Work

-----------------------------------------------------------------------------
(***************************************************************************)
(* Every step keeps the ranges.                                            *)
(***************************************************************************)
LEMMA WorkKeepsType ==
    ASSUME TypeOK, NEW p \in Processes, Work(p)
    PROVE  TypeOK'
  <1>1. Worked(p)
    BY WorkWorks
  <1>2. snapshots' \in Seq(Tree)
    BY <1>1 DEF Worked, TypeOK
  <1> QED
    BY <1>1, <1>2 DEF Worked, TypeOK

LEMMA LeaveKeepsType ==
    ASSUME TypeOK, NEW u \in Updaters, NEW outcome, Leave(u, outcome)
    PROVE  TypeOK'
  <1>1. u \in Processes
    BY DEF Processes
  <1>2. plan' \in [Updaters -> Plans] /\ job' \in [Processes -> Jobs]
    BY <1>1, NoPlanIsPlan, NoJobIsJob DEF TypeOK, Leave
  <1>3. phase' \in [Updaters -> Phases]
    BY DEF TypeOK, Leave, Phases
  <1>4. \A v \in Updaters : phase'[v] = "deploying" => plan'[v].snapshot \in Tree
    <2> SUFFICES ASSUME NEW v \in Updaters, phase'[v] = "deploying"
                 PROVE  plan'[v].snapshot \in Tree
      OBVIOUS
    <2>1. v # u
      BY DEF TypeOK, Leave
    <2>2. phase'[v] = phase[v] /\ plan'[v] = plan[v]
      BY <2>1 DEF TypeOK, Leave
    <2> QED
      BY <2>2 DEF TypeOK
  <1>5. /\ lock' \subseteq Updaters /\ reports' \subseteq {"success", "unrecovered"}
        /\ UNCHANGED <<tree, snapshots, mishaps>>
    BY DEF TypeOK, Leave, Report, files
  <1> QED
    BY <1>2, <1>3, <1>4, <1>5 DEF TypeOK

\* An update goes on: one phase and one plan change.
LEMMA GoKeepsType ==
    ASSUME TypeOK, NEW u \in Updaters, NEW there \in Phases, Go(u, there),
           NEW next \in Plans, plan' = [plan EXCEPT ![u] = next],
           there = "deploying" => next.snapshot \in Tree,
           job' \in [Processes -> Jobs], lock' \subseteq Updaters,
           UNCHANGED <<tree, snapshots, reports, mishaps>>
    PROVE  TypeOK'
  <1>1. phase' \in [Updaters -> Phases] /\ plan' \in [Updaters -> Plans]
    BY DEF TypeOK, Go
  <1>2. \A v \in Updaters : phase'[v] = "deploying" => plan'[v].snapshot \in Tree
    BY DEF TypeOK, Go
  <1> QED
    BY <1>1, <1>2 DEF TypeOK

LEMMA UpdateKeepsType ==
    ASSUME TypeOK, NEW u \in Updaters, Update(u)
    PROVE  TypeOK'
  <1>1. /\ u \in Processes /\ job \in [Processes -> Jobs] /\ job[u] \in Jobs
        /\ plan \in [Updaters -> Plans] /\ plan[u] \in Plans /\ plan = [plan EXCEPT ![u] = plan[u]]
        /\ tree \in Tree /\ NoTree \in Tree /\ job[u].source \in Tree
    BY NoTreeIsTree DEF TypeOK, Processes, Jobs
  <1>2. /\ plan[u].original \in Tree /\ plan[u].expected \in Tree
    BY <1>1 DEF Plans
  <1>3. CASE Start(u)
    <2>1. CASE lock = {} /\ lock' = {u} /\ Go(u, "gates") /\ UNCHANGED reports
      <3>1. plan' = [plan EXCEPT ![u] = plan[u]] /\ "gates" \in Phases
        BY <1>1, <1>3 DEF Start, Phases
      <3>2. lock' \subseteq Updaters /\ job' \in [Processes -> Jobs]
            /\ UNCHANGED <<tree, snapshots, reports, mishaps>>
        BY <1>1, <1>3, <2>1 DEF Start, files
      <3> QED
        BY <1>1, <2>1, <3>1, <3>2, GoKeepsType
    <2>2. CASE lock # {} /\ Report("blocked") /\ UNCHANGED <<lock, phase>>
      BY <1>3, <2>2 DEF Start, files, Report, TypeOK
    <2> QED
      BY <1>3, <2>1, <2>2 DEF Start
  <1>4. CASE Inspect(u)
    <2> DEFINE next == [plan[u] EXCEPT !.original = tree]
    <2>1. next \in Plans /\ "staging" \in Phases
      <3> HIDE DEF Tree
      <3> QED
        BY <1>1 DEF Plans, Phases
    <2>2. plan' = [plan EXCEPT ![u] = next]
      BY <1>4 DEF Inspect
    <2>3. /\ Go(u, "staging") /\ job' \in [Processes -> Jobs] /\ lock' \subseteq Updaters
          /\ UNCHANGED <<tree, snapshots, reports, mishaps>>
      BY <1>4 DEF Inspect, files, TypeOK
    <2> HIDE DEF next
    <2> QED
      BY <2>1, <2>2, <2>3, GoKeepsType
  <1>5. CASE Prepare(u)
    <2> DEFINE next == [plan[u] EXCEPT !.expected = Layout(tree)]
    <2>1. next \in Plans /\ "prepared" \in Phases
      <3>1. Layout(tree) \in Tree
        BY <1>1, LayoutIsTree
      <3> HIDE DEF Tree, Layout
      <3> QED
        BY <1>1, <3>1 DEF Plans, Phases
    <2>2. plan' = [plan EXCEPT ![u] = next]
      BY <1>5 DEF Prepare
    <2>3. /\ Go(u, "prepared") /\ job' \in [Processes -> Jobs] /\ lock' \subseteq Updaters
          /\ UNCHANGED <<tree, snapshots, reports, mishaps>>
      BY <1>5 DEF Prepare, files, TypeOK
    <2> HIDE DEF next
    <2> QED
      BY <2>1, <2>2, <2>3, GoKeepsType
  <1>6. CASE RequireBackup(u)
    <2>1. job' \in [Processes -> Jobs]
      BY <1>1, <1>6, BeginKeepsJobs DEF RequireBackup
    <2>2. /\ Go(u, "backing up") /\ plan' = [plan EXCEPT ![u] = plan[u]]
          /\ lock' \subseteq Updaters /\ UNCHANGED <<tree, snapshots, reports, mishaps>>
          /\ "backing up" \in Phases
      BY <1>1, <1>6 DEF RequireBackup, files, TypeOK, Phases
    <2> QED
      BY <1>1, <2>1, <2>2, GoKeepsType
  <1>7. CASE Block(u) \/ Succeed(u) \/ Restored(u)
    BY <1>7, LeaveKeepsType DEF Block, Succeed, Restored
  <1>8. CASE Deploy(u)
    <2>1. job' \in [Processes -> Jobs]
      BY <1>1, <1>2, <1>8, BeginKeepsJobs DEF Deploy
    <2> DEFINE next == [plan[u] EXCEPT !.snapshot = job[u].source]
    <2>2. next \in Plans /\ next.snapshot \in Tree /\ "deploying" \in Phases
      <3> HIDE DEF Tree
      <3> QED
        BY <1>1 DEF Plans, Phases
    <2>3. plan' = [plan EXCEPT ![u] = next]
      BY <1>8 DEF Deploy
    <2>4. /\ Go(u, "deploying") /\ lock' \subseteq Updaters
          /\ UNCHANGED <<tree, snapshots, reports, mishaps>>
      BY <1>8 DEF Deploy, files, TypeOK
    <2> HIDE DEF next
    <2> QED
      BY <2>1, <2>2, <2>3, <2>4, GoKeepsType
  <1>9. CASE RollBack(u)
    <2>1. plan[u].snapshot \in Tree
      BY <1>9 DEF RollBack, At, TypeOK
    <2>2. job' \in [Processes -> Jobs]
      BY <1>1, <1>9, <2>1, BeginKeepsJobs DEF RollBack
    <2>3. /\ Go(u, "restoring") /\ plan' = [plan EXCEPT ![u] = plan[u]]
          /\ lock' \subseteq Updaters /\ UNCHANGED <<tree, snapshots, reports, mishaps>>
          /\ "restoring" \in Phases
      BY <1>1, <1>9 DEF RollBack, files, TypeOK, Phases
    <2> QED
      BY <1>1, <2>1, <2>2, <2>3, GoKeepsType
  <1> QED
    BY <1>3, <1>4, <1>5, <1>6, <1>7, <1>8, <1>9 DEF Update

\* Kills, power losses, and what operators begin and end.
LEMMA MishapsKeepType ==
    ASSUME TypeOK,
           \/ \E u \in Updaters : Kill(u) \/ Orphan(u)
           \/ \E o \in Operators : Operate(o) \/ Conclude(o)
           \/ PowerLoss
    PROVE  TypeOK'
  <1>1. CASE \E u \in Updaters : Kill(u)
    <2>1. PICK u \in Updaters : Kill(u)
      BY <1>1
    <2>2. plan' \in [Updaters -> Plans] /\ phase' \in [Updaters -> Phases]
      BY <2>1, NoPlanIsPlan DEF TypeOK, Kill, Phases
    <2>3. job' \in [Processes -> Jobs]
      BY <2>1, NoJobIsJob DEF TypeOK, Kill, Processes
    <2>4. \A v \in Updaters : phase'[v] = "deploying" => plan'[v].snapshot \in Tree
      BY <2>1 DEF TypeOK, Kill
    <2> QED
      BY <2>1, <2>2, <2>3, <2>4 DEF TypeOK, Kill, files
  <1>2. CASE \E p \in Processes : job' = [job EXCEPT ![p] = NoJob]
               /\ UNCHANGED <<files, lock, phase, plan, reports, mishaps>>
    BY <1>2, NoJobIsJob DEF TypeOK, files
  <1>3. CASE \E o \in Operators : Operate(o)
    <2>1. PICK o \in Operators : Operate(o)
      BY <1>3
    <2>2. o \in Processes /\ tree \in Tree /\ NoTree \in Tree
      BY NoTreeIsTree DEF Processes, TypeOK
    <2>3. job' \in [Processes -> Jobs]
      <3>1. CASE Begin(o, "backup", NoTree, tree)
        BY <2>2, <3>1, BeginKeepsJobs DEF TypeOK
      <3>2. CASE \E n \in DOMAIN snapshots : Begin(o, "restore", snapshots[n], NoTree)
        <4>1. PICK n \in DOMAIN snapshots : Begin(o, "restore", snapshots[n], NoTree)
          BY <3>2
        <4>2. snapshots[n] \in Tree
          BY DEF TypeOK
        <4> QED
          BY <2>2, <4>1, <4>2, BeginKeepsJobs DEF TypeOK
      <3> QED
        BY <2>1, <3>1, <3>2 DEF Operate
    <2>4. mishaps' \in Nat /\ UNCHANGED <<files, lock, phase, plan, reports>>
      BY <2>1 DEF Operate, TypeOK
    <2> QED
      BY <2>3, <2>4 DEF TypeOK, files
  <1>4. CASE PowerLoss
    <2>1. plan' \in [Updaters -> Plans] /\ job' \in [Processes -> Jobs]
      BY <1>4, NoPlanIsPlan, NoJobIsJob DEF PowerLoss
    <2>2. phase' \in [Updaters -> Phases]
          /\ \A v \in Updaters : phase'[v] # "deploying"
      BY <1>4 DEF PowerLoss, Phases
    <2>3. UNCHANGED <<tree, snapshots, reports>> /\ lock' \subseteq Updaters
          /\ mishaps' \in Nat
      BY <1>4 DEF TypeOK, PowerLoss, files
    <2> QED
      BY <2>1, <2>2, <2>3 DEF TypeOK
  <1>5. CASE \E u \in Updaters : Orphan(u)
    <2>1. PICK u \in Updaters : Orphan(u)
      BY <1>5
    <2> QED
      BY <1>2, <2>1 DEF Orphan, Processes
  <1>6. CASE \E o \in Operators : Conclude(o)
    <2>1. PICK o \in Operators : Conclude(o)
      BY <1>6
    <2> QED
      BY <1>2, <2>1 DEF Conclude, Processes
  <1> QED
    BY <1>1, <1>3, <1>4, <1>5, <1>6

\* Every variable stays in its range.
THEOREM TypeCorrect == Spec => []TypeOK
  <1>1. Init => TypeOK
    <2> SUFFICES ASSUME Init PROVE TypeOK
      OBVIOUS
    <2>1. tree \in Tree /\ snapshots \in Seq(Tree)
      BY DEF Init, Tree, Content
    <2> QED
      BY <2>1, NoPlanIsPlan, NoJobIsJob DEF Init, TypeOK, Phases
  <1>2. TypeOK /\ [Next]_vars => TypeOK'
    <2>1. TypeOK /\ UNCHANGED vars => TypeOK'
      BY DEF TypeOK, vars
    <2> QED
      BY <2>1, WorkKeepsType, UpdateKeepsType, MishapsKeepType DEF Next
  <1> QED
    BY <1>1, <1>2, PTL DEF Spec

-----------------------------------------------------------------------------
(***************************************************************************)
(* A way back.  Nothing is written to the installation before there is a   *)
(* snapshot, and the first one is taken of an installation nothing was     *)
(* written to, hence of a whole one; snapshots are only ever added.        *)
(***************************************************************************)
Secured ==
    IF snapshots = <<>> THEN Whole(tree)
    ELSE \E n \in DOMAIN snapshots : Whole(snapshots[n])

\* Whoever writes, or is about to, has a snapshot behind it.
SnapshotFirst ==
    /\ \A p \in Processes : job[p].kind \in {"deploy", "restore"} => snapshots # <<>>
    /\ \A u \in Updaters :
          \/ phase[u] \in {"deploying", "restoring"}
          \/ phase[u] = "backing up" /\ job[u].kind = "done"
          => snapshots # <<>>

WayInv == TypeOK /\ Secured /\ SnapshotFirst

LEMMA WorkKeepsWay ==
    ASSUME WayInv, NEW p \in Processes, Work(p)
    PROVE  Secured' /\ SnapshotFirst'
  <1>1. Worked(p)
    BY WorkWorks DEF WayInv
  <1>2. snapshots \in Seq(Tree) /\ tree \in Tree
    BY DEF WayInv, TypeOK
  <1>3. CASE snapshots' = snapshots
    <2>1. snapshots = <<>> => tree' = tree
      BY <1>1 DEF Worked, WayInv, SnapshotFirst
    <2>2. Secured'
      BY <1>3, <2>1 DEF WayInv, Secured, Whole
    <2>3. job'[p].kind = "done" => snapshots # <<>>
      <3>1. Append(snapshots, tree) # snapshots
        <4>1. Len(Append(snapshots, tree)) = Len(snapshots) + 1 /\ Len(snapshots) \in Nat
          BY <1>2
        <4> QED
          BY <4>1
      <3> QED
        BY <1>1, <1>3, <3>1 DEF Worked, WayInv, SnapshotFirst
    <2>4. \A q \in Processes : job'[q].kind \in {"deploy", "restore"} => snapshots # <<>>
      BY <1>1 DEF Worked, WayInv, SnapshotFirst
    <2>5. \A u \in Updaters : /\ phase'[u] = phase[u] /\ u \in Processes
                              /\ u # p => job'[u] = job[u]
      BY <1>1 DEF Worked, Processes
    <2> QED
      BY <1>3, <2>2, <2>3, <2>4, <2>5 DEF WayInv, SnapshotFirst
  <1>4. CASE snapshots' = Append(snapshots, tree)
    <2>1. snapshots' # <<>> /\ DOMAIN snapshots' = 1..(Len(snapshots) + 1)
          /\ snapshots'[Len(snapshots) + 1] = tree
          /\ \A n \in DOMAIN snapshots : n \in DOMAIN snapshots' /\ snapshots'[n] = snapshots[n]
      BY <1>2, <1>4
    <2>2. Len(snapshots) + 1 \in DOMAIN snapshots'
      BY <1>2, <2>1
    <2>3. \E n \in DOMAIN snapshots' : Whole(snapshots'[n])
      BY <2>1, <2>2 DEF WayInv, Secured
    <2> QED
      BY <2>1, <2>3 DEF Secured, SnapshotFirst
  <1> QED
    BY <1>1, <1>3, <1>4 DEF Worked

\* The steps that write nothing keep the files.
LEMMA QuietSecured ==
    ASSUME Secured, UNCHANGED files
    PROVE  Secured'
  BY DEF Secured, Whole, files

LEMMA UpdateKeepsWay ==
    ASSUME WayInv, NEW u \in Updaters, Update(u)
    PROVE  Secured' /\ SnapshotFirst'
  <1>1. UNCHANGED files
    BY DEF Update, Start, Inspect, Prepare, RequireBackup, Block, Deploy, Succeed,
           RollBack, Restored, Leave
  <1>2. /\ u \in Processes /\ job \in [Processes -> Jobs] /\ phase \in [Updaters -> Phases]
        /\ job[u].source \in Tree /\ NoTree \in Tree /\ tree \in Tree
        /\ plan[u].expected \in Tree
    BY NoTreeIsTree DEF WayInv, TypeOK, Processes, Jobs, Plans
  <1>3. CASE Start(u) \/ Inspect(u) \/ Prepare(u)
    <2>1. UNCHANGED job /\ \A v \in Updaters : phase'[v] = phase[v]
                               \/ phase'[v] \in {"gates", "staging", "prepared"}
      BY <1>2, <1>3 DEF Start, Inspect, Prepare, Go
    <2> QED
      BY <1>1, <2>1, QuietSecured DEF WayInv, SnapshotFirst, files
  <1>4. CASE RequireBackup(u)
    <2>1. /\ job'[u].kind = "backup"
          /\ \A q \in Processes : q # u => job'[q] = job[q]
      BY <1>2, <1>4, BeginKeepsJobs DEF RequireBackup
    <2>2. /\ phase'[u] = "backing up"
          /\ \A v \in Updaters : v # u => phase'[v] = phase[v] /\ job'[v] = job[v]
      BY <1>2, <1>4, <2>1 DEF RequireBackup, Go, Processes
    <2> QED
      BY <1>1, <2>1, <2>2, QuietSecured DEF WayInv, SnapshotFirst, files
  <1>5. CASE Deploy(u) \/ RollBack(u)
    <2>1. snapshots # <<>>
      BY <1>5 DEF Deploy, RollBack, At, WayInv, SnapshotFirst
    <2> QED
      BY <1>1, <2>1, QuietSecured DEF WayInv, SnapshotFirst, files
  <1>6. CASE Block(u) \/ Succeed(u) \/ Restored(u)
    <2>1. /\ job'[u] = NoJob /\ phase'[u] = "idle"
          /\ \A q \in Processes : q # u => job'[q] = job[q]
          /\ \A v \in Updaters : v # u => phase'[v] = phase[v]
      BY <1>2, <1>6 DEF Block, Succeed, Restored, Leave
    <2>2. \A v \in Updaters : v \in Processes
      BY DEF Processes
    <2> QED
      BY <1>1, <2>1, <2>2, QuietSecured, NoJobIsIdle DEF WayInv, SnapshotFirst, files
  <1> QED
    BY <1>3, <1>4, <1>5, <1>6 DEF Update

LEMMA MishapsKeepWay ==
    ASSUME WayInv,
           \/ \E u \in Updaters : Kill(u) \/ Orphan(u)
           \/ \E o \in Operators : Operate(o) \/ Conclude(o)
           \/ PowerLoss
    PROVE  Secured' /\ SnapshotFirst'
  <1>1. UNCHANGED files
    BY DEF Kill, Orphan, Operate, Conclude, PowerLoss
  <1>2. /\ job \in [Processes -> Jobs] /\ phase \in [Updaters -> Phases]
        /\ \A v \in Updaters : v \in Processes
        /\ \A o \in Operators : o \in Processes
    BY DEF WayInv, TypeOK, Processes
  <1>3. CASE /\ \A p \in Processes : job'[p] \in {job[p], NoJob}
             /\ \A u \in Updaters : phase'[u] \in {phase[u], "idle"}
    BY <1>1, <1>2, <1>3, QuietSecured, NoJobIsIdle DEF WayInv, SnapshotFirst, files
  <1>4. CASE \E u \in Updaters : Kill(u) \/ Orphan(u)
    <2>1. PICK u \in Updaters : Kill(u) \/ Orphan(u)
      BY <1>4
    <2>2. \A p \in Processes : job'[p] \in {job[p], NoJob}
      BY <1>2, <2>1 DEF Kill, Orphan
    <2>3. \A v \in Updaters : phase'[v] \in {phase[v], "idle"}
      BY <1>2, <2>1 DEF Kill, Orphan
    <2> QED
      BY <1>3, <2>2, <2>3
  <1>5. CASE \E o \in Operators : Conclude(o)
    BY <1>2, <1>3, <1>5 DEF Conclude
  <1>6. CASE PowerLoss
    BY <1>2, <1>3, <1>6 DEF PowerLoss
  <1>7. CASE \E o \in Operators : Operate(o)
    <2>1. PICK o \in Operators : Operate(o)
      BY <1>7
    <2>2. UNCHANGED <<files, phase>> /\ o \notin Updaters
      BY <2>1, UpdaterAssumption DEF Operate
    <2>3. NoTree \in Tree /\ tree \in Tree /\ snapshots \in Seq(Tree)
      BY NoTreeIsTree DEF WayInv, TypeOK
    <2>4. /\ \A q \in Processes : q # o => job'[q] = job[q]
          /\ job'[o].kind = "backup" \/ snapshots # <<>>
      <3>1. CASE Begin(o, "backup", NoTree, tree)
        BY <1>2, <2>3, <3>1, BeginKeepsJobs
      <3>2. CASE \E n \in DOMAIN snapshots : Begin(o, "restore", snapshots[n], NoTree)
        <4>1. PICK n \in DOMAIN snapshots : Begin(o, "restore", snapshots[n], NoTree)
          BY <3>2
        <4>2. snapshots[n] \in Tree /\ snapshots # <<>>
          BY <2>3
        <4> QED
          BY <1>2, <2>3, <4>1, <4>2, BeginKeepsJobs
      <3> QED
        BY <2>1, <3>1, <3>2 DEF Operate
    <2> QED
      BY <1>1, <1>2, <2>2, <2>4, QuietSecured DEF WayInv, SnapshotFirst, files
  <1> QED
    BY <1>4, <1>5, <1>6, <1>7

\* At every instant, whatever was killed or failed before, an installation that is
\* not whole can be restored from a snapshot that is.
THEOREM WayBackCorrect == Spec => []WayBack
  <1>1. Init => Secured /\ SnapshotFirst
    <2> SUFFICES ASSUME Init PROVE Secured /\ SnapshotFirst
      OBVIOUS
    <2>1. Whole(tree)
      BY UpdaterAssumption DEF Init, Whole
    <2> QED
      BY <2>1 DEF Init, Secured, SnapshotFirst, NoJob
  <1>2. TypeOK /\ Secured /\ SnapshotFirst /\ [Next]_vars => Secured' /\ SnapshotFirst'
    <2>1. UNCHANGED vars /\ Secured /\ SnapshotFirst => Secured' /\ SnapshotFirst'
      BY DEF vars, Secured, SnapshotFirst, Whole, files
    <2> QED
      BY <2>1, WorkKeepsWay, UpdateKeepsWay, MishapsKeepWay DEF Next, WayInv
  <1>3. Secured => WayBack
    BY DEF Secured, WayBack
  <1> QED
    BY <1>1, <1>2, <1>3, TypeCorrect, PTL DEF Spec

-----------------------------------------------------------------------------
(***************************************************************************)
(* Updaters alone.  Until somebody is killed or the helper is run by hand, *)
(* the lock leaves one updater at work, and only in its last two phases    *)
(* does it write.  As long as no restoration failed, the installation is   *)
(* sound outside those phases, the layout of an update is a whole release, *)
(* and what a running deployment replaced was sound.                       *)
(***************************************************************************)
Fresh(t) == \A d \in Dirs \ Kept : t[d] = "new"

\* What an installation has to be: whole, and the release once one succeeded.
Sound(t) == Whole(t) /\ ("success" \in reports => Fresh(t))

\* The lock and the jobs follow the phases.
OneAtWork ==
    /\ \A o \in Operators : job[o].kind = "none"
    /\ \A u \in Updaters : phase[u] # "idle" => u \in lock
    /\ \A u, v \in lock : u = v
    /\ \A u \in Updaters :
          CASE phase[u] = "backing up" -> job[u].kind \in {"backup", "done", "failed"}
            [] phase[u] = "deploying" -> job[u].kind \in {"deploy", "done", "failed"}
            [] phase[u] = "restoring" -> job[u].kind \in {"restore", "done", "failed"}
            [] OTHER -> job[u].kind = "none"

Writing(u) == phase[u] \in {"deploying", "restoring"}

SoundUnlessReported ==
    "unrecovered" \notin reports =>
        /\ (\A u \in Updaters : ~Writing(u)) => Sound(tree)
        /\ \A u \in Updaters :
              /\ phase[u] \in {"prepared", "backing up", "deploying"} =>
                    Whole(plan[u].expected) /\ Fresh(plan[u].expected)
              /\ Writing(u) => Sound(plan[u].original)

AloneInv == UpdatersAlone => OneAtWork /\ SoundUnlessReported

\* The layout of a whole installation is a whole release.
LEMMA LayoutIsRelease ==
    ASSUME NEW t, Whole(t)
    PROVE  Whole(Layout(t)) /\ Fresh(Layout(t))
  <1>1. Kept \subseteq Dirs
    BY UpdaterAssumption
  <1>2. \A d \in Dirs : Layout(t)[d] = IF d \in Kept THEN t[d] ELSE "new"
    BY DEF Layout
  <1>3. \A d \in Kept : Layout(t)[d] = "old"
    BY <1>1, <1>2 DEF Whole
  <1>4. Fresh(Layout(t))
    BY <1>2 DEF Fresh
  <1> QED
    BY <1>3, <1>4 DEF Whole, Fresh

LEMMA WorkKeepsAlone ==
    ASSUME TypeOK, AloneInv, NEW p \in Processes, Work(p)
    PROVE  AloneInv'
  <1> SUFFICES ASSUME mishaps' = 0
               PROVE  OneAtWork' /\ SoundUnlessReported'
    BY DEF AloneInv, UpdatersAlone
  <1>1. Worked(p)
    BY WorkWorks
  <1>2. OneAtWork /\ SoundUnlessReported
    BY <1>1 DEF Worked, AloneInv, UpdatersAlone
  <1>3. p \in Updaters
    BY <1>1, <1>2 DEF Worked, OneAtWork, Processes
  <1>4. OneAtWork'
    <2>1. \A o \in Operators : o # p /\ o \in Processes
      BY <1>3, UpdaterAssumption DEF Processes
    <2>2. \A u \in Updaters : u # p => job'[u] = job[u]
      BY <1>1 DEF Worked, Processes
    <2>3. CASE phase[p] \in {"backing up", "deploying", "restoring"}
      <3>1. CASE phase[p] = "backing up"
        <4>1. job'[p].kind \in {"backup", "done", "failed"}
          BY <1>1, <1>2, <1>3, <3>1 DEF Worked, OneAtWork
        <4> QED
          BY <1>1, <1>2, <2>1, <2>2, <3>1, <4>1 DEF Worked, OneAtWork
      <3>2. CASE phase[p] = "deploying"
        <4>1. job'[p].kind \in {"deploy", "done", "failed"}
          BY <1>1, <1>2, <1>3, <3>2 DEF Worked, OneAtWork
        <4> QED
          BY <1>1, <1>2, <2>1, <2>2, <3>2, <4>1 DEF Worked, OneAtWork
      <3>3. CASE phase[p] = "restoring"
        <4>1. job'[p].kind \in {"restore", "done", "failed"}
          BY <1>1, <1>2, <1>3, <3>3 DEF Worked, OneAtWork
        <4> QED
          BY <1>1, <1>2, <2>1, <2>2, <3>3, <4>1 DEF Worked, OneAtWork
      <3> QED
        BY <2>3, <3>1, <3>2, <3>3
    <2>4. CASE phase[p] \notin {"backing up", "deploying", "restoring"}
      <3>1. job[p].kind = "none"
        BY <1>2, <1>3, <2>4 DEF OneAtWork
      <3> QED
        BY <1>1, <3>1 DEF Worked
    <2> QED
      BY <2>3, <2>4
  <1>5. tree' # tree => Writing(p)
    BY <1>1, <1>2, <1>3 DEF Worked, OneAtWork, Writing
  <1>6. SoundUnlessReported'
    <2>1. UNCHANGED <<phase, plan, reports>>
      BY <1>1 DEF Worked
    <2>2. \A u \in Updaters : Writing(u)' <=> Writing(u)
      BY <2>1 DEF Writing
    <2>3. (\A u \in Updaters : ~Writing(u)) => tree' = tree
      BY <1>3, <1>5
    <2>4. "unrecovered" \notin reports /\ (\A u \in Updaters : ~Writing(u)) => Sound(tree)'
      BY <1>2, <2>1, <2>3 DEF SoundUnlessReported, Sound, Whole, Fresh
    <2>5. "unrecovered" \notin reports =>
             \A u \in Updaters :
                /\ phase'[u] \in {"prepared", "backing up", "deploying"} =>
                      Whole(plan'[u].expected) /\ Fresh(plan'[u].expected)
                /\ Writing(u) => Sound(plan[u].original)'
      <3> SUFFICES ASSUME "unrecovered" \notin reports, NEW u \in Updaters
                   PROVE  /\ phase'[u] \in {"prepared", "backing up", "deploying"} =>
                                Whole(plan'[u].expected) /\ Fresh(plan'[u].expected)
                          /\ Writing(u) => Sound(plan[u].original)'
        OBVIOUS
      <3>1. /\ phase[u] \in {"prepared", "backing up", "deploying"} =>
                  Whole(plan[u].expected) /\ Fresh(plan[u].expected)
            /\ Writing(u) => Sound(plan[u].original)
        BY <1>2 DEF SoundUnlessReported
      <3>2. Sound(plan[u].original) => Sound(plan[u].original)'
        BY <2>1 DEF Sound, Whole, Fresh
      <3> QED
        BY <2>1, <3>1, <3>2
    <2> QED
      BY <2>1, <2>2, <2>4, <2>5 DEF SoundUnlessReported
  <1> QED
    BY <1>4, <1>6

\* The steps that count a mishap need no more; an updater that nobody killed and
\* an operator that never began have no job to be forgotten.
LEMMA MishapsKeepAlone ==
    ASSUME TypeOK, AloneInv,
           \/ \E u \in Updaters : Kill(u) \/ Orphan(u)
           \/ \E o \in Operators : Operate(o) \/ Conclude(o)
           \/ PowerLoss
    PROVE  AloneInv'
  <1>1. CASE mishaps' = mishaps + 1
    BY <1>1 DEF TypeOK, AloneInv, UpdatersAlone
  <1>2. CASE mishaps' = mishaps
    <2>1. CASE mishaps # 0
      BY <1>2, <2>1 DEF AloneInv, UpdatersAlone
    <2>2. CASE mishaps = 0
      <3>1. OneAtWork /\ mishaps \in Nat
        BY <2>2 DEF AloneInv, UpdatersAlone, TypeOK
      <3>2. \A u \in Updaters : phase[u] = "idle" => job[u].kind = "none"
        BY <3>1 DEF OneAtWork
      <3>3. mishaps' # mishaps + 1
        BY <1>2, <3>1
      <3>4. \A u \in Updaters : ~Kill(u) /\ ~Orphan(u)
        BY <3>2, <3>3 DEF Kill, Orphan, Ended, At
      <3>5. \A o \in Operators : ~Operate(o) /\ ~Conclude(o)
        BY <3>1, <3>3 DEF OneAtWork, Operate, Conclude, Ended
      <3>6. ~PowerLoss
        BY <3>3 DEF PowerLoss
      <3> QED
        BY <3>4, <3>5, <3>6
    <2> QED
      BY <2>1, <2>2
  <1> QED
    BY <1>1, <1>2 DEF Kill, Orphan, Operate, Conclude, PowerLoss

-----------------------------------------------------------------------------
\* While one updater is at work the others are idle.
LEMMA OthersIdle ==
    ASSUME OneAtWork, NEW u \in Updaters, phase[u] # "idle"
    PROVE  \A v \in Updaters : v # u => phase[v] = "idle"
  BY DEF OneAtWork

\* One updater goes on to a job that is of its new phase, and nobody else moves.
LEMMA MovesOn ==
    ASSUME OneAtWork, NEW u \in Updaters, phase[u] # "idle", lock' = lock,
           \A v \in Updaters : v # u => phase'[v] = "idle",
           \A q \in Processes : q # u => job'[q] = job[q],
           \/ phase'[u] = "backing up" /\ job'[u].kind = "backup"
           \/ phase'[u] = "deploying" /\ job'[u].kind = "deploy"
           \/ phase'[u] = "restoring" /\ job'[u].kind = "restore"
    PROVE  OneAtWork'
  <1>1. /\ \A o \in Operators : o \in Processes /\ o # u
        /\ \A v \in Updaters : v \in Processes
    BY UpdaterAssumption DEF Processes
  <1>2. \A v \in Updaters : v # u => phase[v] = "idle"
    BY OthersIdle
  <1>3. \A o \in Operators : job'[o].kind = "none"
    <2>1. \A o \in Operators : job[o].kind = "none"
      BY DEF OneAtWork
    <2> QED
      BY <1>1, <2>1
  <1>4. \A v \in Updaters : phase'[v] # "idle" => v \in lock'
    BY DEF OneAtWork
  <1>5. \A v, w \in lock' : v = w
    BY DEF OneAtWork
  <1>6. ASSUME NEW v \in Updaters, v # u
        PROVE  phase'[v] = "idle" /\ job'[v].kind = "none"
    <2>1. phase[v] = "idle" /\ phase'[v] = "idle" /\ job'[v] = job[v]
      BY <1>1, <1>2, <1>6
    <2>2. job[v].kind = "none"
      BY <2>1 DEF OneAtWork
    <2> QED
      BY <2>1, <2>2
  <1>7. CASE phase'[u] = "backing up" /\ job'[u].kind = "backup"
    BY <1>3, <1>4, <1>5, <1>6, <1>7 DEF OneAtWork
  <1>8. CASE phase'[u] = "deploying" /\ job'[u].kind = "deploy"
    BY <1>3, <1>4, <1>5, <1>6, <1>8 DEF OneAtWork
  <1>9. CASE phase'[u] = "restoring" /\ job'[u].kind = "restore"
    BY <1>3, <1>4, <1>5, <1>6, <1>9 DEF OneAtWork
  <1> QED
    BY <1>7, <1>8, <1>9

\* An updater that leaves before it wrote anything, or with the outcome its
\* comparison calls for, keeps the installation sound or reports that it is not.
LEMMA LeaveKeepsAlone ==
    ASSUME TypeOK, OneAtWork, SoundUnlessReported, NEW u \in Updaters, phase[u] # "idle",
           NEW outcome, Leave(u, outcome),
           "unrecovered" \notin reports' =>
              Whole(tree) /\ ("success" \in reports' => Fresh(tree))
    PROVE  OneAtWork' /\ SoundUnlessReported'
  <1>1. \A v \in Updaters : v # u => phase[v] = "idle"
    BY OthersIdle
  <1>2. /\ \A v \in Updaters : phase'[v] = "idle"
        /\ job' = [job EXCEPT ![u] = NoJob] /\ lock' = lock \ {u} /\ UNCHANGED tree
    BY <1>1 DEF TypeOK, Leave, files
  <1>3. \A q \in Processes : job'[q] = job[q] \/ job'[q].kind = "none"
    BY <1>2, NoJobIsIdle DEF TypeOK
  <1>4. \A v \in Updaters : job'[v].kind = "none" /\ v \in Processes
    <2>1. \A v \in Updaters : v # u => job[v].kind = "none"
      BY <1>1 DEF OneAtWork
    <2>2. \A v \in Updaters : v \in Processes
      BY DEF Processes
    <2> QED
      BY <1>2, <2>1, <2>2, NoJobIsIdle DEF TypeOK
  <1>5. \A o \in Operators : job'[o].kind = "none"
    <2>1. \A o \in Operators : o \in Processes
      BY DEF Processes
    <2> QED
      BY <1>3, <2>1 DEF OneAtWork
  <1>6. OneAtWork'
    BY <1>2, <1>4, <1>5 DEF OneAtWork
  <1>7. SoundUnlessReported'
    BY <1>2 DEF SoundUnlessReported, Sound, Whole, Fresh, Writing
  <1> QED
    BY <1>6, <1>7

LEMMA StartKeepsAlone ==
    ASSUME TypeOK, OneAtWork, SoundUnlessReported, NEW u \in Updaters, Start(u)
    PROVE  OneAtWork' /\ SoundUnlessReported'
  <1>1. UNCHANGED <<tree, plan, job>> /\ phase[u] = "idle"
    BY DEF Start, files, At
  <1>2. CASE lock = {} /\ lock' = {u} /\ Go(u, "gates") /\ UNCHANGED reports
    <2>1. \A v \in Updaters : phase[v] = "idle"
      BY <1>2 DEF OneAtWork
    <2>2. /\ phase'[u] = "gates"
          /\ \A v \in Updaters : v # u => phase'[v] = "idle"
      BY <1>2, <2>1 DEF TypeOK, Go
    <2>3. \A v \in Updaters : job[v].kind = "none"
      BY <2>1 DEF OneAtWork
    <2>4. OneAtWork'
      BY <1>1, <1>2, <2>2, <2>3 DEF OneAtWork
    <2>5. SoundUnlessReported'
      BY <1>1, <1>2, <2>1, <2>2 DEF SoundUnlessReported, Sound, Whole, Fresh, Writing
    <2> QED
      BY <2>4, <2>5
  <1>3. CASE Report("blocked") /\ UNCHANGED <<lock, phase>>
    <2>1. reports' = reports
      BY <1>3 DEF Report
    <2>2. OneAtWork'
      BY <1>1, <1>3 DEF OneAtWork
    <2>3. SoundUnlessReported'
      BY <1>1, <1>3, <2>1 DEF SoundUnlessReported, Sound, Writing
    <2> QED
      BY <2>2, <2>3
  <1> QED
    BY <1>2, <1>3 DEF Start

\* The steps before the backup: nothing is written, nobody works on the files.
LEMMA InspectKeepsAlone ==
    ASSUME TypeOK, OneAtWork, SoundUnlessReported, NEW u \in Updaters,
           Inspect(u) \/ Prepare(u)
    PROVE  OneAtWork' /\ SoundUnlessReported'
  <1>1. /\ phase[u] \in {"gates", "staging"} /\ UNCHANGED <<tree, job, lock, reports>>
    BY DEF Inspect, Prepare, At, files
  <1>2. \A v \in Updaters : v # u => phase[v] = "idle"
    BY <1>1, OthersIdle
  <1>3. /\ phase'[u] \in {"staging", "prepared"}
        /\ phase'[u] = "prepared" => plan'[u].expected = Layout(tree)
        /\ \A v \in Updaters : v # u => phase'[v] = "idle"
    BY <1>2 DEF TypeOK, Inspect, Prepare, Go, Plans
  <1>4. OneAtWork'
    <2>1. u \in lock /\ job[u].kind = "none"
      BY <1>1 DEF OneAtWork
    <2> QED
      BY <1>1, <1>2, <1>3, <2>1 DEF OneAtWork
  <1>5. SoundUnlessReported'
    <2>1. "unrecovered" \notin reports => Sound(tree)
      BY <1>1, <1>2 DEF SoundUnlessReported, Writing
    <2>2. "unrecovered" \notin reports => Whole(Layout(tree)) /\ Fresh(Layout(tree))
      BY <2>1, LayoutIsRelease DEF Sound
    <2>3. Sound(tree) => Sound(tree)'
      BY <1>1 DEF Sound, Whole, Fresh
    <2>4. \A v \in Updaters : ~Writing(v)'
      BY <1>3 DEF Writing
    <2>5. \A v \in Updaters : phase'[v] \in {"prepared", "backing up", "deploying"} => v = u
      BY <1>3
    <2>6. "unrecovered" \notin reports /\ phase'[u] = "prepared" =>
             Whole(plan'[u].expected) /\ Fresh(plan'[u].expected)
      BY <1>3, <2>2
    <2>7. phase'[u] \notin {"backing up", "deploying"}
      BY <1>3
    <2> QED
      BY <1>1, <2>1, <2>3, <2>4, <2>5, <2>6, <2>7 DEF SoundUnlessReported
  <1> QED
    BY <1>4, <1>5

LEMMA RequireBackupKeepsAlone ==
    ASSUME TypeOK, OneAtWork, SoundUnlessReported, NEW u \in Updaters, RequireBackup(u)
    PROVE  OneAtWork' /\ SoundUnlessReported'
  <1>1. /\ phase[u] = "prepared" /\ UNCHANGED <<tree, plan, lock, reports>>
    BY DEF RequireBackup, At, files
  <1>2. \A v \in Updaters : v # u => phase[v] = "idle"
    BY <1>1, OthersIdle
  <1>3. /\ phase'[u] = "backing up"
        /\ \A v \in Updaters : v # u => phase'[v] = "idle"
    BY <1>2 DEF TypeOK, RequireBackup, Go
  <1>4. /\ job'[u].kind = "backup"
        /\ \A q \in Processes : q # u => job'[q] = job[q]
    <2>1. u \in Processes /\ NoTree \in Tree /\ tree \in Tree
      BY NoTreeIsTree DEF TypeOK, Processes
    <2> QED
      BY <2>1, BeginKeepsJobs DEF TypeOK, RequireBackup
  <1>5. OneAtWork'
    BY <1>1, <1>3, <1>4, MovesOn
  <1>6. SoundUnlessReported'
    <2>1. \A v \in Updaters : ~Writing(v) /\ ~Writing(v)'
      BY <1>1, <1>2, <1>3 DEF Writing
    <2>2. \A v \in Updaters : phase'[v] \in {"prepared", "backing up", "deploying"} => v = u
      BY <1>3
    <2>3. Sound(tree) => Sound(tree)'
      BY <1>1 DEF Sound, Whole, Fresh
    <2>4. "unrecovered" \notin reports => Sound(tree)
      BY <2>1 DEF SoundUnlessReported
    <2>5. "unrecovered" \notin reports =>
             Whole(plan[u].expected) /\ Fresh(plan[u].expected)
      BY <1>1 DEF SoundUnlessReported
    <2> QED
      BY <1>1, <2>1, <2>2, <2>3, <2>4, <2>5 DEF SoundUnlessReported
  <1> QED
    BY <1>5, <1>6

\* A deployment begins: what it will replace is sound, as nobody wrote before.
LEMMA DeployKeepsAlone ==
    ASSUME TypeOK, OneAtWork, SoundUnlessReported, NEW u \in Updaters, Deploy(u)
    PROVE  OneAtWork' /\ SoundUnlessReported'
  <1>1. /\ phase[u] = "backing up" /\ tree = plan[u].original
        /\ UNCHANGED <<tree, lock, reports>>
    BY DEF Deploy, At, files
  <1>2. \A v \in Updaters : v # u => phase[v] = "idle"
    BY <1>1, OthersIdle
  <1>3. /\ phase'[u] = "deploying"
        /\ \A v \in Updaters : v # u => phase'[v] = "idle"
    BY <1>2 DEF TypeOK, Deploy, Go
  <1>4. /\ plan'[u].original = plan[u].original
        /\ plan'[u].expected = plan[u].expected
    BY DEF TypeOK, Deploy, Plans
  <1>5. /\ job'[u].kind = "deploy"
        /\ \A q \in Processes : q # u => job'[q] = job[q]
    <2>1. u \in Processes /\ NoTree \in Tree /\ plan[u].expected \in Tree
      BY NoTreeIsTree DEF TypeOK, Processes, Plans
    <2> QED
      BY <2>1, BeginKeepsJobs DEF TypeOK, Deploy
  <1>6. OneAtWork'
    BY <1>1, <1>3, <1>5, MovesOn
  <1>7. SoundUnlessReported'
    <2>1. \A v \in Updaters : ~Writing(v)
      BY <1>1, <1>2 DEF Writing
    <2>2. Writing(u)' /\ \A v \in Updaters : v # u => ~Writing(v)'
      BY <1>3 DEF Writing
    <2>3. \A v \in Updaters : phase'[v] \in {"prepared", "backing up", "deploying"} => v = u
      BY <1>3
    <2>4. "unrecovered" \notin reports => Sound(plan[u].original)
      BY <1>1, <2>1 DEF SoundUnlessReported
    <2>5. Sound(plan[u].original) => Sound(plan[u].original)'
      BY <1>1, <1>4 DEF Sound, Whole, Fresh
    <2>6. "unrecovered" \notin reports =>
             Whole(plan'[u].expected) /\ Fresh(plan'[u].expected)
      BY <1>1, <1>4 DEF SoundUnlessReported
    <2> QED
      BY <1>1, <2>2, <2>3, <2>4, <2>5, <2>6 DEF SoundUnlessReported
  <1> QED
    BY <1>6, <1>7

LEMMA RollBackKeepsAlone ==
    ASSUME TypeOK, OneAtWork, SoundUnlessReported, NEW u \in Updaters, RollBack(u)
    PROVE  OneAtWork' /\ SoundUnlessReported'
  <1>1. phase[u] = "deploying" /\ UNCHANGED <<tree, plan, lock, reports>>
    BY DEF RollBack, At, files
  <1>2. \A v \in Updaters : v # u => phase[v] = "idle"
    BY <1>1, OthersIdle
  <1>3. /\ phase'[u] = "restoring"
        /\ \A v \in Updaters : v # u => phase'[v] = "idle"
    BY <1>2 DEF TypeOK, RollBack, Go
  <1>4. /\ job'[u].kind = "restore"
        /\ \A q \in Processes : q # u => job'[q] = job[q]
    <2>1. u \in Processes /\ NoTree \in Tree /\ plan[u].snapshot \in Tree
      BY <1>1, NoTreeIsTree DEF TypeOK, Processes
    <2> QED
      BY <2>1, BeginKeepsJobs DEF TypeOK, RollBack
  <1>5. OneAtWork'
    BY <1>1, <1>3, <1>4, MovesOn
  <1>6. SoundUnlessReported'
    <2>1. Writing(u)' /\ Writing(u) /\ \A v \in Updaters : v # u => ~Writing(v)'
      BY <1>1, <1>3 DEF Writing
    <2>2. \A v \in Updaters : phase'[v] \notin {"prepared", "backing up", "deploying"}
      BY <1>3
    <2>3. "unrecovered" \notin reports => Sound(plan[u].original)
      BY <2>1 DEF SoundUnlessReported
    <2>4. Sound(plan[u].original) => Sound(plan[u].original)'
      BY <1>1 DEF Sound, Whole, Fresh
    <2> QED
      BY <1>1, <2>1, <2>2, <2>3, <2>4 DEF SoundUnlessReported
  <1> QED
    BY <1>5, <1>6

\* The three ends of an update.
LEMMA EndsKeepAlone ==
    ASSUME TypeOK, OneAtWork, SoundUnlessReported, NEW u \in Updaters,
           Block(u) \/ Succeed(u) \/ Restored(u)
    PROVE  OneAtWork' /\ SoundUnlessReported'
  <1>1. CASE Block(u)
    <2>1. phase[u] \in {"gates", "staging", "prepared", "backing up"}
      BY <1>1 DEF Block, At
    <2>2. \A v \in Updaters : ~Writing(v)
      BY <2>1, OthersIdle DEF Writing
    <2>3. Leave(u, "blocked") /\ reports' = reports
      BY <1>1 DEF Block, Leave, Report
    <2>4. "unrecovered" \notin reports => Sound(tree)
      BY <2>2 DEF SoundUnlessReported
    <2>5. "unrecovered" \notin reports' =>
             Whole(tree) /\ ("success" \in reports' => Fresh(tree))
      BY <2>3, <2>4 DEF Sound
    <2> QED
      BY <2>1, <2>3, <2>5, LeaveKeepsAlone
  <1>2. CASE Succeed(u)
    <2>1. phase[u] = "deploying" /\ tree = plan[u].expected /\ Leave(u, "success")
      BY <1>2 DEF Succeed, At
    <2>2. reports \subseteq reports'
      BY <2>1 DEF Leave, Report
    <2>3. "unrecovered" \notin reports' => Whole(tree) /\ Fresh(tree)
      BY <2>1, <2>2 DEF SoundUnlessReported
    <2> QED
      BY <2>1, <2>3, LeaveKeepsAlone
  <1>3. CASE Restored(u)
    <2>1. phase[u] = "restoring" /\ Writing(u)
      BY <1>3 DEF Restored, At, Writing
    <2>2. CASE tree = plan[u].original /\ Leave(u, "restored")
      <3>1. reports' = reports
        BY <2>2 DEF Leave, Report
      <3>2. "unrecovered" \notin reports' =>
               Whole(tree) /\ ("success" \in reports' => Fresh(tree))
        BY <2>1, <2>2, <3>1 DEF SoundUnlessReported, Sound
      <3> QED
        BY <2>1, <2>2, <3>2, LeaveKeepsAlone
    <2>3. CASE Leave(u, "unrecovered")
      <3>1. "unrecovered" \in reports'
        BY <2>3 DEF Leave, Report
      <3> QED
        BY <2>1, <2>3, <3>1, LeaveKeepsAlone
    <2> QED
      BY <1>3, <2>2, <2>3 DEF Restored
  <1> QED
    BY <1>1, <1>2, <1>3

LEMMA UpdateKeepsAlone ==
    ASSUME TypeOK, AloneInv, NEW u \in Updaters, Update(u)
    PROVE  AloneInv'
  <1>1. mishaps' = mishaps
    BY DEF Update, Start, Inspect, Prepare, RequireBackup, Block, Deploy, Succeed, RollBack,
           Restored, Leave
  <1>2. CASE mishaps = 0
    <2>1. OneAtWork /\ SoundUnlessReported
      BY <1>2 DEF AloneInv, UpdatersAlone
    <2>2. OneAtWork' /\ SoundUnlessReported'
      BY <2>1, StartKeepsAlone, InspectKeepsAlone, RequireBackupKeepsAlone, DeployKeepsAlone,
         RollBackKeepsAlone, EndsKeepAlone DEF Update
    <2> QED
      BY <2>2 DEF AloneInv
  <1>3. CASE mishaps # 0
    BY <1>1, <1>3 DEF AloneInv, UpdatersAlone
  <1> QED
    BY <1>2, <1>3

LEMMA AloneCorrect == Spec => []AloneInv
  <1>1. Init => AloneInv
    <2> SUFFICES ASSUME Init PROVE OneAtWork /\ SoundUnlessReported
      BY DEF AloneInv
    <2>1. \A p \in Processes : job[p].kind = "none"
      BY DEF Init, NoJob
    <2>2. OneAtWork
      BY <2>1 DEF Init, OneAtWork, Processes
    <2>3. SoundUnlessReported
      <3>1. Whole(tree)
        BY UpdaterAssumption DEF Init, Whole
      <3> QED
        BY <3>1 DEF Init, SoundUnlessReported, Sound, Writing
    <2> QED
      BY <2>2, <2>3
  <1>2. TypeOK /\ AloneInv /\ [Next]_vars => AloneInv'
    <2>1. UNCHANGED vars /\ AloneInv => AloneInv'
      BY DEF vars, files, AloneInv, UpdatersAlone, OneAtWork, SoundUnlessReported, Sound, Writing
    <2> QED
      BY <2>1, WorkKeepsAlone, UpdateKeepsAlone, MishapsKeepAlone DEF Next
  <1> QED
    BY <1>1, <1>2, TypeCorrect, PTL DEF Spec

\* When every process has ended and nobody was killed, no updater is writing: what
\* the invariant says of a sound installation is what stays behind.
LEMMA SettledIsSound ==
    ASSUME TypeOK, AloneInv, Settled, UpdatersAlone, "unrecovered" \notin reports
    PROVE  Sound(tree)
  <1>1. OneAtWork /\ SoundUnlessReported
    BY DEF AloneInv
  <1>2. \A u \in Updaters : job[u] = NoJob
    BY DEF Settled, Processes
  <1>3. \A u \in Updaters : ~Writing(u)
    BY <1>1, <1>2, NoJobIsIdle DEF OneAtWork, Writing
  <1> QED
    BY <1>1, <1>3 DEF SoundUnlessReported

\* As long as nobody was killed, an installation that updaters left in pieces has
\* been reported by one of them.
THEOREM ReportedCorrect == Spec => []BrokenIsReported
  <1>1. TypeOK /\ AloneInv => BrokenIsReported
    BY SettledIsSound DEF BrokenIsReported, Sound
  <1> QED
    BY <1>1, TypeCorrect, AloneCorrect, PTL

\* Among updaters a reported success lasts: later updates end with the release in
\* place, also those that fail and restore what they found.
THEOREM SuccessCorrect == Spec => []SuccessLasts
  <1>1. TypeOK /\ AloneInv => SuccessLasts
    BY SettledIsSound DEF SuccessLasts, Sound, Fresh
  <1> QED
    BY <1>1, TypeCorrect, AloneCorrect, PTL
=============================================================================
