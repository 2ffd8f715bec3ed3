------------------------------ MODULE Updater ------------------------------
(***************************************************************************)
(* The software updater (scripts/update.py) and the backup helper it runs  *)
(* as a child process (scripts/backup_restore.py through rollback.sh).     *)
(*                                                                         *)
(* An update is a long transaction over plain directories: gates, a        *)
(* verified snapshot, a directory-by-directory replacement, a check, and a *)
(* restoration when anything fails.  Updaters exclude each other with a    *)
(* file lock; an operator runs the helper by hand without it.  Every       *)
(* directory is removed, partly written and completed in separate steps,   *)
(* each of which may fail, and processes may die between any two of them.  *)
(***************************************************************************)
EXTENDS Naturals, Sequences, FiniteSets

CONSTANTS
    Managed,        \* MANAGED_DIRS, in the order they are replaced
    Kept,           \* those deployed as they are: the configuration
    Gated,          \* those the gates read in the active installation
    Updaters,       \* processes running run_update
    Operators,      \* processes running rollback.sh by hand
    MaxSnapshots, MaxMishaps     \* bounds

Dirs == {Managed[k] : k \in DOMAIN Managed}

ASSUME UpdaterAssumption ==
    /\ Managed \in Seq(Dirs) /\ Kept \subseteq Dirs /\ Gated \subseteq Dirs
    /\ Updaters \cap Operators = {}
    /\ {MaxSnapshots, MaxMishaps} \subseteq Nat

VARIABLES
    tree,        \* the managed directories of the installation
    snapshots,   \* completed snapshots, oldest first
    lock,        \* who holds the update lock: at most one updater
    phase,       \* where each updater is in _run_update_locked
    plan,        \* per updater: manifests `original` and `expected`, its snapshot
    job,         \* what each process does to the directories at the moment
    reports,     \* the outcomes updates have ended with so far
    mishaps      \* how many times a process was killed, the power cut, or the
                 \* helper started by hand

files == <<tree, snapshots>>
vars == <<tree, snapshots, lock, phase, plan, job, reports, mishaps>>

Processes == Updaters \cup Operators

\* A directory holds the software of before, the release, an interrupted copy
\* or nothing.  A configuration in use is "old" throughout.
Content == {"old", "new", "torn", "absent"}
Tree == [Dirs -> Content]

NoTree == [d \in Dirs |-> "absent"]
NoJob == [kind |-> "none", next |-> 1, step |-> "remove", source |-> NoTree, manifest |-> NoTree]
NoPlan == [original |-> NoTree, expected |-> NoTree, snapshot |-> 0]

\* _prepare_deployment: the release, and a copy of the active configuration.
Layout(t) == [d \in Dirs |-> IF d \in Kept THEN t[d] ELSE "new"]

Ended(p) == job[p].kind \in {"done", "failed"}
Busy(p) == job[p].kind \in {"backup", "deploy", "restore"}
Current(p) == Managed[job[p].next]
Finished(p) == job[p].next > Len(Managed)

Begin(p, kind, source, manifest) ==
    job' = [job EXCEPT ![p] = [kind |-> kind, next |-> 1, step |-> "remove",
                               source |-> source, manifest |-> manifest]]

\* Only the copy a backup made is looked at once the job has ended.
End(p, kind) ==
    job' = [job EXCEPT ![p] = [NoJob EXCEPT !.kind = kind,
                !.source = IF job[p].kind = "backup" THEN job[p].source ELSE NoTree]]

\* "Blocked" and "restored" say that nothing has changed and are not kept.
Report(outcome) == reports' = reports \cup ({outcome} \cap {"success", "unrecovered"})

-----------------------------------------------------------------------------
(***************************************************************************)
(* create_backup: copy the directories, then publish them as a snapshot if *)
(* the copy and the installation still match the manifest taken first.     *)
(***************************************************************************)
BackUp(p) ==
    /\ job[p].kind = "backup" /\ ~Finished(p)
    /\ job' = [job EXCEPT ![p].source[Current(p)] = tree[Current(p)], ![p].next = @ + 1]
    /\ UNCHANGED <<files, lock, phase, plan, reports, mishaps>>

Publish(p) ==
    /\ job[p].kind = "backup" /\ Finished(p)
    /\ \/ /\ job[p].source = job[p].manifest /\ tree = job[p].manifest
          /\ snapshots' = Append(snapshots, job[p].source)
          /\ End(p, "done")
       \/ /\ job[p].source # job[p].manifest \/ tree # job[p].manifest
          /\ End(p, "failed")
          /\ UNCHANGED snapshots
    /\ UNCHANGED <<tree, lock, phase, plan, reports, mishaps>>

(***************************************************************************)
(* The loops of deploy_tree and restore_backup: remove a directory, create *)
(* it, complete it.  A directory that is not as the last step left it      *)
(* (another process got there) makes the copy fail.                        *)
(***************************************************************************)
Replacing(p, step) ==
    /\ job[p].kind \in {"deploy", "restore"} /\ ~Finished(p)
    /\ job[p].step = step
    /\ UNCHANGED <<snapshots, lock, phase, plan, reports, mishaps>>

Remove(p) ==
    /\ Replacing(p, "remove")
    /\ tree' = [tree EXCEPT ![Current(p)] = "absent"]
    /\ job' = [job EXCEPT ![p].step = "create"]

\* A directory the source does not have is left removed.
Skip(p) ==
    /\ Replacing(p, "create")
    /\ job[p].source[Current(p)] = "absent"
    /\ job' = [job EXCEPT ![p].step = "remove", ![p].next = @ + 1]
    /\ UNCHANGED tree

Create(p) ==
    /\ Replacing(p, "create")
    /\ job[p].source[Current(p)] # "absent" /\ tree[Current(p)] = "absent"
    /\ tree' = [tree EXCEPT ![Current(p)] = "torn"]
    /\ job' = [job EXCEPT ![p].step = "complete"]

Complete(p) ==
    /\ Replacing(p, "complete")
    /\ tree[Current(p)] = "torn"
    /\ tree' = [tree EXCEPT ![Current(p)] = job[p].source[Current(p)]]
    /\ job' = [job EXCEPT ![p].step = "remove", ![p].next = @ + 1]

\* Both verify the whole tree at the end.
Verify(p) ==
    /\ job[p].kind \in {"deploy", "restore"} /\ Finished(p)
    /\ End(p, IF tree = job[p].source THEN "done" ELSE "failed")
    /\ UNCHANGED <<files, lock, phase, plan, reports, mishaps>>

\* Any copy or removal may fail or, in a child, time out; a removal leaves part
\* of the directory behind.
Fail(p) ==
    /\ Busy(p)
    /\ \/ UNCHANGED tree
       \/ /\ job[p].kind # "backup" /\ ~Finished(p) /\ job[p].step = "remove"
          /\ tree' = [tree EXCEPT ![Current(p)] = IF @ = "absent" THEN @ ELSE "torn"]
    /\ End(p, "failed")
    /\ UNCHANGED <<snapshots, lock, phase, plan, reports, mishaps>>

Work(p) ==
    \/ BackUp(p) \/ Publish(p)
    \/ Remove(p) \/ Skip(p) \/ Create(p) \/ Complete(p) \/ Verify(p) \/ Fail(p)

-----------------------------------------------------------------------------
(***************************************************************************)
(* run_update and _run_update_locked.                                      *)
(***************************************************************************)
At(u, here) == phase[u] = here

Leave(u, outcome) ==
    /\ phase' = [phase EXCEPT ![u] = "idle"]
    /\ lock' = lock \ {u}
    /\ plan' = [plan EXCEPT ![u] = NoPlan]
    /\ job' = [job EXCEPT ![u] = NoJob]
    /\ Report(outcome)
    /\ UNCHANGED <<files, mishaps>>

Go(u, there) == phase' = [phase EXCEPT ![u] = there]

\* The lock is taken without waiting; whoever is second reports and leaves.
Start(u) ==
    /\ At(u, "idle") /\ job[u] = NoJob
    /\ \/ lock = {} /\ lock' = {u} /\ Go(u, "gates") /\ UNCHANGED reports
       \/ lock # {} /\ Report("blocked") /\ UNCHANGED <<lock, phase>>
    /\ UNCHANGED <<files, plan, job, mishaps>>

\* The first gates read the active diagnostics and configuration, then the
\* manifest of the installation is taken.
Inspect(u) ==
    /\ At(u, "gates")
    /\ \A d \in Gated : tree[d] # "absent"
    /\ plan' = [plan EXCEPT ![u].original = tree]
    /\ Go(u, "staging")
    /\ UNCHANGED <<files, lock, job, reports, mishaps>>

\* Download, extraction, staged diagnostics, build and tests passed: the layout
\* is put together, with a copy of the configuration as it is now.
Prepare(u) ==
    /\ At(u, "staging")
    /\ \A d \in Kept : tree[d] # "absent"
    /\ plan' = [plan EXCEPT ![u].expected = Layout(tree)]
    /\ Go(u, "prepared")
    /\ UNCHANGED <<files, lock, job, reports, mishaps>>

\* Slip: the layout is deployed without a snapshot of what it replaces.
RequireNoBackup(u) ==
    /\ At(u, "prepared")
    /\ Begin(u, "deploy", plan[u].expected, NoTree)
    /\ Go(u, "deploying")
    /\ UNCHANGED <<files, lock, plan, reports, mishaps>>

\* The backup helper is started; it takes a manifest of its own.
RequireBackup(u) ==
    /\ At(u, "prepared")
    /\ Len(snapshots) < MaxSnapshots
    /\ Begin(u, "backup", NoTree, tree)
    /\ Go(u, "backing up")
    /\ UNCHANGED <<files, lock, plan, reports, mishaps>>

\* A gate, the staging, or the backup failed: nothing was deployed.
Block(u) ==
    /\ \/ phase[u] \in {"gates", "staging", "prepared"}
       \/ At(u, "backing up") /\ job[u].kind = "failed"
       \/ /\ At(u, "backing up") /\ job[u].kind = "done"
          /\ job[u].source # plan[u].original \/ tree # plan[u].original
    /\ Leave(u, "blocked")

\* "Backup independently verified against current software."
Deploy(u) ==
    /\ At(u, "backing up") /\ job[u].kind = "done"
    /\ job[u].source = plan[u].original /\ tree = plan[u].original
    /\ plan' = [plan EXCEPT ![u].snapshot = job[u].source]
    /\ Begin(u, "deploy", plan[u].expected, NoTree)
    /\ Go(u, "deploying")
    /\ UNCHANGED <<files, lock, reports, mishaps>>

\* Slip: the deployed files are not compared with the layout.
SucceedUnverified(u) == At(u, "deploying") /\ Ended(u) /\ Leave(u, "success")

\* The deployed diagnostics passed and the tree is still the expected one.
Succeed(u) ==
    /\ At(u, "deploying") /\ job[u].kind = "done"
    /\ tree = plan[u].expected
    /\ Leave(u, "success")

\* Slip: a deployment that fails is reported as blocked and left as it is.
RollBackNothing(u) ==
    /\ At(u, "deploying") /\ Ended(u)
    /\ Leave(u, "blocked")

\* The deployment, its verification or the deployed diagnostics failed.
RollBack(u) ==
    /\ At(u, "deploying") /\ Ended(u)
    /\ Begin(u, "restore", plan[u].snapshot, NoTree)
    /\ Go(u, "restoring")
    /\ UNCHANGED <<files, lock, plan, reports, mishaps>>

\* "RESTORATION VERIFIED" or "RESTORATION FAILED".
Restored(u) ==
    /\ At(u, "restoring") /\ Ended(u)
    /\ Leave(u, IF job[u].kind = "done" /\ tree = plan[u].original
                THEN "restored" ELSE "unrecovered")

Update(u) ==
    \/ Start(u) \/ Inspect(u) \/ Prepare(u) \/ RequireBackup(u) \/ Block(u)
    \/ Deploy(u) \/ Succeed(u) \/ RollBack(u) \/ Restored(u)

-----------------------------------------------------------------------------
(***************************************************************************)
(* The operator: rollback.sh backup, restore of a named snapshot, rollback *)
(* to the newest one.                                                      *)
(***************************************************************************)
Operate(o) ==
    /\ job[o] = NoJob /\ mishaps < MaxMishaps
    /\ \/ Len(snapshots) < MaxSnapshots /\ tree # NoTree /\ Begin(o, "backup", NoTree, tree)
       \/ \E n \in DOMAIN snapshots : Begin(o, "restore", snapshots[n], NoTree)
    /\ mishaps' = mishaps + 1
    /\ UNCHANGED <<files, lock, phase, plan, reports>>

Conclude(o) ==
    /\ Ended(o)
    /\ job' = [job EXCEPT ![o] = NoJob]
    /\ UNCHANGED <<files, lock, phase, plan, reports, mishaps>>

(***************************************************************************)
(* An updater is killed: the system releases its lock.  It takes its own   *)
(* deployment with it, while a helper it started runs on.                  *)
(***************************************************************************)
Kill(u) ==
    /\ mishaps < MaxMishaps /\ ~At(u, "idle")
    /\ mishaps' = mishaps + 1
    /\ lock' = lock \ {u}
    /\ phase' = [phase EXCEPT ![u] = "idle"]
    /\ plan' = [plan EXCEPT ![u] = NoPlan]
    /\ job' = IF Busy(u) /\ job[u].kind # "deploy" THEN job
              ELSE [job EXCEPT ![u] = NoJob]
    /\ UNCHANGED <<files, reports>>

\* Nobody is left to read what a surviving helper returns.
Orphan(u) ==
    /\ At(u, "idle") /\ Ended(u)
    /\ job' = [job EXCEPT ![u] = NoJob]
    /\ UNCHANGED <<files, lock, phase, plan, reports, mishaps>>

\* The power fails: every process stops where it is.
PowerLoss ==
    /\ mishaps < MaxMishaps /\ \E p \in Processes : job[p] # NoJob
    /\ mishaps' = mishaps + 1
    /\ lock' = {}
    /\ phase' = [u \in Updaters |-> "idle"]
    /\ plan' = [u \in Updaters |-> NoPlan]
    /\ job' = [p \in Processes |-> NoJob]
    /\ UNCHANGED <<files, reports>>

-----------------------------------------------------------------------------
Init ==
    /\ tree = [d \in Dirs |-> "old"]
    /\ snapshots = <<>>
    /\ lock = {} /\ mishaps = 0
    /\ phase = [u \in Updaters |-> "idle"]
    /\ plan = [u \in Updaters |-> NoPlan]
    /\ job = [p \in Processes |-> NoJob]
    /\ reports = {}

Next ==
    \/ \E u \in Updaters : Update(u) \/ Kill(u) \/ Orphan(u)
    \/ \E o \in Operators : Operate(o) \/ Conclude(o)
    \/ \E p \in Processes : Work(p)
    \/ PowerLoss

Spec == Init /\ [][Next]_vars

-----------------------------------------------------------------------------
\* One release in all directories, with the configuration in use.
Whole(t) ==
    /\ \A d \in Kept : t[d] = "old"
    /\ \E release \in {"old", "new"} : \A d \in Dirs \ Kept : t[d] = release

\* At every instant, whatever was killed or failed before, an installation that
\* is not whole can be restored from a snapshot that is.
WayBack ==
    Whole(tree) \/ \E n \in DOMAIN snapshots : Whole(snapshots[n])

Settled == \A p \in Processes : job[p] = NoJob

\* Nothing is known of what an operator means to have installed.
UpdatersAlone == mishaps = 0

\* As long as nobody was killed, an installation that updaters left in pieces has
\* been reported by one of them.
BrokenIsReported ==
    Settled /\ UpdatersAlone => Whole(tree) \/ "unrecovered" \in reports

\* Among updaters a reported success lasts: later updates end with the release in
\* place, also those that fail and restore what they found.
SuccessLasts ==
    Settled /\ UpdatersAlone /\ "success" \in reports /\ "unrecovered" \notin reports
        => \A d \in Dirs \ Kept : tree[d] = "new"

\* "Active installation changed before deployment; update blocked": an update
\* that goes ahead deploys the configuration of the manifest it compares with.
ConfigurationIsOriginal ==
    \A u \in Updaters : At(u, "deploying") =>
        \A d \in Kept : plan[u].expected[d] = plan[u].original[d]
=============================================================================
