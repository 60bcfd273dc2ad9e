--------------------------- MODULE PluginLifecycle ---------------------------
(***************************************************************************)
(* Managed installation of instrument plugins in one virtual environment    *)
(* (plugins/lifecycle.py): install, upgrade, downgrade, remove and recover, *)
(* with the ledger of managed plugins, the transaction journal and the      *)
(* external installer `uv`.                                                 *)
(*                                                                          *)
(* The environment lock is exclusive and never waited for, so one command   *)
(* runs at a time and a second one fails; the system releases the lock of a *)
(* process that dies.  Every durable write is a step of its own, because    *)
(* the process can die on either side of it, and every write can raise with *)
(* or without having taken effect (atomic_write_json syncs the directory    *)
(* after the rename).  What is read is only as good as when it was read.    *)
(*                                                                          *)
(* An environment is seen as the inventory probe sees it: a distribution is *)
(* absent, installed with intact files, or broken.  Left out: dry runs and  *)
(* listings, refusals by driver ID or file ownership, which change nothing; *)
(* the ledger's generation, which nothing reads; the wheel cache, from      *)
(* which nothing is ever deleted; the migration of version 1 files.         *)
(***************************************************************************)
EXTENDS Naturals

CONSTANTS
    Dists,        \* distributions
    MaxVersion,   \* bound: versions of a distribution
    Digests,      \* digests an installer may leave (RECORD differs by run)
    Orphans,      \* an installer can outlive the command that started it
    Absent, Broken, NoDigest, NoJournal, Idle, NoUv, NoDoubt

Versions == 1..MaxVersion

\* A distribution installed as its metadata says.
Installed == [version : Versions, digest : Digests]

Ops == {"install", "upgrade", "downgrade", "remove"}

Stages == {"prepared", "pip_started", "pip_finished", "postflight_finished",
           "ledger_committed", "rollback_started"}

Steps == {"prepare", "mark_started", "pip", "mark_finished", "check", "mark_checked",
          "commit", "mark_committed", "forget",
          "rollback", "undo", "recheck", "restore", "unjournal",
          "decide", "settle", "clear"}

LedgerType == [Dists -> Installed \union {Absent}]

\* The record of the transaction's package: an installed digest once it is known.
PackageType == [version : Versions, digest : Digests \union {NoDigest}]

JournalType == [op : Ops, dist : Dists, stage : Stages, before : LedgerType,
                package : PackageType]

RunType == [op : Ops \union {"recover"}, dist : Dists, step : Steps,
            before : LedgerType, package : PackageType, goal : LedgerType]

UvType == [dist : Dists, target : Versions \union {Absent}, done : BOOLEAN]

ASSUME LifecycleAssumption ==
    /\ MaxVersion \in Nat
    /\ Orphans \in BOOLEAN
    /\ Absent \notin Installed \union PackageType \union Versions
    /\ Broken \notin Installed \union {Absent}
    /\ NoDigest \notin Digests
    /\ NoJournal \notin JournalType
    /\ Idle \notin RunType
    /\ NoUv \notin UvType
    /\ NoDoubt \notin [dist : Dists, target : Versions \union {Absent}]

VARIABLES
    env,      \* site-packages, as the inventory probe reports it
    ledger,   \* plugin-installs-v1.json: the managed record of a distribution
    journal,  \* plugin-transaction-v1.json
    run,      \* the command that holds the environment lock, and its memory
    uv,       \* the installer that command is waiting for
    orphan,   \* an installer whose command has died
    outside,  \* distributions somebody changed without WaveBench
    orphaned  \* distributions an orphan may have changed

external == <<outside, orphaned>>
vars == <<env, ledger, journal, run, uv, orphan, external>>

TypeOK ==
    /\ env \in [Dists -> Installed \union {Absent, Broken}]
    /\ ledger \in LedgerType
    /\ journal \in JournalType \union {NoJournal}
    /\ run \in RunType \union {Idle}
    /\ uv \in UvType \union {NoUv}
    /\ orphan \in UvType \union {NoUv}
    /\ outside \in SUBSET Dists
    /\ orphaned \in SUBSET Dists

Init ==
    /\ env = [d \in Dists |-> Absent]
    /\ ledger = [d \in Dists |-> Absent]
    /\ journal = NoJournal
    /\ run = Idle
    /\ uv = NoUv
    /\ orphan = NoUv
    /\ outside = {}
    /\ orphaned = {}

-----------------------------------------------------------------------------
(* Starting a command: the lock, no pending journal, and the checks.         *)

\* installed() calls a managed distribution healthy.
Healthy(d) == ledger[d] # Absent /\ env[d] = ledger[d]

\* The checks of _assert_first_install_allowed, _replace and remove.
Allowed(op, d, v) ==
    CASE op = "install"   -> ledger[d] = Absent /\ env[d] = Absent
      [] op = "upgrade"   -> Healthy(d) /\ v > ledger[d].version
      [] op = "downgrade" -> Healthy(d) /\ v < ledger[d].version
      [] op = "remove"    -> Healthy(d) /\ v = ledger[d].version

\* _assert_no_pending_journal
NoPendingJournal == journal = NoJournal

Start(op, d, v) ==
    /\ run = Idle
    /\ NoPendingJournal
    /\ Allowed(op, d, v)
    /\ run' = [op      |-> op,
               dist    |-> d,
               step    |-> "prepare",
               before  |-> ledger,
               package |-> IF op = "remove" THEN ledger[d]
                           ELSE [version |-> v, digest |-> NoDigest],
               goal    |-> ledger]
    /\ UNCHANGED <<env, ledger, journal, uv, orphan, external>>

-----------------------------------------------------------------------------
(* The transaction: _run_install_transaction and remove.                     *)

At(step) == run # Idle /\ run.step = step

GoTo(step) == run' = [run EXCEPT !.step = step]

\* Mutant: the journal keeps the ledger of the moment, not the one before.
JournalWithLedger(stage) ==
    [op |-> run.op, dist |-> run.dist, stage |-> stage, before |-> ledger,
     package |-> run.package]

\* The journal as _update_journal writes it from memory.
Journaled(stage) ==
    [op |-> run.op, dist |-> run.dist, stage |-> stage, before |-> run.before,
     package |-> run.package]

\* The first journal is written outside the `try`: a failure ends the command.
Prepare ==
    /\ At("prepare")
    /\ \/ journal' = Journaled("prepared") /\ GoTo("mark_started")
       \/ journal' \in {journal, Journaled("prepared")} /\ run' = Idle
    /\ UNCHANGED <<env, ledger, uv, orphan, external>>

\* A later journal write either succeeds or raises into the rollback.
Mark(step, stage, next) ==
    /\ At(step)
    /\ \/ journal' = Journaled(stage) /\ GoTo(next)
       \/ journal' \in {journal, Journaled(stage)} /\ GoTo("rollback")
    /\ UNCHANGED <<env, ledger, orphan, external>>

\* What uv is asked for: the package itself, or nothing of it.
Target(op, package) == IF op = "remove" THEN Absent ELSE package.version

Child(target) == [dist |-> run.dist, target |-> target, done |-> FALSE]

\* Mutant: uv is started before the journal says so.
MarkStartedLate ==
    /\ At("mark_started")
    /\ GoTo("pip")
    /\ uv' = Child(Target(run.op, run.package))
    /\ UNCHANGED <<env, ledger, journal, orphan, external>>

MarkStarted ==
    /\ Mark("mark_started", "pip_started", "pip")
    /\ uv' = IF run'.step = "pip" THEN Child(Target(run.op, run.package)) ELSE NoUv

\* _install_wheel or _uninstall_distribution returns, fails or times out.
PipEnds ==
    /\ At("pip")
    /\ \/ uv.done /\ GoTo("mark_finished")
       \/ GoTo("rollback")
    /\ uv' = NoUv
    /\ UNCHANGED <<env, ledger, journal, orphan, external>>

MarkFinished ==
    /\ Mark("mark_finished", "pip_finished", "check")
    /\ UNCHANGED uv

\* _postflight accepts what is installed only as the expected version.
Passes(d, version) == env[d] \in Installed /\ env[d].version = version

\* The postflight, which learns the installed digests; after a removal the
\* distribution must be gone, and the next step is the commit.
Check ==
    /\ At("check")
    /\ \/ /\ run.op # "remove"
          /\ Passes(run.dist, run.package.version)
          /\ run' = [run EXCEPT !.step = "mark_checked", !.package = env[run.dist],
                                !.goal = [run.before EXCEPT ![run.dist] = env[run.dist]]]
       \/ /\ run.op = "remove"
          /\ env[run.dist] = Absent
          /\ run' = [run EXCEPT !.step = "commit",
                                !.goal = [run.before EXCEPT ![run.dist] = Absent]]
       \/ GoTo("rollback")
    /\ UNCHANGED <<env, ledger, journal, uv, orphan, external>>

MarkChecked ==
    /\ Mark("mark_checked", "postflight_finished", "commit")
    /\ UNCHANGED uv

\* _write_json(ledger_path, updated)
Commit ==
    /\ At("commit")
    /\ \/ ledger' = run.goal /\ GoTo("mark_committed")
       \/ ledger' \in {ledger, run.goal} /\ GoTo("rollback")
    /\ UNCHANGED <<env, journal, uv, orphan, external>>

MarkCommitted ==
    /\ Mark("mark_committed", "ledger_committed", "forget")
    /\ UNCHANGED uv

\* _remove_journal; the command ends with success.
Forget ==
    /\ At("forget")
    /\ \/ journal' = NoJournal /\ run' = Idle
       \/ journal' \in {journal, NoJournal} /\ GoTo("rollback")
    /\ UNCHANGED <<env, ledger, uv, orphan, external>>

-----------------------------------------------------------------------------
(* The rollback: _rollback_uninstall for a first install, _rollback_install  *)
(* otherwise.  Any failure here ends the command and leaves the journal.     *)

FirstInstall == run.op = "install"

Rollback ==
    /\ At("rollback")
    /\ \/ /\ journal' = Journaled("rollback_started")
          /\ GoTo("undo")
          /\ uv' = Child(IF FirstInstall THEN Absent ELSE run.before[run.dist].version)
       \/ /\ journal' \in {journal, Journaled("rollback_started")}
          /\ run' = Idle
          /\ UNCHANGED uv
    /\ UNCHANGED <<env, ledger, orphan, external>>

\* A failed uninstall is let pass (allow_missing), a failed install is not.
UndoEnds ==
    /\ At("undo")
    /\ \/ (uv.done \/ FirstInstall) /\ GoTo("recheck")
       \/ ~FirstInstall /\ run' = Idle
    /\ uv' = NoUv
    /\ UNCHANGED <<env, ledger, journal, orphan, external>>

\* The distribution must be gone, or pass the postflight of its old wheel, whose
\* new digests then replace the old ones (_reinstalled_record).
Recheck ==
    /\ At("recheck")
    /\ \/ /\ FirstInstall
          /\ env[run.dist] = Absent
          /\ run' = [run EXCEPT !.step = "restore", !.goal = run.before]
       \/ /\ ~FirstInstall
          /\ Passes(run.dist, run.before[run.dist].version)
          /\ run' = [run EXCEPT !.step = "restore",
                                !.goal = [run.before EXCEPT ![run.dist] = env[run.dist]]]
       \/ run' = Idle
    /\ UNCHANGED <<env, ledger, journal, uv, orphan, external>>

Restore ==
    /\ At("restore")
    /\ \/ ledger' = run.goal /\ GoTo("unjournal")
       \/ ledger' \in {ledger, run.goal} /\ run' = Idle
    /\ UNCHANGED <<env, journal, uv, orphan, external>>

Unjournal ==
    /\ At("unjournal")
    /\ journal' \in {journal, NoJournal}
    /\ run' = Idle
    /\ UNCHANGED <<env, ledger, uv, orphan, external>>

-----------------------------------------------------------------------------
(* recover: _recover_journal reads the environment, decides, writes the      *)
(* ledger and removes the journal.                                           *)

StartRecover ==
    /\ run = Idle
    /\ journal # NoJournal
    /\ run' = [op |-> "recover", dist |-> journal.dist, step |-> "decide",
               before |-> journal.before, package |-> journal.package, goal |-> ledger]
    /\ UNCHANGED <<env, ledger, journal, uv, orphan, external>>

BeforeMatches == env[journal.dist] = journal.before[journal.dist]

\* Without a recorded digest a postflight decides, which may fail on its own
\* account: `passes` is its answer.
DesiredMatches(passes) ==
    LET d == journal.dist IN
    CASE journal.op = "remove" -> env[d] = Absent
      [] journal.op # "remove" /\ journal.package.digest = NoDigest ->
            Passes(d, journal.package.version) /\ passes
      [] journal.op # "remove" /\ journal.package.digest # NoDigest ->
            env[d] = journal.package

LedgerMatches ==
    ledger[journal.dist] = IF journal.op = "remove" THEN Absent ELSE journal.package

\* Mutant: an interrupted uv run is left to a manual inspection.
LateStages == {"pip_finished", "postflight_finished"}

InDoubtStages == {"pip_started", "pip_finished", "postflight_finished"}

\* Nothing was changed yet.
Untouched ==
    journal.stage = "prepared" /\ ledger = journal.before /\ BeforeMatches

Committed(passes) ==
    journal.stage = "ledger_committed" /\ DesiredMatches(passes) /\ LedgerMatches

Forward(passes) == journal.stage \in InDoubtStages /\ DesiredMatches(passes)

Backward(passes) ==
    journal.stage \in InDoubtStages /\ ~DesiredMatches(passes) /\ BeforeMatches

\* Mutant: a rollback that was begun counts as done.
RolledBackBlind(passes) == journal.stage = "rollback_started"

\* A rollback that got as far as the old wheel counts as done.
RolledBack(passes) ==
    /\ journal.stage = "rollback_started"
    /\ \/ BeforeMatches
       \/ /\ journal.before[journal.dist] # Absent
          /\ Passes(journal.dist, journal.before[journal.dist].version) /\ passes

\* Mutant: recovery rebuilds the whole ledger from the environment.
FoundAll(d) == [x \in Dists |-> IF env[x] \in Installed THEN env[x] ELSE Absent]

\* The record recovery writes for what it finds installed.
Found(d) == [journal.before EXCEPT ![d] = env[d]]

Settling(goal) == run' = [run EXCEPT !.step = "settle", !.goal = goal]

Decide(passes) ==
    /\ At("decide")
    /\ \/ Untouched /\ GoTo("clear")
       \/ Committed(passes) /\ GoTo("clear")
       \/ Forward(passes) /\ Settling(Found(journal.dist))
       \/ Backward(passes) /\ Settling(journal.before)
       \/ RolledBack(passes) /\ Settling(Found(journal.dist))
    /\ UNCHANGED <<env, ledger, journal, uv, orphan, external>>

\* _recovery_required: the journal stays for a manual inspection.
Refuse(passes) ==
    /\ At("decide")
    /\ ~(Untouched \/ Committed(passes) \/ Forward(passes) \/ Backward(passes)
                   \/ RolledBack(passes))
    /\ run' = Idle
    /\ UNCHANGED <<env, ledger, journal, uv, orphan, external>>

Settle ==
    /\ At("settle")
    /\ \/ ledger' = run.goal /\ GoTo("clear")
       \/ ledger' \in {ledger, run.goal} /\ run' = Idle
    /\ UNCHANGED <<env, journal, uv, orphan, external>>

Clear ==
    /\ At("clear")
    /\ journal' \in {journal, NoJournal}
    /\ run' = Idle
    /\ UNCHANGED <<env, ledger, uv, orphan, external>>

-----------------------------------------------------------------------------
(* What happens around the command.                                          *)

\* uv breaks what it changes, then completes it, and is done; a distribution
\* that is absent already is removed without a change.
Works(u, after) ==
    /\ u # NoUv /\ ~u.done
    /\ \/ /\ env[u.dist] # Broken
          /\ env' = [env EXCEPT ![u.dist] = Broken]
          /\ after = u
       \/ /\ env[u.dist] = Broken /\ u.target # Absent
          /\ \E digest \in Digests :
                env' = [env EXCEPT ![u.dist] = [version |-> u.target, digest |-> digest]]
          /\ after = [u EXCEPT !.done = TRUE]
       \/ /\ env[u.dist] \in {Broken, Absent} /\ u.target = Absent
          /\ env' = [env EXCEPT ![u.dist] = Absent]
          /\ after = [u EXCEPT !.done = TRUE]

UvWorks ==
    /\ \E after \in UvType : Works(uv, after) /\ uv' = after
    /\ UNCHANGED <<ledger, journal, run, orphan, external>>

OrphanWorks ==
    /\ \E after \in UvType : Works(orphan, after) /\ orphan' = after
    /\ UNCHANGED <<ledger, journal, run, uv, external>>

OrphanEnds ==
    /\ orphan # NoUv
    /\ orphan' = NoUv
    /\ UNCHANGED <<env, ledger, journal, run, uv, external>>

\* The command's process dies, or a probe that only reads fails outside every
\* handler: the lock is released and what is on disk stays.
Crash ==
    /\ run # Idle
    /\ run' = Idle
    /\ uv' = NoUv
    /\ \/ UNCHANGED <<orphan, orphaned>>
       \/ /\ Orphans /\ uv # NoUv
          /\ orphan' = uv
          /\ orphaned' = orphaned \union {uv.dist}
    /\ UNCHANGED <<env, ledger, journal, outside>>

\* Somebody changes a distribution by other means.
Drift(d) ==
    /\ env[d] # Broken
    /\ env' = [env EXCEPT ![d] = Broken]
    /\ outside' = outside \union {d}
    /\ UNCHANGED <<ledger, journal, run, uv, orphan, orphaned>>

-----------------------------------------------------------------------------

Transact ==
    \/ Prepare \/ MarkStarted \/ PipEnds \/ MarkFinished \/ Check \/ MarkChecked
    \/ Commit \/ MarkCommitted \/ Forget

Undo == Rollback \/ UndoEnds \/ Recheck \/ Restore \/ Unjournal

Recover ==
    \/ \E passes \in BOOLEAN : Decide(passes) \/ Refuse(passes)
    \/ Settle \/ Clear

Next ==
    \/ \E op \in Ops, d \in Dists, v \in Versions : Start(op, d, v)
    \/ Transact \/ Undo
    \/ StartRecover \/ Recover
    \/ UvWorks \/ OrphanWorks \/ OrphanEnds \/ Crash
    \/ \E d \in Dists : Drift(d)

Spec == Init /\ [][Next]_vars

-----------------------------------------------------------------------------
(* Correctness.                                                              *)

\* Write-ahead: at every moment, also between any two disk writes and after any
\* crash, an environment that differs from the ledger is covered by a journal of
\* that very distribution which no longer says "prepared"; only what an orphan or
\* somebody else has changed is excused.
WriteAhead ==
    \A d \in Dists \ (outside \union orphaned) :
        env[d] # ledger[d] =>
            journal # NoJournal /\ journal.dist = d /\ journal.stage # "prepared"

\* A command changes the ledger entry of its own distribution only, although it
\* always writes the whole ledger, from a copy read earlier or kept in a journal.
OtherRecordsKept ==
    [][\A d \in Dists : ledger'[d] # ledger[d] => run # Idle /\ run.dist = d]_vars

\* recover refuses only when the environment is not exactly what it was before
\* the transaction (_recover_journal).
OldStateIsRecoverable ==
    [][(\E passes \in BOOLEAN : Refuse(passes)) =>
          journal.dist \in outside \union orphaned \/ ~BeforeMatches]_vars

\* A transaction is in doubt while its journal is on disk or its command may
\* still roll it back.
InDoubt ==
    journal # NoJournal \/ (run # Idle /\ run.op # "recover" /\ run.step # "prepare")

VersionOf(record) == IF record = Absent THEN Absent ELSE record.version

VersionsOf(l) == [d \in Dists |-> VersionOf(l[d])]

Doubt ==
    IF journal # NoJournal
    THEN [dist |-> journal.dist, target |-> Target(journal.op, journal.package)]
    ELSE IF InDoubt
         THEN [dist |-> run.dist, target |-> Target(run.op, run.package)]
         ELSE NoDoubt

Store ==
    VersionsOf(IF journal # NoJournal THEN journal.before
               ELSE IF InDoubt THEN run.before ELSE ledger)

\* Managed installation is atomic: it ends in the old or in the new version, or
\* stays in doubt and blocks every other change.
Promise == INSTANCE PluginStore WITH store <- Store, doubt <- Doubt

PromiseKept == Promise!Spec

-----------------------------------------------------------------------------
(* The inductive invariant.                                                  *)

Transacting == run # Idle /\ run.op # "recover"

Excused(d) == d \in outside \union orphaned

\* An installer works for the running command, which is at the step that waits
\* for it, or its distribution is excused.
InstallersAreKnown ==
    /\ uv # NoUv => run # Idle /\ run.step \in {"pip", "undo"} /\ uv.dist = run.dist
    /\ orphan # NoUv => orphan.dist \in orphaned

\* The journal on disk and the command in memory tell one story.
JournalIsOfRun ==
    /\ run # Idle => (run.op = "recover" <=> run.step \in {"decide", "settle", "clear"})
    /\ run # Idle /\ run.op = "recover" => journal # NoJournal /\ run.dist = journal.dist
    /\ Transacting /\ journal = NoJournal => run.step \in {"prepare", "rollback"}
    /\ Transacting /\ journal # NoJournal =>
          /\ run.step # "prepare"
          /\ journal.op = run.op /\ journal.dist = run.dist
          /\ journal.before = run.before
          /\ journal.package.version = run.package.version

\* Which stages the journal can be at.
StagesFit ==
    /\ journal # NoJournal /\ journal.stage = "prepared" => ledger = journal.before
    /\ journal # NoJournal /\ journal.stage = "ledger_committed" =>
          /\ LedgerMatches
          /\ Excused(journal.dist) \/ env[journal.dist] = ledger[journal.dist]
    /\ run # Idle /\ run.step = "prepare" => ledger = run.before
    /\ run # Idle /\ run.step \notin {"prepare", "mark_started", "forget", "rollback",
                                    "decide", "clear"} =>
          journal.stage \notin {"prepared", "ledger_committed"}
    /\ run # Idle /\ run.step = "forget" => journal.stage = "ledger_committed"

\* Every copy of the ledger agrees with it about the other distributions.
OthersAgree ==
    /\ journal # NoJournal =>
          \A d \in Dists \ {journal.dist} : journal.before[d] = ledger[d]
    /\ run # Idle => \A d \in Dists \ {run.dist} : run.goal[d] = ledger[d]
    /\ Transacting => \A d \in Dists \ {run.dist} : run.before[d] = ledger[d]

\* A command or journal asks for a change of what was there before.
Asks(c) ==
    /\ c.op = "install" <=> c.before[c.dist] = Absent
    /\ Target(c.op, c.package) # VersionOf(c.before[c.dist])

ChangesAreReal ==
    /\ Transacting => Asks(run)
    /\ journal # NoJournal => Asks(journal)

\* What a command is about to write, or has written, is what is installed.
Reached(record) == Excused(run.dist) \/ env[run.dist] = record

Outcomes ==
    {VersionOf(journal.before[journal.dist]), Target(journal.op, journal.package)}

GoalIsInstalled ==
    LET goal == run.goal[run.dist]
        at   == IF run = Idle THEN "none" ELSE run.step
    IN  /\ at \in {"mark_checked", "commit", "mark_committed", "forget"} =>
              Reached(goal) /\ goal = IF run.op = "remove" THEN Absent ELSE run.package
        /\ at \in {"restore", "unjournal"} =>
              Reached(goal) /\ VersionOf(goal) = VersionOf(run.before[run.dist])
        /\ at = "settle" => Reached(goal) /\ VersionOf(goal) \in Outcomes
        /\ at \in {"mark_committed", "forget", "unjournal"} => ledger = run.goal
        /\ at = "clear" =>
              Reached(ledger[run.dist]) /\ VersionOf(ledger[run.dist]) \in Outcomes
        /\ at = "rollback" /\ journal = NoJournal =>
              VersionOf(ledger[run.dist]) = Target(run.op, run.package)

LifecycleInv ==
    /\ TypeOK
    /\ InstallersAreKnown
    /\ JournalIsOfRun
    /\ StagesFit
    /\ OthersAgree
    /\ ChangesAreReal
    /\ GoalIsInstalled
    /\ WriteAhead

-----------------------------------------------------------------------------
(* What the documents say and the code does not keep.                        *)

\* "Recovers automatically only when the environment can be proven to be exactly
\* in its old or in its target state" (plugin user guide): with no journal left,
\* the environment is what the ledger says.
RecoveredIsProven ==
    run = Idle /\ journal = NoJournal =>
        \A d \in Dists \ outside : env[d] = ledger[d]

=============================================================================
