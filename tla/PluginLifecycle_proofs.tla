----------------------- MODULE PluginLifecycle_proofs -----------------------
(***************************************************************************)
(* Proofs about PluginLifecycle, for any distributions, versions and        *)
(* digests, with and without installers that outlive their command.         *)
(***************************************************************************)
EXTENDS PluginLifecycle, TLAPS

USE LifecycleAssumption



\* A command's memory keeps its type when it goes to another step.
LEMMA Stepped ==
    ASSUME run \in RunType, NEW step \in Steps
    PROVE  [run EXCEPT !.step = step] \in RunType
BY DEF RunType

\* A transaction writes a journal of the journal's type.
LEMMA JournaledTyped ==
    ASSUME run \in RunType, run.op # "recover", NEW stage \in Stages
    PROVE  Journaled(stage) \in JournalType
BY DEF RunType, JournalType, Journaled, Ops

\* What an installer can do to the environment.
LEMMA WorksLocally ==
    ASSUME TypeOK, NEW u \in UvType, NEW after \in UvType, Works(u, after)
    PROVE  /\ env' \in [Dists -> Installed \union {Absent, Broken}]
           /\ after.dist = u.dist
           /\ \A d \in Dists \ {u.dist} : env'[d] = env[d]
<1>1. u.dist \in Dists /\ u.target \in Versions \union {Absent}
  BY DEF UvType
<1>2. \A digest \in Digests, target \in Versions :
        [version |-> target, digest |-> digest] \in Installed
  BY DEF Installed
<1>3. PICK found \in Installed \union {Absent, Broken} :
        env' = [env EXCEPT ![u.dist] = found]
  BY <1>1, <1>2 DEF Works
<1>4. after.dist = u.dist
  BY DEF Works, UvType
<1> QED
  BY <1>1, <1>3, <1>4 DEF TypeOK

\* Every action keeps the types.
LEMMA TypeStep == LifecycleInv /\ [Next]_vars => TypeOK'
<1> SUFFICES ASSUME LifecycleInv, [Next]_vars PROVE TypeOK'
  OBVIOUS
<1>1. TypeOK /\ JournalIsOfRun
  BY DEF LifecycleInv
<1>2. /\ run # Idle => run \in RunType
      /\ journal # NoJournal => journal \in JournalType
      /\ uv # NoUv => uv \in UvType
      /\ orphan # NoUv => orphan \in UvType
  BY <1>1 DEF TypeOK
<1>3. run # Idle /\ run.step \notin {"decide", "settle", "clear"} =>
        run.op # "recover"
  BY <1>1 DEF JournalIsOfRun
<1>4. Installed \subseteq PackageType
  BY DEF Installed, PackageType
<1>5. ASSUME NEW op \in Ops, NEW d \in Dists, NEW v \in Versions, Start(op, d, v)
      PROVE  TypeOK'
  <2>1. (IF op = "remove" THEN ledger[d] ELSE [version |-> v, digest |-> NoDigest])
            \in PackageType
    BY <1>1, <1>5 DEF TypeOK, Start, Allowed, Healthy, LedgerType, Installed, PackageType
  <2>2. run' \in RunType
    BY <1>1, <1>5, <2>1 DEF TypeOK, Start, RunType, Steps
  <2> QED
    BY <1>1, <1>5, <2>2 DEF TypeOK, Start, external
<1>6. ASSUME Prepare PROVE TypeOK'
  <2>1. Journaled("prepared") \in JournalType
    BY <1>2, <1>3, <1>6, JournaledTyped DEF Prepare, At, Stages
  <2>2. [run EXCEPT !.step = "mark_started"] \in RunType
    BY <1>2, <1>6, Stepped DEF Prepare, At, Steps
  <2> QED
    BY <1>1, <1>6, <2>1, <2>2 DEF TypeOK, Prepare, GoTo, external
<1>7. ASSUME NEW step \in Steps \ {"decide", "settle", "clear"}, NEW stage \in Stages,
             NEW next \in Steps,
             Mark(step, stage, next),
             \/ uv' \in {NoUv, uv}
             \/ run'.step = "pip" /\ uv' = Child(Target(run.op, run.package))
      PROVE  TypeOK'
  <2>1. run \in RunType /\ run.op # "recover"
    BY <1>2, <1>3, <1>7 DEF Mark, At
  <2>2. Journaled(stage) \in JournalType
    BY <2>1, JournaledTyped
  <2>3. /\ [run EXCEPT !.step = next] \in RunType
        /\ [run EXCEPT !.step = "rollback"] \in RunType
    BY <2>1, Stepped DEF Steps
  <2>4. Child(Target(run.op, run.package)) \in UvType
    BY <2>1 DEF Child, Target, UvType, RunType, PackageType
  <2> QED
    BY <1>1, <1>7, <2>2, <2>3, <2>4 DEF TypeOK, Mark, GoTo, external
<1>8. ASSUME PipEnds PROVE TypeOK'
  <2>1. /\ [run EXCEPT !.step = "mark_finished"] \in RunType
        /\ [run EXCEPT !.step = "rollback"] \in RunType
    BY <1>2, <1>8, Stepped DEF PipEnds, At, Steps
  <2> QED
    BY <1>1, <1>8, <2>1 DEF TypeOK, PipEnds, GoTo, external
<1>9. ASSUME Check PROVE TypeOK'
  <2>1. run \in RunType /\ run.dist \in Dists /\ run.before \in LedgerType
    BY <1>2, <1>9 DEF Check, At, RunType
  <2>2. CASE run' = [run EXCEPT !.step = "mark_checked", !.package = env[run.dist],
                                !.goal = [run.before EXCEPT ![run.dist] = env[run.dist]]]
             /\ env[run.dist] \in Installed
    <3>1. [run.before EXCEPT ![run.dist] = env[run.dist]] \in LedgerType
      BY <2>1, <2>2 DEF LedgerType
    <3>2. run' \in RunType
      BY <1>4, <2>1, <2>2, <3>1 DEF RunType, Steps
    <3> QED
      BY <1>1, <1>9, <3>2 DEF TypeOK, Check, external
  <2>3. CASE run' = [run EXCEPT !.step = "commit",
                                !.goal = [run.before EXCEPT ![run.dist] = Absent]]
    <3>1. [run.before EXCEPT ![run.dist] = Absent] \in LedgerType
      BY <2>1 DEF LedgerType
    <3>2. run' \in RunType
      BY <2>1, <2>3, <3>1 DEF RunType, Steps
    <3> QED
      BY <1>1, <1>9, <3>2 DEF TypeOK, Check, external
  <2>4. CASE GoTo("rollback")
    <3>1. run' \in RunType
      BY <2>1, <2>4, Stepped DEF GoTo, Steps
    <3> QED
      BY <1>1, <1>9, <3>1 DEF TypeOK, Check, external
  <2> QED
    BY <1>9, <2>2, <2>3, <2>4 DEF Check, Passes
<1>10. ASSUME Commit PROVE TypeOK'
  <2>1. run.goal \in LedgerType
    BY <1>2, <1>10 DEF Commit, At, RunType
  <2>2. /\ [run EXCEPT !.step = "mark_committed"] \in RunType
        /\ [run EXCEPT !.step = "rollback"] \in RunType
    BY <1>2, <1>10, Stepped DEF Commit, At, Steps
  <2> QED
    BY <1>1, <1>10, <2>1, <2>2 DEF TypeOK, Commit, GoTo, external
<1>11. ASSUME Forget PROVE TypeOK'
  <2>1. [run EXCEPT !.step = "rollback"] \in RunType
    BY <1>2, <1>11, Stepped DEF Forget, At, Steps
  <2> QED
    BY <1>1, <1>11, <2>1 DEF TypeOK, Forget, GoTo, external
<1>12. ASSUME Rollback PROVE TypeOK'
  <2>1. run \in RunType /\ run.op # "recover"
    BY <1>2, <1>3, <1>12 DEF Rollback, At
  <2>2. Journaled("rollback_started") \in JournalType
    BY <2>1, JournaledTyped DEF Stages
  <2>3. [run EXCEPT !.step = "undo"] \in RunType
    BY <2>1, Stepped DEF Steps
  <2>4. ASSUME ~FirstInstall PROVE run.before[run.dist] \in Installed
    BY <1>1, <1>12, <2>1, <2>4 DEF LifecycleInv, ChangesAreReal, Asks, Transacting,
      Rollback, At, FirstInstall, RunType, LedgerType
  <2>5. Child(IF FirstInstall THEN Absent ELSE run.before[run.dist].version) \in UvType
    BY <2>1, <2>4 DEF Child, UvType, RunType, Installed
  <2> QED
    BY <1>1, <1>12, <2>2, <2>3, <2>5 DEF TypeOK, Rollback, GoTo, external
<1>13. ASSUME UndoEnds PROVE TypeOK'
  <2>1. [run EXCEPT !.step = "recheck"] \in RunType
    BY <1>2, <1>13, Stepped DEF UndoEnds, At, Steps
  <2> QED
    BY <1>1, <1>13, <2>1 DEF TypeOK, UndoEnds, GoTo, external
<1>14. ASSUME Recheck PROVE TypeOK'
  <2>1. run \in RunType /\ run.dist \in Dists /\ run.before \in LedgerType
    BY <1>2, <1>14 DEF Recheck, At, RunType
  <2>2. CASE run' = [run EXCEPT !.step = "restore", !.goal = run.before]
    <3>1. run' \in RunType
      BY <2>1, <2>2 DEF RunType, Steps
    <3> QED
      BY <1>1, <1>14, <3>1 DEF TypeOK, Recheck, external
  <2>3. CASE env[run.dist] \in Installed /\ run' = [run EXCEPT !.step = "restore",
                                !.goal = [run.before EXCEPT ![run.dist] = env[run.dist]]]
    <3>1. [run.before EXCEPT ![run.dist] = env[run.dist]] \in LedgerType
      BY <2>1, <2>3 DEF LedgerType
    <3>2. run' \in RunType
      BY <2>1, <2>3, <3>1 DEF RunType, Steps
    <3> QED
      BY <1>1, <1>14, <3>2 DEF TypeOK, Recheck, external
  <2>4. CASE run' = Idle
    BY <1>1, <1>14, <2>4 DEF TypeOK, Recheck, external
  <2> QED
    BY <1>14, <2>2, <2>3, <2>4 DEF Recheck, Passes
<1>15. ASSUME Restore PROVE TypeOK'
  <2>1. run.goal \in LedgerType
    BY <1>2, <1>15 DEF Restore, At, RunType
  <2>2. [run EXCEPT !.step = "unjournal"] \in RunType
    BY <1>2, <1>15, Stepped DEF Restore, At, Steps
  <2> QED
    BY <1>1, <1>15, <2>1, <2>2 DEF TypeOK, Restore, GoTo, external
<1>16. ASSUME Unjournal \/ Clear PROVE TypeOK'
  BY <1>1, <1>16 DEF TypeOK, Unjournal, Clear, external
<1>17. ASSUME StartRecover PROVE TypeOK'
  <2>1. run' \in RunType
    BY <1>1, <1>2, <1>17 DEF StartRecover, RunType, JournalType, TypeOK, Steps
  <2> QED
    BY <1>1, <1>17, <2>1 DEF TypeOK, StartRecover, external
<1>18. ASSUME NEW passes \in BOOLEAN, Decide(passes) PROVE TypeOK'
  <2>1. run \in RunType /\ journal \in JournalType
    BY <1>1, <1>2, <1>18 DEF Decide, At, JournalIsOfRun
  <2>2. [run EXCEPT !.step = "clear"] \in RunType
    BY <2>1, Stepped DEF Steps
  <2>3. ASSUME NEW goal \in LedgerType
        PROVE  [run EXCEPT !.step = "settle", !.goal = goal] \in RunType
    BY <2>1 DEF RunType, Steps
  <2>4. journal.before \in LedgerType /\ journal.dist \in Dists
    BY <2>1 DEF JournalType
  <2>5. ASSUME Forward(passes) \/ RolledBack(passes)
        PROVE  env[journal.dist] \in Installed \union {Absent}
    BY <1>1, <2>1, <2>4, <2>5 DEF Forward, RolledBack, DesiredMatches, BeforeMatches,
      Passes, LedgerType, TypeOK, JournalType, PackageType, Installed
  <2>6. Forward(passes) \/ RolledBack(passes) => Found(journal.dist) \in LedgerType
    BY <2>4, <2>5 DEF Found, LedgerType
  <2>7. run' \in RunType
    BY <1>18, <2>2, <2>3, <2>4, <2>6 DEF Decide, Settling, GoTo
  <2> QED
    BY <1>1, <1>18, <2>7 DEF TypeOK, Decide, external
<1>19. ASSUME NEW passes \in BOOLEAN, Refuse(passes) PROVE TypeOK'
  BY <1>1, <1>19 DEF TypeOK, Refuse, external
<1>20. ASSUME Settle PROVE TypeOK'
  <2>1. run.goal \in LedgerType
    BY <1>2, <1>20 DEF Settle, At, RunType
  <2>2. [run EXCEPT !.step = "clear"] \in RunType
    BY <1>2, <1>20, Stepped DEF Settle, At, Steps
  <2> QED
    BY <1>1, <1>20, <2>1, <2>2 DEF TypeOK, Settle, GoTo, external
<1>22. ASSUME UvWorks PROVE TypeOK'
  BY <1>1, <1>2, <1>22, WorksLocally DEF UvWorks, Works, TypeOK, external
<1>23. ASSUME OrphanWorks PROVE TypeOK'
  BY <1>1, <1>2, <1>23, WorksLocally DEF OrphanWorks, Works, TypeOK, external
<1>24. ASSUME OrphanEnds PROVE TypeOK'
  BY <1>1, <1>24 DEF OrphanEnds, TypeOK, external
<1>25. ASSUME Crash PROVE TypeOK'
  BY <1>1, <1>2, <1>25 DEF Crash, TypeOK, UvType, external
<1>26. ASSUME NEW d \in Dists, Drift(d) PROVE TypeOK'
  BY <1>1, <1>26 DEF Drift, TypeOK
<1>27. CASE UNCHANGED vars
  BY <1>1, <1>27 DEF TypeOK, vars, external
<1> QED
  BY <1>5, <1>6, <1>7, <1>8, <1>9, <1>10, <1>11, <1>12, <1>13, <1>14, <1>15, <1>16,
     <1>17, <1>18, <1>19, <1>20, <1>22, <1>23, <1>24, <1>25, <1>26, <1>27
  DEF Next, Transact, Undo, Recover, MarkStarted, MarkFinished, MarkChecked,
      MarkCommitted, Steps, Stages

\* Every action preserves the invariant: one case per action, one step per conjunct.
LEMMA NextLifecycle == LifecycleInv /\ [Next]_vars => LifecycleInv'
<1> SUFFICES ASSUME LifecycleInv, [Next]_vars PROVE LifecycleInv'
  OBVIOUS
<1> USE DEF LifecycleInv, external, Installed, LedgerType, PackageType, JournalType,
            RunType, UvType, Stages, Steps, Ops, Versions
<1>1. TypeOK'
  BY TypeStep
<1>2. ASSUME NEW op \in Ops, NEW d \in Dists, NEW v \in Versions, Start(op, d, v)
       PROVE LifecycleInv'
  <2>1. InstallersAreKnown'
    BY <1>2 DEF Start, InstallersAreKnown
  <2>2. JournalIsOfRun'
    BY <1>2 DEF Start, NoPendingJournal, JournalIsOfRun
  <2>3. StagesFit'
    BY <1>2 DEF Start, NoPendingJournal, StagesFit
  <2>4. OthersAgree'
    BY <1>2 DEF Start, OthersAgree
  <2>5. /\ run'.op = op /\ run'.dist = d /\ run'.before = ledger
        /\ Allowed(op, d, v)
        /\ run'.package = IF op = "remove" THEN ledger[d]
                          ELSE [version |-> v, digest |-> NoDigest]
        /\ journal' = NoJournal
    BY <1>2 DEF Start, NoPendingJournal
  <2>6. ledger[d] \in Installed \union {Absent}
    BY DEF TypeOK
  <2>7. Asks(run')
    <3>1. CASE op = "install"
      BY <2>5, <3>1 DEF Asks, Allowed, Target, VersionOf
    <3>2. CASE op = "remove"
      <4>1. ledger[d] \in Installed /\ ledger[d].version # Absent
        BY <2>5, <2>6, <3>2 DEF Allowed, Healthy
      <4> QED
        BY <2>5, <4>1, <3>2 DEF Asks, Target, VersionOf
    <3>3. CASE op \in {"upgrade", "downgrade"}
      <4>1. ledger[d] \in Installed /\ ledger[d] # Absent
        BY <2>5, <2>6, <3>3 DEF Allowed, Healthy
      <4>2. v \in Nat /\ ledger[d].version \in Nat
        BY <4>1
      <4>3. v > ledger[d].version \/ v < ledger[d].version
        BY <2>5, <3>3 DEF Allowed
      <4>4. ledger[d].version # v
        BY <4>2, <4>3
      <4> QED
        BY <2>5, <4>1, <4>4, <3>3 DEF Asks, Target, VersionOf
    <3> QED
      BY <3>1, <3>2, <3>3
  <2>8. ChangesAreReal'
    BY <2>5, <2>7 DEF ChangesAreReal, Asks, Target, VersionOf
  <2>9. GoalIsInstalled'
    BY <1>2 DEF Start, GoalIsInstalled
  <2>10. WriteAhead'
    BY <1>2 DEF Start, WriteAhead
  <2> QED
    BY <1>1, <2>1, <2>2, <2>3, <2>4, <2>8, <2>9, <2>10
<1>3. ASSUME Prepare PROVE LifecycleInv'
  <2>1. InstallersAreKnown'
    BY <1>3 DEF Prepare, At, InstallersAreKnown
  <2>2. JournalIsOfRun'
    BY <1>3 DEF Prepare, At, GoTo, Journaled, JournalIsOfRun, Transacting, TypeOK
  <2>3. StagesFit'
    BY <1>3
      DEF Prepare, At, GoTo, Journaled, TypeOK, StagesFit, LedgerMatches, Excused
  <2>4. OthersAgree'
    BY <1>3
      DEF Prepare, At, GoTo, Journaled, TypeOK, OthersAgree, JournalIsOfRun,
          Transacting
  <2>5. ChangesAreReal'
    BY <1>3
      DEF Prepare, At, GoTo, Journaled, TypeOK, ChangesAreReal, Asks,
          JournalIsOfRun, Transacting
  <2>6. GoalIsInstalled'
    BY <1>3 DEF Prepare, At, GoTo, TypeOK, GoalIsInstalled
  <2>7. WriteAhead'
    BY <1>3 DEF Prepare, At, WriteAhead, JournalIsOfRun, Transacting
  <2> QED
    BY <1>1, <2>1, <2>2, <2>3, <2>4, <2>5, <2>6, <2>7
<1>4. ASSUME MarkStarted PROVE LifecycleInv'
  <2>1. InstallersAreKnown'
    BY <1>4 DEF MarkStarted, Mark, At, GoTo, Child, TypeOK, InstallersAreKnown
  <2>2. JournalIsOfRun'
    BY <1>4
      DEF MarkStarted, Mark, At, GoTo, Journaled, JournalIsOfRun, Transacting,
          TypeOK
  <2>3. StagesFit'
    BY <1>4
      DEF MarkStarted, Mark, At, GoTo, Journaled, TypeOK, StagesFit, LedgerMatches,
          Excused
  <2>4. OthersAgree'
    BY <1>4
      DEF MarkStarted, Mark, At, GoTo, Journaled, TypeOK, OthersAgree,
          JournalIsOfRun, Transacting
  <2>5. ChangesAreReal'
    BY <1>4
      DEF MarkStarted, Mark, At, GoTo, Journaled, TypeOK, ChangesAreReal, Asks,
          JournalIsOfRun, Transacting
  <2>6. GoalIsInstalled'
    BY <1>4
      DEF MarkStarted, Mark, At, GoTo, Journaled, TypeOK, GoalIsInstalled,
          JournalIsOfRun, Transacting
  <2>7. WriteAhead'
    BY <1>4
      DEF MarkStarted, Mark, At, Journaled, TypeOK, WriteAhead, JournalIsOfRun,
          Transacting
  <2> QED
    BY <1>1, <2>1, <2>2, <2>3, <2>4, <2>5, <2>6, <2>7
<1>5. ASSUME PipEnds PROVE LifecycleInv'
  <2>1. InstallersAreKnown'
    BY <1>5 DEF PipEnds, InstallersAreKnown
  <2>2. JournalIsOfRun'
    BY <1>5 DEF PipEnds, At, GoTo, JournalIsOfRun, Transacting, TypeOK
  <2>3. StagesFit'
    BY <1>5 DEF PipEnds, At, GoTo, TypeOK, StagesFit
  <2>4. OthersAgree'
    BY <1>5 DEF PipEnds, At, GoTo, TypeOK, OthersAgree, Transacting
  <2>5. ChangesAreReal'
    BY <1>5 DEF PipEnds, At, GoTo, TypeOK, ChangesAreReal, Asks, Transacting
  <2>6. GoalIsInstalled'
    BY <1>5
      DEF PipEnds, At, GoTo, TypeOK, GoalIsInstalled, JournalIsOfRun, Transacting
  <2>7. WriteAhead'
    BY <1>5 DEF PipEnds, WriteAhead
  <2> QED
    BY <1>1, <2>1, <2>2, <2>3, <2>4, <2>5, <2>6, <2>7
<1>6. ASSUME MarkFinished PROVE LifecycleInv'
  <2>1. InstallersAreKnown'
    BY <1>6 DEF MarkFinished, Mark, At, InstallersAreKnown
  <2>2. JournalIsOfRun'
    BY <1>6
      DEF MarkFinished, Mark, At, GoTo, Journaled, JournalIsOfRun, Transacting,
          TypeOK
  <2>3. StagesFit'
    BY <1>6 DEF MarkFinished, Mark, At, GoTo, Journaled, TypeOK, StagesFit
  <2>4. OthersAgree'
    BY <1>6
      DEF MarkFinished, Mark, At, GoTo, Journaled, TypeOK, OthersAgree,
          JournalIsOfRun, Transacting
  <2>5. ChangesAreReal'
    BY <1>6
      DEF MarkFinished, Mark, At, GoTo, Journaled, TypeOK, ChangesAreReal, Asks,
          JournalIsOfRun, Transacting
  <2>6. GoalIsInstalled'
    BY <1>6
      DEF MarkFinished, Mark, At, GoTo, Journaled, TypeOK, GoalIsInstalled,
          JournalIsOfRun, Transacting
  <2>7. WriteAhead'
    BY <1>6
      DEF MarkFinished, Mark, At, Journaled, TypeOK, WriteAhead, JournalIsOfRun,
          Transacting
  <2> QED
    BY <1>1, <2>1, <2>2, <2>3, <2>4, <2>5, <2>6, <2>7
<1>7. ASSUME Check PROVE LifecycleInv'
  <2>1. /\ run \in RunType /\ run.step = "check" /\ run.op # "recover"
        /\ Transacting /\ run # Idle
    BY <1>7 DEF Check, At, TypeOK, JournalIsOfRun, Transacting
  <2>2. PICK goal \in LedgerType, package \in PackageType,
             step \in {"mark_checked", "commit", "rollback"} :
          /\ run' = [run EXCEPT !.step = step, !.package = package, !.goal = goal]
          /\ package.version = run.package.version
          /\ \A d \in Dists \ {run.dist} : goal[d] = ledger[d]
          /\ step = "mark_checked" =>
                /\ package = env[run.dist]
                /\ goal[run.dist] = env[run.dist]
                /\ run.op # "remove"
                /\ package \in Installed
          /\ step = "commit" =>
                /\ package = run.package
                /\ goal[run.dist] = Absent
                /\ env[run.dist] = Absent
                /\ run.op = "remove"
          /\ step = "rollback" => package = run.package
    <3>1. CASE /\ run.op # "remove"
          /\ Passes(run.dist, run.package.version)
          /\ run' = [run EXCEPT !.step = "mark_checked", !.package = env[run.dist],
                                !.goal = [run.before EXCEPT ![run.dist] = env[run.dist]]]
      <4> DEFINE goal == [run.before EXCEPT ![run.dist] = env[run.dist]]
      <4>1. /\ goal \in LedgerType
            /\ goal[run.dist] = env[run.dist]
            /\ \A e \in Dists \ {run.dist} : goal[e] = run.before[e]
        BY <2>1, <3>1 DEF Passes
      <4>2. /\ env[run.dist] \in PackageType /\ env[run.dist] \in Installed
            /\ env[run.dist].version = run.package.version
        BY <3>1 DEF Passes
      <4>3. run' = [run EXCEPT !.step = "mark_checked", !.package = env[run.dist], !.goal = goal]
        BY <3>1, <4>1
      <4> HIDE DEF goal
      <4> goal \in LedgerType /\ env[run.dist] \in PackageType
        BY <4>1, <4>2
      <4> WITNESS goal \in LedgerType, env[run.dist] \in PackageType,
                  "mark_checked" \in {"mark_checked", "commit", "rollback"}
      <4> QED
        BY <2>1, <3>1, <4>1, <4>2, <4>3 DEF OthersAgree
    <3>2. CASE /\ run.op = "remove"
          /\ env[run.dist] = Absent
          /\ run' = [run EXCEPT !.step = "commit",
                                !.goal = [run.before EXCEPT ![run.dist] = Absent]]
      <4> DEFINE goal == [run.before EXCEPT ![run.dist] = Absent]
      <4>1. /\ goal \in LedgerType
            /\ goal[run.dist] = Absent
            /\ \A e \in Dists \ {run.dist} : goal[e] = run.before[e]
        BY <2>1, <3>2 DEF Passes
      <4>2. run' = [run EXCEPT !.step = "commit", !.goal = goal]
        BY <3>2, <4>1
      <4> HIDE DEF goal
      <4>3. run' = [run EXCEPT !.step = "commit", !.package = run.package, !.goal = goal]
        BY <2>1, <4>2
      <4> goal \in LedgerType /\ run.package \in PackageType
        BY <2>1, <4>1
      <4> WITNESS goal \in LedgerType, run.package \in PackageType,
                  "commit" \in {"mark_checked", "commit", "rollback"}
      <4> QED
        BY <2>1, <3>2, <4>1, <4>3 DEF OthersAgree
    <3>3. CASE GoTo("rollback")
      <4>1. run' = [run EXCEPT !.step = "rollback", !.package = run.package, !.goal = run.goal]
        BY <2>1, <3>3 DEF GoTo
      <4> run.package \in PackageType /\ run.goal \in LedgerType
        BY <2>1
      <4> WITNESS run.goal \in LedgerType, run.package \in PackageType,
                  "rollback" \in {"mark_checked", "commit", "rollback"}
      <4> QED
        BY <2>1, <4>1 DEF OthersAgree
    <3> QED
      BY <1>7, <3>1, <3>2, <3>3 DEF Check
  <2>3. /\ run' \in RunType /\ run'.step = step /\ run'.package = package
        /\ run'.goal = goal /\ run'.op = run.op /\ run'.dist = run.dist
        /\ run'.before = run.before /\ run' # Idle
    <3>1. run' \in RunType
      BY <2>1, <2>2
    <3>2. run' # Idle
      BY <3>1
    <3>3. run'.goal = goal
      BY <2>1, <2>2
    <3>4. run'.package = package
      BY <2>1, <2>2
    <3>5. run'.step = step
      BY <2>1, <2>2
    <3>6. run'.op = run.op /\ run'.dist = run.dist /\ run'.before = run.before
      BY <2>1, <2>2
    <3> QED
      BY <3>1, <3>2, <3>3, <3>4, <3>5, <3>6
  <2>4. UNCHANGED <<env, ledger, journal, uv, orphan, external>>
    BY <1>7 DEF Check
  <2>5. InstallersAreKnown'
    BY <2>1, <2>2, <2>3, <2>4 DEF InstallersAreKnown
  <2>6. JournalIsOfRun'
    BY <2>1, <2>2, <2>3, <2>4 DEF JournalIsOfRun, Transacting
  <2>7. StagesFit'
    BY <2>1, <2>2, <2>3, <2>4 DEF StagesFit, LedgerMatches, Excused
  <2>8. OthersAgree'
    BY <2>1, <2>2, <2>3, <2>4 DEF OthersAgree, Transacting
  <2>9. ChangesAreReal'
    BY <2>1, <2>2, <2>3, <2>4 DEF ChangesAreReal, Asks, Target, Transacting
  <2>10. GoalIsInstalled'
    BY <2>1, <2>2, <2>3, <2>4 DEF GoalIsInstalled, Reached, Excused, JournalIsOfRun
  <2>11. WriteAhead'
    BY <2>1, <2>2, <2>3, <2>4 DEF WriteAhead
  <2> QED
    BY <1>1, <2>5, <2>6, <2>7, <2>8, <2>9, <2>10, <2>11
<1>8. ASSUME MarkChecked PROVE LifecycleInv'
  <2>1. InstallersAreKnown'
    BY <1>8 DEF MarkChecked, Mark, At, InstallersAreKnown
  <2>2. JournalIsOfRun'
    BY <1>8
      DEF MarkChecked, Mark, At, GoTo, Journaled, JournalIsOfRun, Transacting,
          TypeOK
  <2>3. StagesFit'
    BY <1>8 DEF MarkChecked, Mark, At, GoTo, Journaled, TypeOK, StagesFit
  <2>4. OthersAgree'
    BY <1>8
      DEF MarkChecked, Mark, At, GoTo, Journaled, TypeOK, OthersAgree,
          JournalIsOfRun, Transacting
  <2>5. ChangesAreReal'
    BY <1>8
      DEF MarkChecked, Mark, At, GoTo, Journaled, TypeOK, ChangesAreReal, Asks,
          JournalIsOfRun, Transacting
  <2>6. GoalIsInstalled'
    BY <1>8
      DEF MarkChecked, Mark, At, GoTo, Journaled, TypeOK, GoalIsInstalled,
          JournalIsOfRun, Transacting, Reached, Excused
  <2>7. WriteAhead'
    BY <1>8
      DEF MarkChecked, Mark, At, Journaled, TypeOK, WriteAhead, JournalIsOfRun,
          Transacting
  <2> QED
    BY <1>1, <2>1, <2>2, <2>3, <2>4, <2>5, <2>6, <2>7
<1>9. ASSUME Commit PROVE LifecycleInv'
  <2>1. InstallersAreKnown'
    BY <1>9 DEF Commit, At, InstallersAreKnown
  <2>2. JournalIsOfRun'
    BY <1>9 DEF Commit, At, GoTo, JournalIsOfRun, Transacting, TypeOK
  <2>3. StagesFit'
    BY <1>9 DEF Commit, At, GoTo, TypeOK, StagesFit
  <2>4. OthersAgree'
    BY <1>9 DEF Commit, At, GoTo, TypeOK, OthersAgree, JournalIsOfRun, Transacting
  <2>5. ChangesAreReal'
    BY <1>9 DEF Commit, At, GoTo, TypeOK, ChangesAreReal, Asks, Transacting
  <2>6. GoalIsInstalled'
    BY <1>9
      DEF Commit, At, GoTo, TypeOK, GoalIsInstalled, JournalIsOfRun, Transacting,
          Reached, Excused
  <2>7. WriteAhead'
    BY <1>9
      DEF Commit, At, WriteAhead, JournalIsOfRun, StagesFit, Transacting,
          OthersAgree
  <2> QED
    BY <1>1, <2>1, <2>2, <2>3, <2>4, <2>5, <2>6, <2>7
<1>10. ASSUME MarkCommitted PROVE LifecycleInv'
  <2>1. InstallersAreKnown'
    BY <1>10 DEF MarkCommitted, Mark, At, InstallersAreKnown
  <2>2. JournalIsOfRun'
    BY <1>10
      DEF MarkCommitted, Mark, At, GoTo, Journaled, JournalIsOfRun, Transacting,
          TypeOK
  <2>3. StagesFit'
    BY <1>10
      DEF MarkCommitted, Mark, At, GoTo, Journaled, TypeOK, StagesFit,
          GoalIsInstalled, Reached, LedgerMatches, Excused
  <2>4. OthersAgree'
    BY <1>10
      DEF MarkCommitted, Mark, At, GoTo, Journaled, TypeOK, OthersAgree,
          JournalIsOfRun, Transacting
  <2>5. ChangesAreReal'
    BY <1>10
      DEF MarkCommitted, Mark, At, GoTo, Journaled, TypeOK, ChangesAreReal, Asks,
          JournalIsOfRun, Transacting
  <2>6. GoalIsInstalled'
    BY <1>10
      DEF MarkCommitted, Mark, At, GoTo, Journaled, TypeOK, GoalIsInstalled,
          JournalIsOfRun, Transacting, Reached, Excused
  <2>7. WriteAhead'
    BY <1>10
      DEF MarkCommitted, Mark, At, Journaled, TypeOK, WriteAhead, JournalIsOfRun,
          Transacting
  <2> QED
    BY <1>1, <2>1, <2>2, <2>3, <2>4, <2>5, <2>6, <2>7
<1>11. ASSUME Forget PROVE LifecycleInv'
  <2>1. InstallersAreKnown'
    BY <1>11 DEF Forget, At, InstallersAreKnown
  <2>2. JournalIsOfRun'
    BY <1>11 DEF Forget, At, GoTo, JournalIsOfRun, Transacting, TypeOK
  <2>3. StagesFit'
    BY <1>11 DEF Forget, At, GoTo, TypeOK, StagesFit, LedgerMatches, Excused
  <2>4. OthersAgree'
    BY <1>11 DEF Forget, At, GoTo, TypeOK, OthersAgree, Transacting
  <2>5. ChangesAreReal'
    BY <1>11 DEF Forget, At, GoTo, TypeOK, ChangesAreReal, Asks, Transacting
  <2>6. GoalIsInstalled'
    BY <1>11 DEF Forget, At, GoTo, TypeOK, GoalIsInstalled, Target, VersionOf
  <2>7. WriteAhead'
    BY <1>11 DEF Forget, At, WriteAhead, Excused, StagesFit
  <2> QED
    BY <1>1, <2>1, <2>2, <2>3, <2>4, <2>5, <2>6, <2>7
<1>12. ASSUME Rollback PROVE LifecycleInv'
  <2>1. InstallersAreKnown'
    BY <1>12 DEF Rollback, At, GoTo, Child, TypeOK, InstallersAreKnown
  <2>2. JournalIsOfRun'
    BY <1>12 DEF Rollback, At, GoTo, Journaled, JournalIsOfRun, Transacting, TypeOK
  <2>3. StagesFit'
    BY <1>12
      DEF Rollback, At, GoTo, Journaled, TypeOK, StagesFit, LedgerMatches, Excused
  <2>4. OthersAgree'
    BY <1>12
      DEF Rollback, At, GoTo, Journaled, TypeOK, OthersAgree, JournalIsOfRun,
          Transacting
  <2>5. ChangesAreReal'
    BY <1>12
      DEF Rollback, At, GoTo, Journaled, TypeOK, ChangesAreReal, Asks,
          JournalIsOfRun, Transacting
  <2>6. GoalIsInstalled'
    BY <1>12 DEF Rollback, At, GoTo, TypeOK, GoalIsInstalled
  <2>7. WriteAhead'
    BY <1>12
      DEF Rollback, At, Journaled, TypeOK, WriteAhead, JournalIsOfRun, Transacting
  <2> QED
    BY <1>1, <2>1, <2>2, <2>3, <2>4, <2>5, <2>6, <2>7
<1>13. ASSUME UndoEnds PROVE LifecycleInv'
  <2>1. InstallersAreKnown'
    BY <1>13 DEF UndoEnds, InstallersAreKnown
  <2>2. JournalIsOfRun'
    BY <1>13 DEF UndoEnds, At, GoTo, JournalIsOfRun, Transacting, TypeOK
  <2>3. StagesFit'
    BY <1>13 DEF UndoEnds, At, GoTo, TypeOK, StagesFit
  <2>4. OthersAgree'
    BY <1>13 DEF UndoEnds, At, GoTo, TypeOK, OthersAgree, Transacting
  <2>5. ChangesAreReal'
    BY <1>13 DEF UndoEnds, At, GoTo, TypeOK, ChangesAreReal, Asks, Transacting
  <2>6. GoalIsInstalled'
    BY <1>13 DEF UndoEnds, At, GoTo, TypeOK, GoalIsInstalled
  <2>7. WriteAhead'
    BY <1>13 DEF UndoEnds, WriteAhead
  <2> QED
    BY <1>1, <2>1, <2>2, <2>3, <2>4, <2>5, <2>6, <2>7
<1>14. ASSUME Recheck PROVE LifecycleInv'
  <2>1. /\ run \in RunType /\ run.step = "recheck" /\ run.op # "recover"
        /\ Transacting /\ run # Idle
    BY <1>14 DEF Recheck, At, TypeOK, JournalIsOfRun, Transacting
  <2>2. FirstInstall <=> run.before[run.dist] = Absent
    BY <2>1 DEF FirstInstall, ChangesAreReal, Asks
  <2>3. UNCHANGED <<env, ledger, journal, uv, orphan, external>>
    BY <1>14 DEF Recheck
  <2>4. CASE run' = Idle
    <3>1. InstallersAreKnown'
      BY <2>1, <2>3, <2>4, <1>14 DEF Recheck, At, InstallersAreKnown
    <3>2. JournalIsOfRun'
      BY <2>1, <2>3, <2>4 DEF JournalIsOfRun, Transacting
    <3>3. StagesFit'
      BY <2>1, <2>3, <2>4 DEF StagesFit, LedgerMatches, Excused
    <3>4. OthersAgree'
      BY <2>1, <2>3, <2>4 DEF OthersAgree, Transacting
    <3>5. ChangesAreReal'
      BY <2>1, <2>3, <2>4 DEF ChangesAreReal, Asks, Target, Transacting
    <3>6. GoalIsInstalled'
      BY <2>1, <2>3, <2>4
        DEF GoalIsInstalled, Reached, Excused, JournalIsOfRun, VersionOf
    <3>7. WriteAhead'
      BY <2>1, <2>3, <2>4 DEF WriteAhead
    <3> QED
      BY <1>1, <3>1, <3>2, <3>3, <3>4, <3>5, <3>6, <3>7
  <2>5. CASE run' # Idle
    <3>1. PICK goal \in LedgerType :
          /\ run' = [run EXCEPT !.step = "restore", !.goal = goal]
          /\ \A d \in Dists \ {run.dist} : goal[d] = ledger[d]
          /\ goal[run.dist] = env[run.dist]
          /\ VersionOf(goal[run.dist]) = VersionOf(run.before[run.dist])
      <4>1. CASE /\ FirstInstall
            /\ env[run.dist] = Absent
            /\ run' = [run EXCEPT !.step = "restore", !.goal = run.before]
        BY <2>1, <4>1, <2>2 DEF OthersAgree, VersionOf
      <4>2. CASE /\ ~FirstInstall
            /\ Passes(run.dist, run.before[run.dist].version)
            /\ run' = [run EXCEPT !.step = "restore",
                                  !.goal = [run.before EXCEPT ![run.dist] = env[run.dist]]]
        <5> DEFINE goal == [run.before EXCEPT ![run.dist] = env[run.dist]]
        <5>1. /\ goal \in LedgerType
              /\ goal[run.dist] = env[run.dist]
              /\ \A e \in Dists \ {run.dist} : goal[e] = run.before[e]
          BY <2>1, <4>2 DEF Passes
        <5>2. run' = [run EXCEPT !.step = "restore", !.goal = goal]
          BY <4>2, <5>1
        <5> HIDE DEF goal
        <5>3. VersionOf(goal[run.dist]) = VersionOf(run.before[run.dist])
          BY <5>1, <4>2, <2>2 DEF Passes, VersionOf
        <5> goal \in LedgerType
          BY <5>1
        <5> WITNESS goal \in LedgerType
        <5> QED
          BY <2>1, <5>1, <5>2, <5>3 DEF OthersAgree
      <4> QED
        BY <1>14, <2>5, <4>1, <4>2 DEF Recheck
    <3>2. /\ run' \in RunType /\ run'.step = "restore" /\ run'.goal = goal
          /\ run'.op = run.op /\ run'.dist = run.dist
          /\ run'.before = run.before /\ run'.package = run.package
      BY <2>1, <3>1
    <3>3. InstallersAreKnown'
      BY <2>1, <2>3, <2>5, <3>1, <3>2 DEF InstallersAreKnown
    <3>4. JournalIsOfRun'
      BY <2>1, <2>3, <2>5, <3>1, <3>2 DEF JournalIsOfRun, Transacting
    <3>5. StagesFit'
      BY <2>1, <2>3, <2>5, <3>1, <3>2 DEF StagesFit, LedgerMatches, Excused
    <3>6. OthersAgree'
      BY <2>1, <2>3, <2>5, <3>1, <3>2 DEF OthersAgree, Transacting
    <3>7. ChangesAreReal'
      BY <2>1, <2>3, <2>5, <3>1, <3>2 DEF ChangesAreReal, Asks, Target, Transacting
    <3>8. GoalIsInstalled'
      BY <2>1, <2>3, <2>5, <3>1, <3>2
        DEF GoalIsInstalled, Reached, Excused, JournalIsOfRun, VersionOf
    <3>9. WriteAhead'
      BY <2>1, <2>3, <2>5, <3>1, <3>2 DEF WriteAhead
    <3> QED
      BY <1>1, <3>3, <3>4, <3>5, <3>6, <3>7, <3>8, <3>9
  <2> QED
    BY <2>4, <2>5
<1>15. ASSUME Restore PROVE LifecycleInv'
  <2>1. InstallersAreKnown'
    BY <1>15 DEF Restore, At, InstallersAreKnown
  <2>2. JournalIsOfRun'
    BY <1>15 DEF Restore, At, GoTo, JournalIsOfRun, Transacting, TypeOK
  <2>3. StagesFit'
    BY <1>15 DEF Restore, At, GoTo, TypeOK, StagesFit
  <2>4. OthersAgree'
    BY <1>15 DEF Restore, At, GoTo, TypeOK, OthersAgree, JournalIsOfRun, Transacting
  <2>5. ChangesAreReal'
    BY <1>15 DEF Restore, At, GoTo, TypeOK, ChangesAreReal, Asks, Transacting
  <2>6. GoalIsInstalled'
    BY <1>15 DEF Restore, At, GoTo, TypeOK, GoalIsInstalled, Reached, Excused
  <2>7. WriteAhead'
    BY <1>15
      DEF Restore, At, WriteAhead, JournalIsOfRun, StagesFit, Transacting,
          OthersAgree
  <2> QED
    BY <1>1, <2>1, <2>2, <2>3, <2>4, <2>5, <2>6, <2>7
<1>16. ASSUME Unjournal PROVE LifecycleInv'
  <2>1. InstallersAreKnown'
    BY <1>16 DEF Unjournal, At, InstallersAreKnown
  <2>2. JournalIsOfRun'
    BY <1>16 DEF Unjournal, JournalIsOfRun, Transacting
  <2>3. StagesFit'
    BY <1>16 DEF Unjournal, StagesFit, LedgerMatches, Excused
  <2>4. OthersAgree'
    BY <1>16 DEF Unjournal, OthersAgree, Transacting
  <2>5. ChangesAreReal'
    BY <1>16 DEF Unjournal, ChangesAreReal, Transacting
  <2>6. GoalIsInstalled'
    BY <1>16 DEF Unjournal, GoalIsInstalled
  <2>7. WriteAhead'
    BY <1>16
      DEF Unjournal, At, WriteAhead, GoalIsInstalled, Reached, Excused,
          JournalIsOfRun, Transacting
  <2> QED
    BY <1>1, <2>1, <2>2, <2>3, <2>4, <2>5, <2>6, <2>7
<1>17. ASSUME StartRecover PROVE LifecycleInv'
  <2>1. InstallersAreKnown'
    BY <1>17 DEF StartRecover, InstallersAreKnown
  <2>2. JournalIsOfRun'
    BY <1>17 DEF StartRecover, JournalIsOfRun, Transacting
  <2>3. StagesFit'
    BY <1>17 DEF StartRecover, StagesFit, LedgerMatches, Excused
  <2>4. OthersAgree'
    BY <1>17 DEF StartRecover, OthersAgree
  <2>5. ChangesAreReal'
    BY <1>17 DEF StartRecover, ChangesAreReal, Transacting
  <2>6. GoalIsInstalled'
    BY <1>17 DEF StartRecover, GoalIsInstalled
  <2>7. WriteAhead'
    BY <1>17 DEF StartRecover, WriteAhead
  <2> QED
    BY <1>1, <2>1, <2>2, <2>3, <2>4, <2>5, <2>6, <2>7
<1>18. ASSUME NEW passes \in BOOLEAN, Decide(passes) PROVE LifecycleInv'
  <2>1. /\ run \in RunType /\ run.step = "decide" /\ run.op = "recover"
        /\ ~Transacting /\ run # Idle /\ journal \in JournalType
        /\ journal # NoJournal /\ run.dist = journal.dist
    BY <1>18 DEF Decide, At, TypeOK, JournalIsOfRun, Transacting
  <2>2. /\ journal.dist \in Dists /\ journal.before \in LedgerType
        /\ journal.package \in PackageType
    BY <2>1
  <2>3. journal.op # "remove" =>
          Target(journal.op, journal.package) = journal.package.version
    BY DEF Target
  <2>4. journal.op = "remove" => Target(journal.op, journal.package) = Absent
    BY DEF Target
  <2>5. \A d \in Dists \ {run.dist} : journal.before[d] = ledger[d]
    BY <2>1 DEF OthersAgree
  <2>6. PICK goal \in LedgerType, step \in {"clear", "settle"} :
          /\ run' = [run EXCEPT !.step = step, !.goal = goal]
          /\ \A d \in Dists \ {run.dist} : goal[d] = ledger[d]
          /\ step = "clear" =>
                /\ Reached(ledger[run.dist])
                /\ VersionOf(ledger[run.dist]) \in Outcomes
          /\ step = "settle" =>
                /\ Reached(goal[run.dist]) /\ VersionOf(goal[run.dist]) \in Outcomes
                /\ journal.stage \notin {"prepared", "ledger_committed"}
    <3>1. CASE Untouched /\ GoTo("clear")
      <4>1. run' = [run EXCEPT !.step = "clear", !.goal = run.goal]
        BY <2>1, <3>1 DEF GoTo
      <4>2. Reached(ledger[run.dist]) /\ VersionOf(ledger[run.dist]) \in Outcomes
        BY <2>1, <2>2, <3>1 DEF Untouched, BeforeMatches, Reached, Outcomes
      <4> QED
        BY <2>1, <4>1, <4>2 DEF OthersAgree
    <3>2. CASE Committed(passes) /\ GoTo("clear")
      <4>1. run' = [run EXCEPT !.step = "clear", !.goal = run.goal]
        BY <2>1, <3>2 DEF GoTo
      <4>2. Reached(ledger[run.dist])
        BY <2>1, <3>2 DEF Committed, StagesFit, Reached
      <4>3. VersionOf(ledger[run.dist]) = Target(journal.op, journal.package)
        BY <2>1, <2>2, <2>3, <2>4, <3>2 DEF Committed, LedgerMatches, VersionOf
      <4> QED
        BY <2>1, <4>1, <4>2, <4>3 DEF OthersAgree, Outcomes
    <3>3. CASE Forward(passes) /\ Settling(Found(journal.dist))
      <4>1. /\ env[journal.dist] \in Installed \union {Absent}
            /\ VersionOf(env[journal.dist]) = Target(journal.op, journal.package)
         BY <2>2, <2>3, <2>4, <3>3 DEF Forward, DesiredMatches, Passes, VersionOf
      <4> DEFINE goal == [journal.before EXCEPT ![journal.dist] = env[journal.dist]]
      <4>2. /\ goal \in LedgerType
            /\ goal[journal.dist] = env[journal.dist]
            /\ \A e \in Dists \ {journal.dist} : goal[e] = journal.before[e]
        BY <2>2, <4>1 DEF Passes
      <4>3. run' = [run EXCEPT !.step = "settle", !.goal = goal]
        BY <3>3, <4>2 DEF Settling, Found
      <4> HIDE DEF goal
      <4>4. journal.stage \notin {"prepared", "ledger_committed"}
        BY <3>3 DEF Forward, InDoubtStages
      <4> goal \in LedgerType
        BY <4>2
      <4> WITNESS goal \in LedgerType, "settle" \in {"clear", "settle"}
      <4> QED
        BY <2>1, <2>5, <4>1, <4>2, <4>3, <4>4 DEF Reached, Outcomes
    <3>4. CASE Backward(passes) /\ Settling(journal.before)
      <4>1. run' = [run EXCEPT !.step = "settle", !.goal = journal.before]
        BY <3>4 DEF Settling
      <4>2. journal.stage \notin {"prepared", "ledger_committed"}
        BY <3>4 DEF Backward, InDoubtStages
      <4>3. env[journal.dist] = journal.before[journal.dist]
        BY <3>4 DEF Backward, BeforeMatches
      <4> QED
        BY <2>1, <2>2, <2>5, <4>1, <4>2, <4>3 DEF Reached, Outcomes
    <3>5. CASE RolledBack(passes) /\ Settling(Found(journal.dist))
      <4>1. /\ env[journal.dist] \in Installed \union {Absent}
            /\ VersionOf(env[journal.dist]) = VersionOf(journal.before[journal.dist])
         BY <2>2, <3>5 DEF RolledBack, BeforeMatches, Passes, VersionOf
      <4> DEFINE goal == [journal.before EXCEPT ![journal.dist] = env[journal.dist]]
      <4>2. /\ goal \in LedgerType
            /\ goal[journal.dist] = env[journal.dist]
            /\ \A e \in Dists \ {journal.dist} : goal[e] = journal.before[e]
        BY <2>2, <4>1 DEF Passes
      <4>3. run' = [run EXCEPT !.step = "settle", !.goal = goal]
        BY <3>5, <4>2 DEF Settling, Found
      <4> HIDE DEF goal
      <4>4. journal.stage \notin {"prepared", "ledger_committed"}
        BY <3>5 DEF RolledBack
      <4> goal \in LedgerType
        BY <4>2
      <4> WITNESS goal \in LedgerType, "settle" \in {"clear", "settle"}
      <4> QED
        BY <2>1, <2>5, <4>1, <4>2, <4>3, <4>4 DEF Reached, Outcomes
    <3> QED
      BY <1>18, <3>1, <3>2, <3>3, <3>4, <3>5 DEF Decide
  <2>7. /\ run' \in RunType /\ run'.step = step /\ run'.goal = goal
        /\ run'.op = run.op /\ run'.dist = run.dist /\ run' # Idle
    <3>1. run' \in RunType
      BY <2>1, <2>6
    <3> QED
      BY <2>1, <2>6, <3>1, ZenonT(40)
  <2>8. UNCHANGED <<env, ledger, journal, uv, orphan, external>>
    BY <1>18 DEF Decide
  <2>9. InstallersAreKnown'
    BY <2>1, <2>6, <2>7, <2>8 DEF InstallersAreKnown
  <2>10. JournalIsOfRun'
    BY <2>1, <2>6, <2>7, <2>8 DEF JournalIsOfRun, Transacting
  <2>11. StagesFit'
    BY <2>1, <2>6, <2>7, <2>8 DEF StagesFit, LedgerMatches, Excused
  <2>12. OthersAgree'
    BY <2>1, <2>6, <2>7, <2>8 DEF OthersAgree, Transacting
  <2>13. ChangesAreReal'
    BY <2>1, <2>6, <2>7, <2>8 DEF ChangesAreReal, Asks, Target, Transacting
  <2>14. GoalIsInstalled'
    BY <2>1, <2>6, <2>7, <2>8 DEF GoalIsInstalled, Reached, Excused, Outcomes
  <2>15. WriteAhead'
    BY <2>1, <2>6, <2>7, <2>8 DEF WriteAhead
  <2> QED
    BY <1>1, <2>9, <2>10, <2>11, <2>12, <2>13, <2>14, <2>15
<1>19. ASSUME NEW passes \in BOOLEAN, Refuse(passes) PROVE LifecycleInv'
  <2>1. InstallersAreKnown'
    BY <1>19 DEF Refuse, At, InstallersAreKnown
  <2>2. JournalIsOfRun'
    BY <1>19 DEF Refuse, JournalIsOfRun, Transacting
  <2>3. StagesFit'
    BY <1>19 DEF Refuse, StagesFit, LedgerMatches, Excused
  <2>4. OthersAgree'
    BY <1>19 DEF Refuse, OthersAgree, Transacting
  <2>5. ChangesAreReal'
    BY <1>19 DEF Refuse, ChangesAreReal, Transacting
  <2>6. GoalIsInstalled'
    BY <1>19 DEF Refuse, GoalIsInstalled
  <2>7. WriteAhead'
    BY <1>19 DEF Refuse, WriteAhead
  <2> QED
    BY <1>1, <2>1, <2>2, <2>3, <2>4, <2>5, <2>6, <2>7
<1>20. ASSUME Settle PROVE LifecycleInv'
  <2>1. InstallersAreKnown'
    BY <1>20 DEF Settle, At, InstallersAreKnown
  <2>2. JournalIsOfRun'
    BY <1>20 DEF Settle, At, GoTo, JournalIsOfRun, Transacting, TypeOK
  <2>3. StagesFit'
    BY <1>20 DEF Settle, At, GoTo, TypeOK, StagesFit
  <2>4. OthersAgree'
    BY <1>20 DEF Settle, At, GoTo, TypeOK, OthersAgree, JournalIsOfRun, Transacting
  <2>5. ChangesAreReal'
    BY <1>20 DEF Settle, At, GoTo, TypeOK, ChangesAreReal, Asks, Transacting
  <2>6. GoalIsInstalled'
    BY <1>20
      DEF Settle, At, GoTo, TypeOK, GoalIsInstalled, Reached, Outcomes, Excused
  <2>7. WriteAhead'
    BY <1>20 DEF Settle, At, WriteAhead, JournalIsOfRun, StagesFit, OthersAgree
  <2> QED
    BY <1>1, <2>1, <2>2, <2>3, <2>4, <2>5, <2>6, <2>7
<1>21. ASSUME Clear PROVE LifecycleInv'
  <2>1. InstallersAreKnown'
    BY <1>21 DEF Clear, At, InstallersAreKnown
  <2>2. JournalIsOfRun'
    BY <1>21 DEF Clear, JournalIsOfRun, Transacting
  <2>3. StagesFit'
    BY <1>21 DEF Clear, StagesFit, LedgerMatches, Excused
  <2>4. OthersAgree'
    BY <1>21 DEF Clear, OthersAgree, Transacting
  <2>5. ChangesAreReal'
    BY <1>21 DEF Clear, ChangesAreReal, Transacting
  <2>6. GoalIsInstalled'
    BY <1>21 DEF Clear, GoalIsInstalled
  <2>7. WriteAhead'
    BY <1>21
      DEF Clear, At, WriteAhead, GoalIsInstalled, Reached, Excused, JournalIsOfRun
  <2> QED
    BY <1>1, <2>1, <2>2, <2>3, <2>4, <2>5, <2>6, <2>7
<1>22. ASSUME UvWorks PROVE LifecycleInv'
  <2>1. /\ run # Idle /\ run.step \in {"pip", "undo"} /\ uv.dist = run.dist
        /\ uv' # NoUv => uv'.dist = uv.dist
        /\ \A d \in Dists \ {uv.dist} : env'[d] = env[d]
    <3>1. PICK after \in UvType : Works(uv, after) /\ uv' = after
      BY <1>22 DEF UvWorks
    <3>2. uv \in UvType /\ uv # NoUv
      BY <3>1 DEF Works, TypeOK
    <3> QED
      BY <3>1, <3>2, WorksLocally DEF InstallersAreKnown
  <2>2. /\ Transacting /\ journal # NoJournal /\ journal.dist = run.dist
        /\ journal.stage \notin {"prepared", "ledger_committed"}
    BY <2>1 DEF JournalIsOfRun, StagesFit, Transacting
  <2>3. UNCHANGED <<ledger, journal, run, orphan, external>>
    BY <1>22 DEF UvWorks
  <2>4. InstallersAreKnown'
    BY <2>1, <2>2, <2>3 DEF InstallersAreKnown
  <2>5. JournalIsOfRun'
    BY <2>1, <2>2, <2>3 DEF JournalIsOfRun, Transacting
  <2>6. StagesFit'
    BY <2>1, <2>2, <2>3 DEF StagesFit, LedgerMatches, Excused
  <2>7. OthersAgree'
    BY <2>1, <2>2, <2>3 DEF OthersAgree, Transacting
  <2>8. ChangesAreReal'
    BY <2>1, <2>2, <2>3 DEF ChangesAreReal, Asks, Target, Transacting
  <2>9. GoalIsInstalled'
    BY <2>1, <2>2, <2>3 DEF GoalIsInstalled, Reached, Excused, Outcomes
  <2>10. WriteAhead'
    BY <2>1, <2>2, <2>3 DEF WriteAhead, Excused
  <2> QED
    BY <1>1, <2>4, <2>5, <2>6, <2>7, <2>8, <2>9, <2>10
<1>23. ASSUME OrphanWorks PROVE LifecycleInv'
  <2>1. /\ Excused(orphan.dist) /\ orphan.dist \in orphaned
        /\ orphan' # NoUv => orphan'.dist = orphan.dist
        /\ \A d \in Dists \ {orphan.dist} : env'[d] = env[d]
    <3>1. PICK after \in UvType : Works(orphan, after) /\ orphan' = after
      BY <1>23 DEF OrphanWorks
    <3>2. orphan \in UvType /\ orphan # NoUv
      BY <3>1 DEF Works, TypeOK
    <3> QED
      BY <3>1, <3>2, WorksLocally DEF InstallersAreKnown, Excused
  <2>2. (run # Idle => run.dist \in Dists) /\ (journal # NoJournal =>
          journal.dist \in Dists)
    BY DEF TypeOK
  <2>3. UNCHANGED <<ledger, journal, run, uv, external>>
    BY <1>23 DEF OrphanWorks
  <2>4. InstallersAreKnown'
    BY <2>1, <2>2, <2>3 DEF InstallersAreKnown
  <2>5. JournalIsOfRun'
    BY <2>1, <2>2, <2>3 DEF JournalIsOfRun, Transacting
  <2>6. StagesFit'
    BY <2>1, <2>2, <2>3 DEF StagesFit, LedgerMatches, Excused
  <2>7. OthersAgree'
    BY <2>1, <2>2, <2>3 DEF OthersAgree, Transacting
  <2>8. ChangesAreReal'
    BY <2>1, <2>2, <2>3 DEF ChangesAreReal, Asks, Target, Transacting
  <2>9. GoalIsInstalled'
    BY <2>1, <2>2, <2>3 DEF GoalIsInstalled, Reached, Excused, Outcomes
  <2>10. WriteAhead'
    BY <2>1, <2>2, <2>3 DEF WriteAhead, Excused
  <2> QED
    BY <1>1, <2>4, <2>5, <2>6, <2>7, <2>8, <2>9, <2>10
<1>24. ASSUME OrphanEnds PROVE LifecycleInv'
  <2>1. InstallersAreKnown'
    BY <1>24 DEF OrphanEnds, InstallersAreKnown
  <2>2. JournalIsOfRun'
    BY <1>24 DEF OrphanEnds, JournalIsOfRun, Transacting
  <2>3. StagesFit'
    BY <1>24 DEF OrphanEnds, StagesFit, LedgerMatches, Excused
  <2>4. OthersAgree'
    BY <1>24 DEF OrphanEnds, OthersAgree, Transacting
  <2>5. ChangesAreReal'
    BY <1>24 DEF OrphanEnds, ChangesAreReal, Transacting
  <2>6. GoalIsInstalled'
    BY <1>24 DEF OrphanEnds, GoalIsInstalled, Reached, Outcomes, Excused
  <2>7. WriteAhead'
    BY <1>24 DEF OrphanEnds, WriteAhead
  <2> QED
    BY <1>1, <2>1, <2>2, <2>3, <2>4, <2>5, <2>6, <2>7
<1>25. ASSUME Crash PROVE LifecycleInv'
  <2>1. InstallersAreKnown'
    BY <1>25 DEF Crash, InstallersAreKnown
  <2>2. JournalIsOfRun'
    BY <1>25 DEF Crash, JournalIsOfRun, Transacting
  <2>3. StagesFit'
    BY <1>25 DEF Crash, StagesFit, LedgerMatches, Excused
  <2>4. OthersAgree'
    BY <1>25 DEF Crash, OthersAgree, Transacting
  <2>5. ChangesAreReal'
    BY <1>25 DEF Crash, ChangesAreReal, Transacting
  <2>6. GoalIsInstalled'
    BY <1>25 DEF Crash, GoalIsInstalled
  <2>7. WriteAhead'
    BY <1>25 DEF Crash, WriteAhead
  <2> QED
    BY <1>1, <2>1, <2>2, <2>3, <2>4, <2>5, <2>6, <2>7
<1>26. ASSUME NEW d \in Dists, Drift(d) PROVE LifecycleInv'
  <2>1. InstallersAreKnown'
    BY <1>26 DEF Drift, InstallersAreKnown
  <2>2. JournalIsOfRun'
    BY <1>26 DEF Drift, JournalIsOfRun, Transacting
  <2>3. StagesFit'
    BY <1>26 DEF Drift, StagesFit, LedgerMatches, Excused
  <2>4. OthersAgree'
    BY <1>26 DEF Drift, OthersAgree, Transacting
  <2>5. ChangesAreReal'
    BY <1>26 DEF Drift, ChangesAreReal, Transacting
  <2>6. GoalIsInstalled'
    BY <1>26 DEF Drift, GoalIsInstalled, Reached, Outcomes, Excused
  <2>7. WriteAhead'
    BY <1>26 DEF Drift, WriteAhead
  <2> QED
    BY <1>1, <2>1, <2>2, <2>3, <2>4, <2>5, <2>6, <2>7
<1>27. CASE UNCHANGED vars
  BY <1>27
    DEF vars, Asks, ChangesAreReal, Excused, GoalIsInstalled, InstallersAreKnown,
        JournalIsOfRun, LedgerMatches, OthersAgree, Outcomes, Reached, StagesFit,
        Target, Transacting, TypeOK, VersionOf, WriteAhead
<1> QED
  BY <1>2, <1>3, <1>4, <1>5, <1>6, <1>7, <1>8, <1>9, <1>10, <1>11, <1>12, <1>13,
     <1>14, <1>15, <1>16, <1>17, <1>18, <1>19, <1>20, <1>21, <1>22, <1>23, <1>24,
     <1>25, <1>26, <1>27
    DEF Next, Transact, Undo, Recover

\* Nothing is installed, journalled or running at first.
LEMMA InitLifecycle == Init => LifecycleInv
<1> SUFFICES ASSUME Init PROVE LifecycleInv
  OBVIOUS
<1>1. TypeOK
  BY DEF Init, TypeOK, LedgerType
<1>2. /\ InstallersAreKnown /\ JournalIsOfRun /\ StagesFit /\ OthersAgree
      /\ ChangesAreReal
  BY DEF Init, InstallersAreKnown, JournalIsOfRun, StagesFit, OthersAgree,
         ChangesAreReal, Transacting
<1>3. GoalIsInstalled /\ WriteAhead
  BY DEF Init, GoalIsInstalled, WriteAhead
<1> QED
  BY <1>1, <1>2, <1>3 DEF LifecycleInv

\* The invariant holds at every moment.
THEOREM LifecycleInvariantHolds == Spec => []LifecycleInv
BY InitLifecycle, NextLifecycle, PTL DEF Spec

\* The variables keep their types: in particular, no record that is not known to be
\* installed is ever written to the ledger.
THEOREM LifecycleTypeCorrect == Spec => []TypeOK
<1>1. LifecycleInv => TypeOK
  BY DEF LifecycleInv
<1> QED
  BY <1>1, LifecycleInvariantHolds, PTL

\* Whatever differs from the ledger is covered by a journal, at every moment and
\* after any crash (_run_install_transaction, remove, _recover_journal).
THEOREM WriteAheadHolds == Spec => []WriteAhead
<1>1. LifecycleInv => WriteAhead
  BY DEF LifecycleInv
<1> QED
  BY <1>1, LifecycleInvariantHolds, PTL

\* No command overwrites the record of another distribution with a stale copy.
THEOREM RecordsAreKept == Spec => OtherRecordsKept
<1>1. LifecycleInv /\ [Next]_vars =>
        [\A d \in Dists : ledger'[d] # ledger[d] => run # Idle /\ run.dist = d]_vars
  <2> SUFFICES ASSUME LifecycleInv, Next, NEW d \in Dists, ledger'[d] # ledger[d]
               PROVE  run # Idle /\ run.dist = d
    OBVIOUS
  <2>1. Commit \/ Restore \/ Settle
    BY DEF Next, Start, Transact, Prepare, MarkStarted, Mark, PipEnds, MarkFinished,
           Check, MarkChecked, MarkCommitted, Forget, Undo, Rollback, UndoEnds,
           Recheck, Unjournal, StartRecover, Recover, Decide, Refuse, Clear, UvWorks,
           OrphanWorks, OrphanEnds, Crash, Drift
  <2>2. run # Idle /\ ledger' \in {ledger, run.goal}
    BY <2>1 DEF Commit, Restore, Settle, At
  <2> QED
    BY <2>2 DEF LifecycleInv, OthersAgree
<1> QED
  BY <1>1, LifecycleInvariantHolds, PTL DEF Spec, OtherRecordsKept

\* recover never refuses an environment that is exactly as it was before the
\* transaction, at whichever stage that was interrupted.
THEOREM OldStateRecovered == Spec => OldStateIsRecoverable
<1>1. LifecycleInv /\ [Next]_vars =>
        [(\E passes \in BOOLEAN : Refuse(passes)) =>
            journal.dist \in outside \union orphaned \/ ~BeforeMatches]_vars
  <2> SUFFICES ASSUME LifecycleInv, NEW passes \in BOOLEAN, Refuse(passes),
                      ~Excused(journal.dist), BeforeMatches
               PROVE  FALSE
    BY DEF Excused
  <2>1. journal # NoJournal /\ journal \in JournalType
    BY DEF Refuse, At, LifecycleInv, JournalIsOfRun, TypeOK
  <2>2. CASE journal.stage = "prepared"
    BY <2>1, <2>2 DEF Refuse, Untouched, LifecycleInv, StagesFit
  <2>3. CASE journal.stage \in InDoubtStages
    BY <2>3 DEF Refuse, Forward, Backward
  <2>4. CASE journal.stage = "rollback_started"
    BY <2>4 DEF Refuse, RolledBack
  <2>5. CASE journal.stage = "ledger_committed"
    <3>1. LedgerMatches /\ env[journal.dist] = ledger[journal.dist]
      BY <2>1, <2>5 DEF LifecycleInv, StagesFit
    <3>2. ledger[journal.dist] = journal.before[journal.dist]
      BY <3>1 DEF BeforeMatches
    <3>3. journal.package # Absent
      BY <2>1 DEF JournalType
    <3>4. VersionOf(journal.before[journal.dist]) = Target(journal.op, journal.package)
      BY <3>1, <3>2, <3>3 DEF LedgerMatches, VersionOf, Target
    <3> QED
      BY <2>1, <3>4 DEF LifecycleInv, ChangesAreReal, Asks
  <2> QED
    BY <2>1, <2>2, <2>3, <2>4, <2>5 DEF JournalType, Stages, InDoubtStages
<1> QED
  BY <1>1, LifecycleInvariantHolds, PTL DEF Spec, OldStateIsRecoverable

-----------------------------------------------------------------------------
(* The refinement.                                                           *)

\* A transaction whose journal stays, or gives way to the memory of its command, is
\* in the same doubt.
LEMMA SameDoubt ==
    ASSUME TypeOK, TypeOK', journal # NoJournal,
           \/ /\ journal' # NoJournal
              /\ journal'.op = journal.op /\ journal'.dist = journal.dist
              /\ journal'.before = journal.before
              /\ journal'.package.version = journal.package.version
           \/ /\ journal' = NoJournal /\ run' # Idle
              /\ run'.op # "recover" /\ run'.step # "prepare"
              /\ run'.op = journal.op /\ run'.dist = journal.dist
              /\ run'.before = journal.before
              /\ run'.package.version = journal.package.version
    PROVE  UNCHANGED <<Store, Doubt>>
<1>1. UNCHANGED Store
  BY DEF Store, InDoubt, VersionsOf
<1>2. UNCHANGED Doubt
  BY DEF Doubt, InDoubt, Target
<1> QED
  BY <1>1, <1>2

\* A transaction that ends resolves the doubt, if its distribution's record is then
\* the old one or the one it asked for.
LEMMA Resolves ==
    ASSUME TypeOK,
           NEW d \in Dists, NEW target \in Versions \union {Absent}, NEW before \in LedgerType,
           Doubt = [dist |-> d, target |-> target], Store = VersionsOf(before),
           \A e \in Dists \ {d} : before[e] = ledger[e],
           VersionOf(ledger[d]) \in {VersionOf(before[d]), target},
           ledger' = ledger, journal' = NoJournal, run' = Idle
    PROVE  Promise!Resolve
<1>1. Doubt # NoDoubt /\ Doubt' = NoDoubt /\ Store' = VersionsOf(ledger)
  BY DEF Doubt, Store, InDoubt
<1>2. Doubt.dist = d /\ Doubt.target = target
  OBVIOUS
<1>3. CASE VersionOf(ledger[d]) = VersionOf(before[d])
  <2>1. VersionsOf(ledger) = VersionsOf(before)
    BY <1>3 DEF VersionsOf
  <2> QED
    BY <1>1, <2>1 DEF Promise!Resolve
<1>4. CASE VersionOf(ledger[d]) = target
  <2>1. VersionsOf(ledger) = [VersionsOf(before) EXCEPT ![d] = target]
    BY <1>4 DEF VersionsOf
  <2> QED
    BY <1>1, <1>2, <2>1 DEF Promise!Resolve
<1> QED
  BY <1>3, <1>4

\* While a journal is there, it says what is in doubt.
LEMMA JournalledDoubt ==
    ASSUME LifecycleInv, journal # NoJournal
    PROVE  /\ journal \in JournalType
           /\ Target(journal.op, journal.package) \in Versions \union {Absent}
           /\ Doubt = [dist |-> journal.dist, target |-> Target(journal.op, journal.package)]
           /\ Store = VersionsOf(journal.before)
           /\ \A e \in Dists \ {journal.dist} : journal.before[e] = ledger[e]
BY DEF LifecycleInv, TypeOK, JournalType, PackageType, Target, Doubt, Store, OthersAgree

\* A command that is about to roll back what no journal says any more has reached
\* its target.
LEMMA ForgottenDoubt ==
    ASSUME LifecycleInv, Transacting, run.step # "prepare", journal = NoJournal
    PROVE  /\ run \in RunType
           /\ Target(run.op, run.package) \in Versions \union {Absent}
           /\ Doubt = [dist |-> run.dist, target |-> Target(run.op, run.package)]
           /\ Store = VersionsOf(run.before)
           /\ \A e \in Dists \ {run.dist} : run.before[e] = ledger[e]
           /\ VersionOf(ledger[run.dist]) = Target(run.op, run.package)
<1>1. run \in RunType /\ run.op # "recover" /\ run.step = "rollback"
  BY DEF LifecycleInv, TypeOK, JournalIsOfRun, Transacting
<1>2. Target(run.op, run.package) \in Versions \union {Absent}
  BY <1>1 DEF RunType, PackageType, Target
<1>3. \A e \in Dists \ {run.dist} : run.before[e] = ledger[e]
  BY DEF LifecycleInv, OthersAgree
<1>4. VersionOf(ledger[run.dist]) = Target(run.op, run.package)
  BY <1>1 DEF LifecycleInv, GoalIsInstalled, Transacting
<1> QED
  BY <1>1, <1>2, <1>3, <1>4 DEF Doubt, Store, InDoubt, Transacting

\* Every step begins a change, resolves the one in doubt, or does neither.
LEMMA PromiseStep ==
    LifecycleInv /\ LifecycleInv' /\ [Next]_vars => [Promise!Next]_(Promise!vars)
<1> SUFFICES ASSUME LifecycleInv, LifecycleInv', [Next]_vars
             PROVE  Promise!Next \/ UNCHANGED <<Store, Doubt>>
  BY DEF Promise!vars
<1>1. TypeOK /\ TypeOK' /\ JournalIsOfRun /\ JournalIsOfRun'
  BY DEF LifecycleInv
<1>2. ASSUME journal' = journal, journal # NoJournal
      PROVE  UNCHANGED <<Store, Doubt>>
  BY <1>1, <1>2, SameDoubt
<1>3. ASSUME ~InDoubt, ~InDoubt', journal = NoJournal, journal' = NoJournal,
             ledger' = ledger
      PROVE  UNCHANGED <<Store, Doubt>>
  BY <1>3 DEF Store, Doubt
<1>4. ASSUME journal # NoJournal, journal' = NoJournal, run' = Idle,
             ledger' = ledger,
             VersionOf(ledger[journal.dist]) \in Outcomes
      PROVE  Promise!Next
  <2>1. journal.dist \in Dists /\ journal.before \in LedgerType
    BY <1>4, JournalledDoubt DEF JournalType
  <2>2. Promise!Resolve
    BY <1>1, <1>4, <2>1, JournalledDoubt, Resolves DEF Outcomes
  <2> QED
    BY <2>2 DEF Promise!Next
<1>5. ASSUME Transacting, run.step # "prepare", journal = NoJournal,
             journal' = NoJournal,
             run' = Idle, ledger' = ledger
      PROVE  Promise!Next
  <2>1. run.dist \in Dists /\ run.before \in LedgerType
    BY <1>5, ForgottenDoubt DEF RunType
  <2>2. Promise!Resolve
    BY <1>1, <1>5, <2>1, ForgottenDoubt, Resolves
  <2> QED
    BY <2>2 DEF Promise!Next
<1>6. ASSUME NEW stage \in Stages, journal' = Journaled(stage), Transacting,
             journal # NoJournal
      PROVE  UNCHANGED <<Store, Doubt>>
  <2>1. journal' # NoJournal
    BY <1>1, <1>6, JournaledTyped DEF TypeOK, Transacting
  <2>2. journal'.op = journal.op /\ journal'.dist = journal.dist
        /\ journal'.before = journal.before
        /\ journal'.package.version = journal.package.version
    BY <1>1, <1>6 DEF JournalIsOfRun, Journaled
  <2> QED
    BY <1>1, <1>6, <2>1, <2>2, SameDoubt
<1>7. ASSUME NEW op \in Ops, NEW d \in Dists, NEW v \in Versions, Start(op, d, v)
      PROVE  UNCHANGED <<Store, Doubt>>
  BY <1>3, <1>7 DEF Start, NoPendingJournal, InDoubt
<1>8. ASSUME Prepare
      PROVE  Promise!Next \/ UNCHANGED <<Store, Doubt>>
  <2>1. /\ run # Idle /\ run \in RunType /\ run.step = "prepare" /\ Transacting
        /\ journal = NoJournal
    BY <1>1, <1>8 DEF Prepare, At, TypeOK, JournalIsOfRun, Transacting
  <2>2. CASE journal' = journal /\ run' = Idle
    BY <1>3, <1>8, <2>1, <2>2 DEF Prepare, InDoubt
  <2>3. CASE journal' = Journaled("prepared")
    <3>1. journal' # NoJournal
      BY <2>1, <2>3, JournaledTyped DEF Transacting, Stages
    <3>2. /\ Doubt' = [dist |-> run.dist, target |-> Target(run.op, run.package)]
          /\ Store' = VersionsOf(run.before)
      BY <2>3, <3>1 DEF Doubt, Store, Journaled, Target
    <3>3. Doubt = NoDoubt /\ Store = VersionsOf(ledger) /\ ledger = run.before
      BY <2>1 DEF Doubt, Store, InDoubt, LifecycleInv, StagesFit
    <3>4. Target(run.op, run.package) # VersionsOf(ledger)[run.dist]
      BY <2>1, <3>3 DEF LifecycleInv, ChangesAreReal, Asks, VersionsOf, RunType
    <3>5. /\ run.dist \in Dists
          /\ Target(run.op, run.package) \in Versions \union {Absent}
      BY <2>1 DEF RunType, PackageType, Target
    <3>6. Promise!Begin(run.dist, Target(run.op, run.package))
      BY <3>2, <3>3, <3>4 DEF Promise!Begin
    <3> QED
      BY <3>5, <3>6 DEF Promise!Next, Promise!Targets
  <2> QED
    BY <1>8, <2>1, <2>2, <2>3 DEF Prepare
<1>9. ASSUME NEW step \in Steps \ {"prepare", "decide", "settle", "clear", "rollback"}, NEW stage \in Stages,
             NEW next \in Steps,
             Mark(step, stage, next)
      PROVE  UNCHANGED <<Store, Doubt>>
  <2>1. Transacting /\ journal # NoJournal
    BY <1>1, <1>9 DEF Mark, At, JournalIsOfRun, Transacting
  <2> QED
    BY <1>2, <1>6, <1>9, <2>1 DEF Mark
<1>10. ASSUME PipEnds \/ Check \/ Commit \/ UndoEnds \/ Recheck \/ Restore
       PROVE  UNCHANGED <<Store, Doubt>>
  <2>1. journal # NoJournal /\ journal' = journal
    BY <1>1, <1>10 DEF PipEnds, Check, Commit, UndoEnds, Recheck, Restore, At,
      JournalIsOfRun, Transacting
  <2> QED
    BY <1>2, <2>1
<1>11. ASSUME Forget
       PROVE  Promise!Next \/ UNCHANGED <<Store, Doubt>>
  <2>1. /\ run # Idle /\ run \in RunType /\ run.step = "forget" /\ Transacting
        /\ journal # NoJournal
        /\ journal.dist = run.dist /\ journal.op = run.op /\ journal.before = run.before
        /\ journal.package.version = run.package.version
    BY <1>1, <1>11 DEF Forget, At, TypeOK, JournalIsOfRun, Transacting
  <2>2. CASE journal' = NoJournal /\ run' = Idle
    <3>1. ledger = run.goal
          /\ run.goal[run.dist] = IF run.op = "remove" THEN Absent ELSE run.package
      BY <2>1 DEF LifecycleInv, GoalIsInstalled
    <3>2. run.package # Absent
      BY <2>1 DEF RunType
    <3>3. VersionOf(ledger[journal.dist]) \in Outcomes
      BY <2>1, <3>1, <3>2 DEF VersionOf, Target, Outcomes
    <3> QED
      BY <1>4, <1>11, <2>1, <2>2, <3>3 DEF Forget
  <2>3. CASE journal' = NoJournal /\ GoTo("rollback")
    <3>1. run' \in RunType
      BY <2>1, <2>3, Stepped DEF GoTo, Steps
    <3>2. /\ run'.op = run.op /\ run'.dist = run.dist /\ run'.before = run.before
          /\ run'.package = run.package /\ run'.step = "rollback"
      BY <2>1, <2>3 DEF GoTo, RunType
    <3> QED
      BY <1>1, <2>1, <2>3, <3>1, <3>2, SameDoubt DEF Transacting
  <2>4. CASE journal' = journal
    BY <1>2, <2>1, <2>4
  <2> QED
    BY <1>11, <2>2, <2>3, <2>4 DEF Forget
<1>12. ASSUME Rollback
       PROVE  Promise!Next \/ UNCHANGED <<Store, Doubt>>
  <2>1. run # Idle /\ run \in RunType /\ run.step = "rollback" /\ Transacting
    BY <1>1, <1>12 DEF Rollback, At, TypeOK, JournalIsOfRun, Transacting
  <2>2. CASE journal # NoJournal
    BY <1>2, <1>6, <1>12, <2>1, <2>2 DEF Rollback, Stages
  <2>3. CASE journal = NoJournal /\ journal' = NoJournal
    <3>1. Journaled("rollback_started") # NoJournal
      BY <2>1, JournaledTyped DEF Transacting, Stages
    <3> QED
      BY <1>5, <1>12, <2>1, <2>3, <3>1 DEF Rollback
  <2>4. CASE journal = NoJournal /\ journal' # NoJournal
    <3>1. journal' = Journaled("rollback_started")
      BY <1>12, <2>4 DEF Rollback
    <3>2. /\ Doubt' = [dist |-> run.dist, target |-> Target(run.op, run.package)]
          /\ Store' = VersionsOf(run.before)
      BY <2>4, <3>1 DEF Doubt, Store, Journaled, Target
    <3> QED
      BY <2>1, <2>4, <3>2, ForgottenDoubt
  <2> QED
    BY <2>2, <2>3, <2>4
<1>13. ASSUME Unjournal
       PROVE  Promise!Next \/ UNCHANGED <<Store, Doubt>>
  <2>1. run # Idle /\ run.step = "unjournal" /\ journal # NoJournal
        /\ journal.dist = run.dist /\ journal.before = run.before
    BY <1>1, <1>13 DEF Unjournal, At, TypeOK, JournalIsOfRun, Transacting
  <2>2. VersionOf(ledger[journal.dist]) \in Outcomes
    BY <2>1 DEF LifecycleInv, GoalIsInstalled, Outcomes
  <2> QED
    BY <1>2, <1>4, <1>13, <2>1, <2>2 DEF Unjournal
<1>14. ASSUME Clear
       PROVE  Promise!Next \/ UNCHANGED <<Store, Doubt>>
  <2>1. /\ run # Idle /\ run.step = "clear" /\ journal # NoJournal
        /\ journal.dist = run.dist
    BY <1>1, <1>14 DEF Clear, At, TypeOK, JournalIsOfRun, Transacting
  <2>2. VersionOf(ledger[journal.dist]) \in Outcomes
    BY <2>1 DEF LifecycleInv, GoalIsInstalled
  <2> QED
    BY <1>2, <1>4, <1>14, <2>1, <2>2 DEF Clear

<1>15. ASSUME \/ StartRecover \/ Settle
               \/ \E passes \in BOOLEAN : Decide(passes) \/ Refuse(passes)
       PROVE  UNCHANGED <<Store, Doubt>>
  <2>1. journal # NoJournal /\ journal' = journal
    BY <1>1, <1>15 DEF StartRecover, Settle, Decide, Refuse, At, JournalIsOfRun
  <2> QED
    BY <1>2, <2>1
<1>16. ASSUME UNCHANGED <<ledger, journal, run>>
       PROVE  UNCHANGED <<Store, Doubt>>
  BY <1>16 DEF Store, Doubt, InDoubt
<1>17. ASSUME Crash
       PROVE  Promise!Next \/ UNCHANGED <<Store, Doubt>>
  <2>1. run # Idle /\ run' = Idle /\ UNCHANGED <<ledger, journal>>
    BY <1>17 DEF Crash
  <2>2. CASE journal # NoJournal
    BY <1>2, <2>1, <2>2
  <2>3. CASE journal = NoJournal /\ run.step = "prepare"
    BY <1>3, <2>1, <2>3 DEF InDoubt
  <2>4. CASE journal = NoJournal /\ run.step # "prepare"
    <3>1. Transacting
      BY <1>1, <2>1, <2>4 DEF JournalIsOfRun, Transacting
    <3> QED
      BY <1>5, <2>1, <2>4, <3>1
  <2> QED
    BY <2>2, <2>3, <2>4

<1>18. ASSUME \/ UvWorks \/ OrphanWorks \/ OrphanEnds
               \/ (\E d \in Dists : Drift(d))
               \/ UNCHANGED vars
       PROVE  UNCHANGED <<Store, Doubt>>
  BY <1>16, <1>18 DEF UvWorks, OrphanWorks, OrphanEnds, Drift, vars
<1> QED
  BY <1>7, <1>8, <1>9, <1>10, <1>11, <1>12, <1>13, <1>14, <1>15, <1>17, <1>18
  DEF Next, Transact, Undo, Recover, MarkStarted, MarkFinished, MarkChecked,
      MarkCommitted, Steps, Stages

\* Managed installation keeps its promise, whatever fails or dies on the way: the
\* managed plugins change one at a time, as a whole or not at all (PluginStore).
THEOREM PromiseIsKept == Spec => PromiseKept
<1>1. Init => Promise!Init
  BY DEF Init, Promise!Init, Store, Doubt, InDoubt, VersionsOf, VersionOf
<1>2. LifecycleInv /\ LifecycleInv' /\ [Next]_vars => [Promise!Next]_(Promise!vars)
  BY PromiseStep
<1> QED
  BY <1>1, <1>2, LifecycleInvariantHolds, PTL DEF Spec, PromiseKept, Promise!Spec

\* What the user guide says of an environment without a journal is true as long as
\* no installer outlives the command that started it.
THEOREM RecoveredWithoutOrphans == ASSUME ~Orphans PROVE Spec => []RecoveredIsProven
<1>1. Init => orphaned = {}
  BY DEF Init
<1>2. orphaned = {} /\ [Next]_vars => (orphaned = {})'
  BY DEF Next, Start, Transact, Prepare, MarkStarted, PipEnds, MarkFinished, Check,
         MarkChecked, Commit, MarkCommitted, Forget, Mark, Undo, Rollback, UndoEnds, Recheck,
         Restore, Unjournal, StartRecover, Recover, Decide, Refuse, Settle, Clear,
         UvWorks, OrphanWorks, OrphanEnds, Crash, Drift, vars, external
<1>3. LifecycleInv /\ orphaned = {} => RecoveredIsProven
  BY DEF LifecycleInv, WriteAhead, RecoveredIsProven
<1> QED
  BY <1>1, <1>2, <1>3, LifecycleInvariantHolds, PTL DEF Spec

=============================================================================
