---------------------------- MODULE ResourceLease ----------------------------
(***************************************************************************)
(* Resource leases between processes: services/resource_lease.py over the   *)
(* kernel lock of services/file_lock.py.                                    *)
(*                                                                          *)
(* The kernel lock of a fingerprint's `.lock` file is the only fact of      *)
(* ownership; it is never waited for and goes with its process.  The        *)
(* sidecar metadata says who holds an exclusive lease, and is written,      *)
(* compared and removed in steps of their own.  Fingerprints are numbered   *)
(* in the order acquire_many sorts them; spellings of one resource are one  *)
(* fingerprint, so a request is a set.  A process makes one request: a      *)
(* later one has new lease IDs and is another process here.  The lock files *)
(* exist from earlier requests: nothing ever deletes one.                   *)
(***************************************************************************)
EXTENDS Integers, FiniteSets

CONSTANTS
    Procs,        \* processes
    Resources,    \* fingerprints, numbered in their order
    Modes,        \* lease modes the processes ask for
    NoOne,        \* no metadata
    Nowhere       \* no fingerprint

ASSUME LeaseAssumption ==
    /\ Resources \subseteq Nat /\ IsFiniteSet(Resources)
    /\ Modes \subseteq {"shared", "exclusive"}
    /\ NoOne \notin Procs
    /\ Nowhere \notin Resources

VARIABLES
    locks,    \* locks[r][p]: the mode in which p has the kernel lock of r
    meta,     \* the process the metadata of r names, or NoOne
    mode,     \* ResourceLease.mode of p's request
    wanted,   \* the fingerprints p asked for
    held,     \* the leases acquire_many has collected
    pc,       \* where p is
    at,       \* the fingerprint p locks, releases or probes
    fate,     \* how acquire_many ended for p
    luck      \* FALSE once a probe, a failed write or a crash has interfered

vars == <<locks, meta, mode, wanted, held, pc, at, fate, luck>>

Places == {"idle", "acquiring", "writing", "working", "unwinding", "unlinking",
           "unlocking", "probing", "done", "dead"}

TypeOK ==
    /\ locks \in [Resources -> [Procs -> {"free", "shared", "exclusive"}]]
    /\ meta \in [Resources -> Procs \union {NoOne}]
    /\ mode \in [Procs -> {"shared", "exclusive"}]
    /\ wanted \in [Procs -> SUBSET Resources]
    /\ held \in [Procs -> SUBSET Resources]
    /\ \A p \in Procs : held[p] \subseteq wanted[p]
    /\ pc \in [Procs -> Places]
    /\ at \in [Procs -> Resources \union {Nowhere}]
    /\ fate \in [Procs -> {"open", "won", "lost"}]
    /\ luck \in BOOLEAN

Init ==
    /\ locks = [r \in Resources |-> [p \in Procs |-> "free"]]
    /\ meta = [r \in Resources |-> NoOne]
    /\ mode \in [Procs -> Modes]
    /\ wanted = [p \in Procs |-> {}]
    /\ held = [p \in Procs |-> {}]
    /\ pc = [p \in Procs |-> "idle"]
    /\ at = [p \in Procs |-> Nowhere]
    /\ fate = [p \in Procs |-> "open"]
    /\ luck = TRUE

Go(p, place) == pc' = [pc EXCEPT ![p] = place]

Pick(p, r) == at' = [at EXCEPT ![p] = r]

-----------------------------------------------------------------------------
(* The kernel lock of FileLock: non-blocking, shared or exclusive, one per   *)
(* open file, so that a process conflicts with itself too.                   *)

\* Mutant: an exclusive request settles for a lock that is shared already.
SharedIsFree(r, m) ==
    \A q \in Procs : locks[r][q] # "exclusive"

Lockable(r, m) ==
    \A q \in Procs :
        \/ locks[r][q] = "free"
        \/ m = "shared" /\ locks[r][q] = "shared"

Lock(p, r, m) == locks' = [locks EXCEPT ![r][p] = m]

-----------------------------------------------------------------------------
(* acquire_many                                                              *)

Request(p, resources) ==
    /\ pc[p] = "idle"
    /\ resources # {}
    /\ wanted' = [wanted EXCEPT ![p] = resources]
    /\ Go(p, "acquiring")
    /\ UNCHANGED <<locks, meta, mode, held, at, fate, luck>>

\* Mutant: a batch takes every resource it knows of.
EveryResource(p) == Resources \ held[p]

Missing(p) == wanted[p] \ held[p]

\* Mutant: the leases are taken in the order of the request, any order.
AnyOrder(p, r) == r \in Missing(p)

\* leases.sort: the least fingerprint first.
NextInOrder(p, r) == r \in Missing(p) /\ \A q \in Missing(p) : r <= q

\* lease.acquire up to the metadata.
TryLock(p, r) ==
    /\ pc[p] = "acquiring"
    /\ NextInOrder(p, r)
    /\ Lockable(r, mode[p])
    /\ Lock(p, r, mode[p])
    /\ Pick(p, r)
    /\ Go(p, "writing")
    /\ UNCHANGED <<meta, mode, wanted, held, fate, luck>>

\* ResourceBusyError, or a lock file that cannot be opened or locked: what was
\* collected is released again.
FindBusy(p, r) ==
    /\ pc[p] = "acquiring"
    /\ NextInOrder(p, r)
    /\ \/ ~Lockable(r, mode[p]) /\ UNCHANGED luck
       \/ luck' = FALSE
    /\ fate' = [fate EXCEPT ![p] = "lost"]
    /\ Go(p, "unwinding")
    /\ UNCHANGED <<locks, meta, mode, wanted, held, at>>

\* _write_metadata; the last lease completes the batch.
WriteMetadata(p) ==
    LET r == at[p]
        last == Missing(p) = {r}
    IN  /\ pc[p] = "writing"
        /\ meta' = [meta EXCEPT ![r] = p]
        /\ held' = [held EXCEPT ![p] = @ \union {r}]
        /\ fate' = IF last THEN [fate EXCEPT ![p] = "won"] ELSE fate
        /\ Pick(p, Nowhere)
        /\ Go(p, IF last THEN "working" ELSE "acquiring")
        /\ UNCHANGED <<locks, mode, wanted, luck>>

\* The write raises, before or after it took effect: acquire releases this lease,
\* which is not collected yet, and acquire_many then releases the others.
FailMetadata(p) ==
    /\ pc[p] = "writing"
    /\ meta' \in {meta, [meta EXCEPT ![at[p]] = p]}
    /\ fate' = [fate EXCEPT ![p] = "lost"]
    /\ luck' = FALSE
    /\ Go(p, "unwinding")
    /\ UNCHANGED <<locks, mode, wanted, held, at>>

\* The sessions are closed and the batch is given back.
EndWork(p) ==
    /\ pc[p] = "working"
    /\ Go(p, "unwinding")
    /\ UNCHANGED <<locks, meta, mode, wanted, held, at, fate, luck>>

-----------------------------------------------------------------------------
(* release, for the lease that failed and then for each collected one, in    *)
(* reverse order.                                                            *)

ToRelease(p, r) ==
    \/ at[p] = r
    \/ at[p] = Nowhere /\ r \in held[p] /\ \A q \in held[p] : q <= r

\* _remove_own_metadata compares the lease ID.
OwnMetadata(p, r) == meta[r] = p

ReadMetadata(p, r) ==
    /\ pc[p] = "unwinding"
    /\ ToRelease(p, r)
    /\ Pick(p, r)
    /\ Go(p, IF OwnMetadata(p, r) THEN "unlinking" ELSE "unlocking")
    /\ UNCHANGED <<locks, meta, mode, wanted, held, fate, luck>>

Unlink(p) ==
    /\ pc[p] = "unlinking"
    /\ meta' = [meta EXCEPT ![at[p]] = NoOne]
    /\ Go(p, "unlocking")
    /\ UNCHANGED <<locks, mode, wanted, held, at, fate, luck>>

Unlock(p) ==
    /\ pc[p] = "unlocking"
    /\ Lock(p, at[p], "free")
    /\ held' = [held EXCEPT ![p] = @ \ {at[p]}]
    /\ Pick(p, Nowhere)
    /\ Go(p, "unwinding")
    /\ UNCHANGED <<meta, mode, wanted, fate, luck>>

AllFree(p) == [r \in Resources |-> [locks[r] EXCEPT ![p] = "free"]]

\* The unlink raises.  In the loop over the collected leases this lock is freed,
\* the loop ends, and the other files are closed when the abandoned leases are
\* collected.  For the lease that failed to write, the loop is still to come.
FailUnlink(p) ==
    /\ pc[p] = "unlinking"
    /\ IF at[p] \in held[p]
       THEN /\ locks' = AllFree(p)
            /\ held' = [held EXCEPT ![p] = {}]
            /\ Go(p, "done")
       ELSE /\ Lock(p, at[p], "free")
            /\ Go(p, "unwinding")
            /\ UNCHANGED held
    /\ luck' = FALSE
    /\ Pick(p, Nowhere)
    /\ UNCHANGED <<meta, mode, wanted, fate>>

\* Mutant: one failed lease ends the request without unwinding the others.
FinishEarly(p) ==
    /\ pc[p] = "unwinding"
    /\ Go(p, "done")
    /\ UNCHANGED <<locks, meta, mode, wanted, held, at, fate, luck>>

Finish(p) ==
    /\ pc[p] = "unwinding" /\ held[p] = {} /\ at[p] = Nowhere
    /\ Go(p, "done")
    /\ UNCHANGED <<locks, meta, mode, wanted, held, at, fate, luck>>

-----------------------------------------------------------------------------
(* status and clear_stale_metadata take the lock exclusively for a moment.   *)

Probe(p, r) ==
    /\ pc[p] = "idle"
    /\ Lockable(r, "exclusive")
    /\ Lock(p, r, "exclusive")
    /\ Pick(p, r)
    /\ luck' = FALSE
    /\ Go(p, "probing")
    /\ UNCHANGED <<meta, mode, wanted, held, fate>>

\* Mutant: stale metadata is cleared without the lock.
ClearUnproven(p) ==
    /\ pc[p] = "idle"
    /\ \E r \in Resources : meta[r] # NoOne /\ meta' = [meta EXCEPT ![r] = NoOne]
    /\ UNCHANGED <<locks, mode, wanted, held, pc, at, fate, luck>>

\* clear_stale_metadata, once the lock has proved that nobody holds the lease.
ClearStale(p) ==
    /\ pc[p] = "probing"
    /\ meta[at[p]] # NoOne
    /\ meta' = [meta EXCEPT ![at[p]] = NoOne]
    /\ UNCHANGED <<locks, mode, wanted, held, pc, at, fate, luck>>

EndProbe(p) ==
    /\ pc[p] = "probing"
    /\ Lock(p, at[p], "free")
    /\ Pick(p, Nowhere)
    /\ Go(p, "idle")
    /\ UNCHANGED <<meta, mode, wanted, held, fate, luck>>

\* A process dies: the kernel frees its locks, its metadata stays behind.
Crash(p) ==
    /\ pc[p] \notin {"idle", "done", "dead"}
    /\ locks' = AllFree(p)
    /\ held' = [held EXCEPT ![p] = {}]
    /\ luck' = FALSE
    /\ Pick(p, Nowhere)
    /\ Go(p, "dead")
    /\ UNCHANGED <<meta, mode, wanted, fate>>

-----------------------------------------------------------------------------

Acquire(p) ==
    \/ \E r \in Resources : TryLock(p, r) \/ FindBusy(p, r)
    \/ WriteMetadata(p) \/ FailMetadata(p)

Release(p) ==
    \/ EndWork(p)
    \/ \E r \in Resources : ReadMetadata(p, r)
    \/ Unlink(p) \/ FailUnlink(p) \/ Unlock(p) \/ Finish(p)

Inspect(p) == (\E r \in Resources : Probe(p, r)) \/ ClearStale(p) \/ EndProbe(p)

Next ==
    \E p \in Procs :
        \/ \E resources \in SUBSET Resources : Request(p, resources)
        \/ Acquire(p) \/ Release(p) \/ Inspect(p) \/ Crash(p)

Spec == Init /\ [][Next]_vars

-----------------------------------------------------------------------------
(* Correctness.                                                              *)

\* Two sessions work on one resource at a time only if both share it
\* (acquire_many; the kernel lock).
WorkIsExclusive ==
    \A p, q \in Procs :
        /\ p # q
        /\ pc[p] = "working" /\ pc[q] = "working"
        /\ wanted[p] \intersect wanted[q] # {}
        => mode[p] = "shared" /\ mode[q] = "shared"

\* While an exclusive session works, the metadata of each of its resources names
\* it, whatever other processes inspect, clear or give up (clear_stale_metadata,
\* _remove_own_metadata).
MetadataNamesHolder ==
    \A p \in Procs :
        pc[p] = "working" /\ mode[p] = "exclusive" =>
            \A r \in wanted[p] : meta[r] = p

\* Because every batch is taken in one order, a contest has a winner: when all
\* who asked have been answered, not all of them have lost, unless a probe, a
\* failed write or a crash interfered (acquire_many sorts).
SomeoneWins ==
    luck /\ (\E p \in Procs : fate[p] = "lost") =>
        \E p \in Procs : fate[p] # "lost" /\ pc[p] # "idle"

\* A request that is over, granted or refused, keeps no lock (hold_many, the
\* unwinding of acquire_many).
NothingIsKept ==
    \A p \in Procs, r \in Resources : pc[p] \in {"done", "dead"} => locks[r][p] = "free"

\* The resources a process works on; the batch is out from the last metadata write
\* of acquire_many to the first step of its release.
Batch == [p \in Procs |-> IF pc[p] = "working" THEN wanted[p] ELSE {}]

\* The leases as the sessions see them.
Promise == INSTANCE LeaseTable WITH batch <- Batch, named <- meta

\* Lock by lock, in order, with metadata beside it and every failure unwound, a
\* batch is all or nothing to everybody else (acquire_many, release).
PromiseKept == Promise!Spec

-----------------------------------------------------------------------------
(* The inductive invariant.                                                  *)

\* An exclusive lock is alone.
LocksAgree ==
    \A r \in Resources, p, q \in Procs :
        p # q /\ locks[r][p] = "exclusive" => locks[r][q] = "free"

\* A process has the lock of every lease it has collected and of the one it is
\* at, and no other.
LocksAreKnown ==
    \A p \in Procs :
        /\ pc[p] \in {"writing", "unlinking", "unlocking", "probing"} => at[p] # Nowhere
        /\ pc[p] \in {"idle", "acquiring", "working", "done", "dead"} => at[p] = Nowhere
        /\ pc[p] \in {"idle", "probing", "done", "dead"} => held[p] = {}
        /\ \A r \in held[p] : locks[r][p] = mode[p]
        /\ at[p] # Nowhere =>
              locks[at[p]][p] = IF pc[p] = "probing" THEN "exclusive" ELSE mode[p]
        /\ \A r \in Resources : locks[r][p] # "free" => r \in held[p] \/ r = at[p]

\* What is collected was asked for, and work begins when nothing is missing.
BatchIsWhole ==
    \A p \in Procs :
        /\ at[p] # Nowhere /\ pc[p] # "probing" => at[p] \in wanted[p]
        /\ pc[p] = "working" => held[p] = wanted[p]

\* An exclusive request has its name in the metadata of what it has collected.
MetadataIsOwn ==
    \A p \in Procs :
        pc[p] \in {"acquiring", "writing", "working"} /\ mode[p] = "exclusive" =>
            \A r \in held[p] : meta[r] = p

LockInv ==
    /\ TypeOK
    /\ LocksAgree
    /\ LocksAreKnown
    /\ BatchIsWhole
    /\ MetadataIsOwn

\* How a request ended follows from where its process is; a probe and a crash
\* are not lucky.
FatesKnown ==
    \A p \in Procs :
        /\ pc[p] \in {"idle", "acquiring", "writing", "probing"} => fate[p] = "open"
        /\ pc[p] = "working" => fate[p] = "won"
        /\ pc[p] \in {"unwinding", "unlinking", "unlocking", "done"} => fate[p] # "open"
        /\ luck => pc[p] \notin {"probing", "dead"}

\* What a process has collected precedes what it still has to lock, and the lock
\* it writes the metadata for is the next in order.
InOrder(p) ==
    /\ pc[p] \in {"acquiring", "writing"} => \A h \in held[p], m \in Missing(p) : h < m
    /\ pc[p] = "writing" => NextInOrder(p, at[p])

TakenInOrder == \A p \in Procs : InOrder(p)

\* The fingerprints a process has locked for its request; all of them once it won.
Reached(p) ==
    IF fate[p] = "won" THEN wanted[p] ELSE held[p] \union ({at[p]} \ {Nowhere})

InContest(q) == fate[q] # "lost" /\ pc[q] # "idle"

\* Beyond every lock that a loser has still to give up, somebody who has not lost
\* has reached a later fingerprint.
LosersAreBehind ==
    luck =>
        \A p \in Procs : fate[p] = "lost" =>
            /\ \E q \in Procs : InContest(q)
            /\ \A r \in Resources : locks[r][p] # "free" =>
                  \E q \in Procs : InContest(q) /\ \E s \in Reached(q) : r < s

ContestInv == FatesKnown /\ TakenInOrder /\ LosersAreBehind

LeaseInv == LockInv /\ ContestInv

=============================================================================
