----------------------------- MODULE Lifecycle -----------------------------
(***************************************************************************)
(* The life of the shared cache (lib/ssd_cache_api.c on lib/shm.c and      *)
(* lib/atomic.c): servers create, publish and take down a segment of       *)
(* shared memory, users link to it and leave, and any process may die at   *)
(* any step.  A process does init ... exit as server() does in             *)
(* examples/8_command_line.c, or link ... unlink as client() does there,   *)
(* and is gone when its init or link failed or its exit or unlink is over. *)
(*                                                                         *)
(* An access to the segment is a step, with what its process does on its   *)
(* own before the next one; taking the lock includes the look at the count *)
(* that follows it, and storing the count the release.  The name of the    *)
(* segment and its memory have separate lives: an unlinked segment stays   *)
(* mapped where it is mapped.  What init_mapping builds and the workers    *)
(* move is in Mapping; here a migration is only under way or not.          *)
(*                                                                         *)
(* Ghosts: lost counts the users of a segment that died without unlinking, *)
(* and scars are what has gone wrong with it, see the properties.          *)
(***************************************************************************)
EXTENDS Integers, FiniteSets

CONSTANTS
  Admins,       \* the processes that init and exit
  Users,        \* those that link and unlink
  Segs,         \* bound: segments that exist at a time
  COUNT_MOD,    \* cache_state.count is an unsigned: it wraps there
  MaxCrashes,   \* bound
  NoSeg, NoProc

ASSUME LifecycleAssumption ==
  /\ NoSeg \notin Segs /\ NoProc \notin Admins
  /\ Admins \cap Users = {} /\ IsFiniteSet(Users)
  /\ COUNT_MOD \in Nat /\ COUNT_MOD > Cardinality(Users)
  /\ MaxCrashes \in Nat

Procs == Admins \cup Users

VARIABLES
  name,     \* the segment that SHM_CACHE_NAME refers to
  seg,      \* the segments
  proc,     \* where each process is; at: its shared_cache; tmp: a register
  thread,   \* the migration thread of each server
  crashes

vars == <<name, seg, proc, thread, crashes>>

Scars == {"renamed",   \* its name was taken from it
          "twice",     \* two processes initialise it
          "wiped",     \* its count was cleared when users were counted
          "late",      \* a user was counted after the last look of exit
          "died",      \* the process with its worker died
          "stuck",     \* a process died holding its lock
          "cut"}       \* a migration was ended half-way

\* worker: mg_worker, of which only the process it belongs to matters.
Zeroed == [running |-> FALSE, count |-> 0, locked |-> FALSE, worker |-> NoProc,
           lost |-> 0, scars |-> {}]

Gone == [pc |-> "gone", at |-> NoSeg, tmp |-> 0]

Init ==
  /\ name = NoSeg
  /\ seg = [s \in Segs |-> Zeroed]
  /\ proc = [p \in Procs |-> [Gone EXCEPT !.pc = "idle"]]
  /\ thread = [a \in Admins |-> "none"]
  /\ crashes = 0

-----------------------------------------------------------------------------
pc(p) == proc[p].pc
At(p) == proc[p].at
cache(p) == seg[At(p)]

goes(p, from, to) == pc(p) = from /\ proc' = [proc EXCEPT ![p].pc = to]

set(p, r) == seg' = [seg EXCEPT ![At(p)] = r]

\* Nothing is claimed of a segment that two processes initialise.
scarred(r, cond, what) ==
  [r EXCEPT !.scars = CASE "twice" \in @ \/ ~cond -> @
                        [] what = "twice" /\ cond -> {"twice"}
                        [] OTHER -> @ \cup {what}]

\* The users that the count stands for.
Linked(s) == {p \in Users : At(p) = s /\ pc(p) \in {"using", "u_lock", "u_store"}}

InsideLock == {"l_store", "u_store", "busy", "over"}

-----------------------------------------------------------------------------
(* lib/shm.c: names and memory. *)

Unused(procs, n) == {s \in Segs : s # n /\ \A p \in procs : At(p) # s}

\* Memory that has neither a name nor a process that maps it is freed.
keep(f, procs, n) == [s \in Segs |-> IF s \in Unused(procs, n) THEN Zeroed ELSE f[s]]

\* The process ends with r in its segment.
leaves(p, r) ==
  /\ proc' = [proc EXCEPT ![p] = Gone]
  /\ seg' = keep([seg EXCEPT ![At(p)] = r], Procs \ {p}, name)
  /\ UNCHANGED name

\* shm_open with O_CREAT, ftruncate and mmap: the segment of that name, or a
\* new one, which is zero-filled.
alloc_shm(p, from, to) ==
  /\ pc(p) = from
  /\ name # NoSeg \/ Unused(Procs, name) # {}
  /\ LET s == IF name # NoSeg THEN name ELSE CHOOSE s \in Unused(Procs, name) : TRUE
     IN /\ name' = s
        /\ proc' = [proc EXCEPT ![p].pc = to, ![p].at = s]
  /\ UNCHANGED <<seg, thread, crashes>>

\* Without O_CREAT; the call fails, and changes nothing, where the name does
\* not exist.
link_shm(p, from, to) ==
  /\ pc(p) = from
  /\ name # NoSeg
  /\ proc' = [proc EXCEPT ![p].pc = to, ![p].at = name]
  /\ UNCHANGED <<name, seg, thread, crashes>>

\* The name goes, whichever segment it refers to; procs are those that still
\* map memory.
unlink_shm(procs, byOwner) ==
  /\ name' = NoSeg
  /\ seg' = keep([s \in Segs |-> scarred(seg[s], s = name /\ ~byOwner, "renamed")],
                 procs, NoSeg)

-----------------------------------------------------------------------------
(* lib/atomic.c: the lock word of a segment. *)

\* The iteration that wins the exchange; the others change nothing.
spinlock_lock(p, from) ==
  /\ pc(p) = from
  /\ ~cache(p).locked
  /\ set(p, [cache(p) EXCEPT !.locked = TRUE])

unlocked(r) == [r EXCEPT !.locked = FALSE]

-----------------------------------------------------------------------------
(* init_ssd_cache *)

\* All callers call force_exit_ssd_cache before init.  shared_cache is still NULL,
\* so shutdown_mg_worker does nothing and only the name goes.
force_exit_ssd_cache(p) ==
  /\ goes(p, "idle", "init")
  /\ unlink_shm(Procs, FALSE)
  /\ UNCHANGED <<thread, crashes>>

CallInit(p) ==
  /\ goes(p, "idle", "init")
  /\ UNCHANGED <<name, seg, thread, crashes>>

\* As if a server that was refused removed the segment (mutant).
Check_removes(p) ==
  /\ pc(p) = "check"
  /\ \/ ~cache(p).running /\ goes(p, "check", "build") /\ UNCHANGED <<name, seg>>
     \/ /\ cache(p).running
        /\ proc' = [proc EXCEPT ![p] = Gone]
        /\ unlink_shm(Procs \ {p}, TRUE)
  /\ UNCHANGED <<thread, crashes>>

\* The running check; init_spdk, the size check and the allocations in
\* init_mapping may fail as well.
Check(p) ==
  /\ pc(p) = "check"
  /\ \/ ~cache(p).running /\ goes(p, "check", "build") /\ UNCHANGED <<name, seg>>
     \/ leaves(p, cache(p))
  /\ UNCHANGED <<thread, crashes>>

\* init_mapping builds an empty table; the work queue is as it was found.  The
\* result of wakeup_mg_worker is not looked at: where mg_worker is set no thread
\* is created.
Build(p) ==
  LET again == \/ cache(p).running
               \/ \E q \in Admins : At(q) = At(p) /\ pc(q) = "publish"
      r == scarred(cache(p), again, "twice")
  IN /\ goes(p, "build", "publish")
     /\ \/ /\ r.worker = NoProc
           /\ set(p, [r EXCEPT !.worker = p])
           /\ thread' = [thread EXCEPT ![p] = "idle"]
        \/ /\ r.worker # NoProc
           /\ set(p, r)
           /\ UNCHANGED thread
     /\ UNCHANGED <<name, crashes>>

\* Nobody looks at the lock before running is set, but in a segment that two
\* processes initialise.
Publish(p) ==
  /\ goes(p, "publish", "clear")
  /\ set(p, [unlocked(cache(p)) EXCEPT !.running = TRUE])
  /\ UNCHANGED <<name, thread, crashes>>

\* The count is cleared after running was set, and without the lock.
ClearCount(p) ==
  /\ goes(p, "clear", "serving")
  /\ set(p, scarred([cache(p) EXCEPT !.count = 0], cache(p).count # 0, "wiped"))
  /\ UNCHANGED <<name, thread, crashes>>

-----------------------------------------------------------------------------
(* link_ssd_cache and unlink_ssd_cache *)

\* The running check; init_spdk may fail as well.
LinkCheck(p) ==
  /\ pc(p) = "l_check"
  /\ \/ cache(p).running /\ goes(p, "l_check", "l_lock") /\ UNCHANGED <<name, seg>>
     \/ leaves(p, cache(p))
  /\ UNCHANGED <<thread, crashes>>

\* count++ and count-- load, then store.
LockAndLoad(p, from, to) ==
  /\ spinlock_lock(p, from)
  /\ proc' = [proc EXCEPT ![p].pc = to, ![p].tmp = cache(p).count]
  /\ UNCHANGED <<name, thread, crashes>>

\* A server that has still to look at the count before it stops.
WillLook(s) ==
  \E q \in Admins :
    At(q) = s /\ pc(q) \in {"publish", "clear", "serving", "x_lock", "busy"}

\* As if init_spdk came after the count and could fail then (mutant).
LinkStore_too_early(p) ==
  /\ pc(p) = "l_store"
  /\ set(p, [unlocked(cache(p)) EXCEPT !.count = (proc[p].tmp + 1) % COUNT_MOD])
  /\ \/ proc' = [proc EXCEPT ![p] = [Gone EXCEPT !.pc = "using", !.at = At(p)]]
     \/ proc' = [proc EXCEPT ![p] = Gone]
  /\ UNCHANGED <<name, thread, crashes>>

LinkStore(p) ==
  /\ pc(p) = "l_store"
  /\ proc' = [proc EXCEPT ![p].pc = "using", ![p].tmp = 0]
  /\ set(p, scarred([unlocked(cache(p)) EXCEPT !.count = (proc[p].tmp + 1) % COUNT_MOD],
                    ~WillLook(At(p)), "late"))
  /\ UNCHANGED <<name, thread, crashes>>

CallUnlink(p) ==
  /\ goes(p, "using", "u_lock")
  /\ cache(p).running
  /\ UNCHANGED <<name, seg, thread, crashes>>

\* As if the count were signed (mutant).
decremented_signed(n) == n - 1

decremented(n) == (n + COUNT_MOD - 1) % COUNT_MOD

\* As if the lock were not released (mutant).
UnlinkStore_keeps_lock(p) ==
  /\ pc(p) = "u_store"
  /\ leaves(p, [cache(p) EXCEPT !.count = decremented(proc[p].tmp)])
  /\ UNCHANGED <<thread, crashes>>

\* ... and unmap.
UnlinkStore(p) ==
  /\ pc(p) = "u_store"
  /\ leaves(p, [unlocked(cache(p)) EXCEPT !.count = decremented(proc[p].tmp)])
  /\ UNCHANGED <<thread, crashes>>

-----------------------------------------------------------------------------
(* exit_ssd_cache *)

CallExit(p) ==
  /\ goes(p, "serving", "x_lock")
  /\ UNCHANGED <<name, seg, thread, crashes>>

\* As if the admin were counted (mutant).
Look_with_admin(p) ==
  /\ spinlock_lock(p, "x_lock")
  /\ proc' = [proc EXCEPT ![p].pc = IF cache(p).count <= 1 THEN "over" ELSE "busy"]
  /\ UNCHANGED <<name, thread, crashes>>

Look(p) ==
  /\ spinlock_lock(p, "x_lock")
  /\ proc' = [proc EXCEPT ![p].pc = IF cache(p).count <= 0 THEN "over" ELSE "busy"]
  /\ UNCHANGED <<name, thread, crashes>>

\* As if the name were removed before the worker is stopped (mutant).
LookAgain_unlinks(p) ==
  /\ \/ goes(p, "busy", "x_lock") /\ UNCHANGED name
     \/ goes(p, "over", "stop") /\ name' = NoSeg
  /\ set(p, unlocked(cache(p)))
  /\ UNCHANGED <<thread, crashes>>

LookAgain(p) ==
  /\ goes(p, "busy", "x_lock") \/ goes(p, "over", "stop")
  /\ set(p, unlocked(cache(p)))
  /\ UNCHANGED <<name, thread, crashes>>

\* shutdown_mg_worker: cancel, and wait in join.  mg_worker means nothing in a
\* process that did not create it, where pthread_cancel fails or crashes.
Stop(p) ==
  /\ pc(p) = "stop"
  /\ \/ cache(p).worker = p /\ goes(p, "stop", "join") /\ UNCHANGED <<name, seg, thread>>
     \/ cache(p).worker = NoProc /\ goes(p, "stop", "unmap") /\ UNCHANGED <<name, seg, thread>>
     \/ /\ cache(p).worker \notin {p, NoProc}
        /\ \/ /\ goes(p, "stop", "unmap")
              /\ set(p, [cache(p) EXCEPT !.worker = NoProc])
              /\ UNCHANGED <<name, thread>>
           \/ leaves(p, cache(p)) /\ thread' = [thread EXCEPT ![p] = "none"]
  /\ UNCHANGED crashes

Join(p) ==
  /\ goes(p, "join", "unmap")
  /\ thread[p] = "none"
  /\ set(p, [cache(p) EXCEPT !.worker = NoProc])
  /\ UNCHANGED <<name, thread, crashes>>

\* exit_spdk, unmap_shm and unlink_shm.  A thread that was not stopped finds its
\* memory gone.
Unmap(p) ==
  /\ pc(p) = "unmap"
  /\ proc' = [proc EXCEPT ![p] = Gone]
  /\ unlink_shm(Procs \ {p}, name = At(p))
  /\ thread' = [thread EXCEPT ![p] = "none"]
  /\ UNCHANGED crashes

-----------------------------------------------------------------------------
(* The thread of a server: migration() *)

Migrate(p) ==
  /\ \/ thread[p] = "idle" /\ thread' = [thread EXCEPT ![p] = "moving"]
     \/ thread[p] = "moving" /\ thread' = [thread EXCEPT ![p] = "idle"]
  /\ UNCHANGED <<name, seg, proc, crashes>>

\* pthread_testcancel and nanosleep end it when there is nothing to do, but so
\* do open, pread, pwrite and close in mg_start.
Cancelled(p) ==
  /\ pc(p) = "join"
  /\ thread[p] # "none"
  /\ thread' = [thread EXCEPT ![p] = "none"]
  /\ set(p, scarred(cache(p), thread[p] = "moving", "cut"))
  /\ UNCHANGED <<name, proc, crashes>>

-----------------------------------------------------------------------------
\* A process dies: what it did to the segment stays, and so does the name.
Crash(p) ==
  LET holds == scarred(cache(p), pc(p) \in InsideLock, "stuck") IN
  /\ crashes < MaxCrashes
  /\ At(p) # NoSeg
  /\ crashes' = crashes + 1
  /\ \/ /\ p \in Users
        /\ leaves(p, [holds EXCEPT !.lost = IF p \in Linked(At(p)) THEN @ + 1 ELSE @])
        /\ UNCHANGED thread
     \/ /\ p \in Admins
        /\ leaves(p, scarred(holds, thread[p] # "none", "died"))
        /\ thread' = [thread EXCEPT ![p] = "none"]

-----------------------------------------------------------------------------
\* The calls a process may make; nothing obliges it to.
AdminCall(p) == force_exit_ssd_cache(p) \/ CallInit(p) \/ CallExit(p)

UserCall(p) == link_shm(p, "idle", "l_check") \/ CallUnlink(p)

\* The steps inside a call.
AdminStep(p) ==
  \/ alloc_shm(p, "init", "check")
  \/ Check(p) \/ Build(p) \/ Publish(p) \/ ClearCount(p)
  \/ Look(p) \/ LookAgain(p) \/ Stop(p) \/ Join(p) \/ Unmap(p)

UserStep(p) ==
  \/ LinkCheck(p) \/ LockAndLoad(p, "l_lock", "l_store") \/ LinkStore(p)
  \/ LockAndLoad(p, "u_lock", "u_store") \/ UnlinkStore(p)

Next ==
  \/ \E p \in Admins : AdminCall(p) \/ AdminStep(p) \/ Migrate(p) \/ Cancelled(p)
  \/ \E p \in Users : UserCall(p) \/ UserStep(p)
  \/ \E p \in Procs : Crash(p)

\* A live process goes on with the call it is in.  A cancelled thread does not
\* go on for good: a round that opens a file ends it, and demotions alone come
\* to an end.
Spec ==
  /\ Init /\ [][Next]_vars
  /\ \A p \in Admins : WF_vars(AdminStep(p)) /\ WF_vars(Cancelled(p))
  /\ \A p \in Users : WF_vars(UserStep(p))

-----------------------------------------------------------------------------
PCs == {"idle", "gone", "init", "check", "build", "publish", "clear", "serving",
        "l_check", "l_lock", "using", "u_lock", "x_lock", "stop", "join", "unmap"}
       \cup InsideLock

SegRecord ==
  [running : BOOLEAN, count : 0 .. COUNT_MOD - 1, locked : BOOLEAN,
   worker : Admins \cup {NoProc}, lost : 0 .. MaxCrashes, scars : SUBSET Scars]

ProcRecord == [pc : PCs, at : Segs \cup {NoSeg}, tmp : 0 .. COUNT_MOD - 1]

\* Every variable keeps its type, the count in spite of the users that leave
\* after it was wiped.
TypeOK ==
  /\ name \in Segs \cup {NoSeg}
  /\ seg \in [Segs -> SegRecord]
  /\ proc \in [Procs -> ProcRecord]
  /\ thread \in [Admins -> {"none", "idle", "moving"}]
  /\ crashes \in 0 .. MaxCrashes

Unharmed(s, by) == seg[s].scars \cap by = {}

\* exit decides by the count alone: it is the number of the users that are
\* linked or have died linked, however they interleave, unless two processes
\* initialised the segment or its init cleared the count under a user.
CountIsUsers ==
  \A s \in Segs :
    Unharmed(s, {"wiped", "twice"}) =>
      seg[s].count = (Cardinality(Linked(s)) + seg[s].lost) % COUNT_MOD

\* A user that is linked has a worker to promote what it misses, and no block
\* stays pending in its cache for good: exit waits for it.  The exceptions are
\* the users that link when exit has looked for the last time, those that init
\* forgot, a server that died and two servers on one segment.
Served ==
  \A p \in Users :
    pc(p) = "using" /\ Unharmed(At(p), {"late", "wiped", "died", "twice"}) =>
      /\ \E q \in Admins : At(q) = At(p) /\ thread[q] # "none" /\ pc(q) # "join"
      /\ Unharmed(At(p), {"cut"})

\* The name leads users to the server that is serving, unless a force_exit or
\* the exit of a server of another segment took it away: they remove the name
\* without looking what it stands for.
ServerIsNamed ==
  \A p \in Admins :
    pc(p) = "serving" /\ Unharmed(At(p), {"renamed", "twice"}) => name = At(p)

\* exit comes to an end unless the cache is in use, or was by a user that died,
\* or its count or its lock are damaged.
Exiting == {"x_lock", "busy", "over", "stop", "join", "unmap"}

Occupied(s) ==
  Linked(s) # {} \/ seg[s].lost > 0 \/ ~Unharmed(s, {"wiped", "twice", "stuck"})

ExitEnds == \A p \in Admins : []<>(pc(p) \in Exiting => Occupied(At(p)))

\* No two migration threads work on the one device, although a server only looks
\* at the segment that has the name: the old worker is gone before the name is,
\* unless a force_exit or another server's exit took the name from under it.
OneWorker ==
  \A p, q \in Admins :
    thread[p] # "none" /\ thread[q] # "none" =>
      p = q \/ ~Unharmed(At(p), {"renamed", "twice"}) \/ ~Unharmed(At(q), {"renamed", "twice"})

-----------------------------------------------------------------------------
(* What a comment in the code says, and the code does not keep.             *)

\* inc/cache.h:77: the count is the number of the processes in use, with the
\* admin.  Neither init nor link ever counts it.
CountIncludesAdmin ==
  \A p \in Admins :
    pc(p) = "serving" /\ Unharmed(At(p), {"wiped", "twice"}) =>
      cache(p).count = (1 + Cardinality(Linked(At(p))) + cache(p).lost) % COUNT_MOD
=============================================================================
