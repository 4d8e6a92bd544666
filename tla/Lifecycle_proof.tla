--------------------------- MODULE Lifecycle_proof ---------------------------
(***************************************************************************)
(* Proofs about Lifecycle, for any processes, segments, crashes and any    *)
(* width of the count that can hold the users.                             *)
(***************************************************************************)
EXTENDS Lifecycle, FiniteSetTheorems, TLAPS

\* Between a server's init_mapping and its unlink_shm.
Active == {"publish", "clear", "serving", "x_lock", "busy", "over", "stop", "join", "unmap"}

\* Those of them in which it has still to look at the count.
Looking == {"publish", "clear", "serving", "x_lock", "busy"}

Unmapped == {"idle", "gone", "init"}
Starting == {"check", "build"}
Counted == {"using", "u_lock", "u_store"}

GoneUsers == {u \in Users : pc(u) = "gone"}

\* A process maps a segment between its first and its last call, and only a
\* server in service has a thread.
WhereOK ==
  /\ \A p \in Procs : At(p) = NoSeg <=> pc(p) \in Unmapped
  /\ \A p \in Admins : /\ pc(p) \in Unmapped \cup Starting \cup Active
                       /\ thread[p] # "none" => pc(p) \in Active
  /\ \A p \in Users : pc(p) \in {"idle", "gone", "l_check", "l_lock", "l_store"} \cup Counted

\* The memory of a segment goes when nothing refers to it.
FreshOK(s) == s # name /\ (\A p \in Procs : At(p) # s) => seg[s] = Zeroed

\* running is set before anybody relies on it, and stays.
RunningOK(s) ==
  \A p \in Procs :
    At(p) = s /\ pc(p) \in Active \cup Counted \cup {"l_lock", "l_store"} =>
      seg[s].running \/ pc(p) = "publish"

LostOK(s) == seg[s].lost <= crashes /\ seg[s].lost <= Cardinality(GoneUsers)

\* One server is in service in a segment.
OwnerOK(s) ==
  \A p \in Admins :
    At(p) = s /\ pc(p) \in Active =>
      /\ pc(p) = "publish" => ~seg[s].running
      /\ \A q \in Admins : At(q) = s /\ pc(q) \in Active => p = q

\* It has the name; and so has one that starts, unless it is going to find the
\* segment in service.
NameOK(s) ==
  \A p \in Admins :
    At(p) = s /\ pc(p) \in Starting \cup Active =>
      name = s \/ (seg[s].running /\ pc(p) \in Starting)

\* The lock excludes.
LockOK(s) ==
  \A p \in Procs :
    At(p) = s /\ pc(p) \in InsideLock =>
      /\ seg[s].locked
      /\ \A q \in Procs : At(q) = s /\ pc(q) \in InsideLock => p = q

\* The register of a process that is changing the count is up to date.
TmpOK(s) ==
  \A p \in Users : At(p) = s /\ pc(p) \in {"l_store", "u_store"} => proc[p].tmp = seg[s].count

CountOK(s) == seg[s].count = Cardinality(Linked(s)) + seg[s].lost

WorkerOK(s) ==
  /\ \A p \in Admins :
       At(p) = s /\ pc(p) \in Active \ {"join", "unmap"} =>
         seg[s].worker = p /\ thread[p] # "none"
  /\ ~seg[s].running /\ (\A p \in Admins : At(p) = s => pc(p) # "publish") =>
       seg[s].worker = NoProc

\* Who is linked is looked for once more.
ServedOK(s) == Linked(s) # {} => WillLook(s)

CutOK(s) == "cut" \in seg[s].scars => seg[s].running /\ ~WillLook(s)

SegOK(s) ==
  /\ FreshOK(s) /\ RunningOK(s) /\ LostOK(s)
  /\ Unharmed(s, {"twice"}) => OwnerOK(s) /\ LockOK(s) /\ CutOK(s)
  /\ Unharmed(s, {"twice", "renamed"}) => NameOK(s)
  /\ Unharmed(s, {"twice", "wiped"}) => TmpOK(s) /\ CountOK(s)
  /\ Unharmed(s, {"twice", "died"}) => WorkerOK(s)
  /\ Unharmed(s, {"twice", "died", "wiped", "late"}) => ServedOK(s)

IInv == TypeOK /\ WhereOK /\ \A s \in Segs : SegOK(s)

-----------------------------------------------------------------------------
(* Records and sets. *)

LEMMA Constants ==
  /\ COUNT_MOD \in Nat /\ COUNT_MOD > 0
  /\ NoSeg \notin Segs /\ NoProc \notin Admins
  /\ \A p \in Admins : p \notin Users
  /\ IsFiniteSet(Users)
  /\ Cardinality(Users) \in Nat /\ Cardinality(Users) < COUNT_MOD
  BY LifecycleAssumption, FS_CardinalityType DEF LifecycleAssumption

LEMMA ZeroedType == Zeroed \in SegRecord
  BY Constants, LifecycleAssumption DEF LifecycleAssumption, Zeroed, SegRecord

LEMMA GoneType == Gone \in ProcRecord
  BY Constants DEF Gone, ProcRecord, PCs

\* What a scar changes: the scars, and nothing that was damaged is whole again.
LEMMA Scarred ==
  ASSUME NEW r \in SegRecord, NEW cond, NEW what \in Scars
  PROVE  LET n == scarred(r, cond, what) IN
         /\ n \in SegRecord
         /\ n.running = r.running /\ n.count = r.count /\ n.locked = r.locked
         /\ n.worker = r.worker /\ n.lost = r.lost
         /\ \A by : "twice" \in by /\ n.scars \cap by = {} =>
                      r.scars \cap by = {} /\ ~(cond /\ what \in by)
         /\ \A w : w # what /\ w \in n.scars => w \in r.scars
         /\ ~cond => n.scars = r.scars
  <1> DEFINE x == CASE "twice" \in r.scars \/ ~cond -> r.scars
                    [] what = "twice" /\ cond -> {"twice"}
                    [] OTHER -> r.scars \cup {what}
             n == scarred(r, cond, what)
  <1>1. n = [r EXCEPT !.scars = x]
    BY DEF scarred
  <1>2. x \in SUBSET Scars
    <2>1. r.scars \subseteq Scars
      BY DEF SegRecord
    <2> QED
      BY <2>1 DEF Scars
  <1>3. \A by : "twice" \in by /\ x \cap by = {} =>
                  r.scars \cap by = {} /\ ~(cond /\ what \in by)
    OBVIOUS
  <1>4. \A w : w # what /\ w \in x => w \in r.scars
    OBVIOUS
  <1>5. ~cond => x = r.scars
    OBVIOUS
  <1> HIDE DEF x
  <1>6. /\ n \in SegRecord /\ n.scars = x
        /\ n.running = r.running /\ n.count = r.count /\ n.locked = r.locked
        /\ n.worker = r.worker /\ n.lost = r.lost
    BY <1>1, <1>2 DEF SegRecord
  <1> HIDE DEF n
  <1> QED
    BY <1>3, <1>4, <1>5, <1>6 DEF n

LEMMA LinkedFinite ==
  ASSUME NEW s
  PROVE  /\ IsFiniteSet(Linked(s)) /\ Cardinality(Linked(s)) \in Nat
         /\ IsFiniteSet(GoneUsers) /\ Cardinality(GoneUsers) \in Nat
         /\ Cardinality(Linked(s)) + Cardinality(GoneUsers) < COUNT_MOD
  <1>1. Linked(s) \in SUBSET Users /\ GoneUsers \in SUBSET Users
    BY DEF Linked, GoneUsers
  <1>2. Linked(s) \cap GoneUsers = {}
    BY DEF Linked, GoneUsers
  <1>3. IsFiniteSet(Linked(s)) /\ IsFiniteSet(GoneUsers)
    BY <1>1, Constants, FS_Subset
  <1>4. /\ IsFiniteSet(Linked(s) \cup GoneUsers)
        /\ Cardinality(Linked(s) \cup GoneUsers) =
             Cardinality(Linked(s)) + Cardinality(GoneUsers) - Cardinality({})
    BY <1>2, <1>3, FS_Union
  <1>5. Cardinality(Linked(s) \cup GoneUsers) <= Cardinality(Users)
    BY <1>1, Constants, FS_Subset
  <1> QED
    BY <1>3, <1>4, <1>5, Constants, FS_EmptySet, FS_CardinalityType

-----------------------------------------------------------------------------
(* What a step does to the segments that it is not about. *)

\* seg[s] is as good as before, but perhaps for its name.
Kept(s) ==
  LET old == seg[s]
      new == seg'[s]
  IN /\ new.running = old.running /\ new.count = old.count /\ new.locked = old.locked
     /\ new.worker = old.worker /\ new.lost = old.lost
     /\ \A by : "twice" \in by /\ new.scars \cap by = {} => old.scars \cap by = {}
     /\ "cut" \in new.scars => "cut" \in old.scars
     /\ name = s /\ name' # s => ~(new.scars \cap {"twice", "renamed"} = {})

LEMMA Untouched ==
  ASSUME NEW s \in Segs, SegOK(s), FreshOK(s)', Kept(s),
         \A p \in Procs : At(p) = s \/ At(p)' = s => proc'[p] = proc[p],
         \A p \in Admins : At(p) = s => thread'[p] = thread[p],
         seg[s].lost \in Nat, crashes \in Nat, crashes' \in Nat, crashes <= crashes',
         GoneUsers \subseteq GoneUsers'
  PROVE  SegOK(s)'
  <1>1. \A p \in Procs : At(p)' = s <=> At(p) = s
    BY DEF At
  <1>2. \A p \in Procs : At(p)' = s => pc(p)' = pc(p) /\ proc'[p].tmp = proc[p].tmp
    BY DEF pc
  <1>3. Admins \subseteq Procs /\ Users \subseteq Procs
    BY DEF Procs
  <1>4. Linked(s)' = Linked(s)
    BY <1>1, <1>2, <1>3 DEF Linked
  <1>5. WillLook(s)' <=> WillLook(s)
    BY <1>1, <1>2, <1>3 DEF WillLook
  <1>6. RunningOK(s)'
    BY <1>1, <1>2 DEF SegOK, RunningOK, Kept
  <1>7. LostOK(s)'
    <2>1. /\ Cardinality(GoneUsers) \in Nat /\ Cardinality(GoneUsers)' \in Nat
          /\ Cardinality(GoneUsers) <= Cardinality(GoneUsers)'
      <3>1. GoneUsers' \in SUBSET Users /\ GoneUsers \in SUBSET GoneUsers'
        BY DEF GoneUsers
      <3>2. IsFiniteSet(GoneUsers')
        BY <3>1, Constants, FS_Subset
      <3> QED
        BY <3>1, <3>2, FS_Subset, FS_CardinalityType
    <2> QED
      BY <2>1 DEF SegOK, LostOK, Kept
  <1>8. ASSUME NEW by, "twice" \in by, Unharmed(s, by)' PROVE Unharmed(s, by)
    BY <1>8 DEF Unharmed, Kept
  <1>9. OwnerOK(s) => OwnerOK(s)'
    BY <1>1, <1>2, <1>3 DEF OwnerOK, Kept
  <1>10. LockOK(s) => LockOK(s)'
    BY <1>1, <1>2 DEF LockOK, Kept
  <1>11. CutOK(s) => CutOK(s)'
    BY <1>5 DEF CutOK, Kept
  <1>12. Unharmed(s, {"twice", "renamed"})' /\ NameOK(s) => NameOK(s)'
    BY <1>1, <1>2, <1>3 DEF NameOK, Kept, Unharmed
  <1>13. TmpOK(s) => TmpOK(s)'
    BY <1>1, <1>2, <1>3 DEF TmpOK, Kept
  <1>14. CountOK(s) => CountOK(s)'
    BY <1>4 DEF CountOK, Kept
  <1>15. WorkerOK(s) => WorkerOK(s)'
    BY <1>1, <1>2, <1>3 DEF WorkerOK, Kept
  <1>16. ServedOK(s) => ServedOK(s)'
    BY <1>4, <1>5 DEF ServedOK
  <1> QED
    BY <1>6, <1>7, <1>8, <1>9, <1>10, <1>11, <1>12, <1>13, <1>14, <1>15, <1>16 DEF SegOK

\* Memory that nobody maps.
LEMMA Freed ==
  ASSUME NEW s \in Segs, seg'[s] = Zeroed, \A p \in Procs : At(p)' # s,
         crashes' \in Nat
  PROVE  SegOK(s)'
  <1>1. Admins \subseteq Procs /\ Users \subseteq Procs
    BY DEF Procs
  <1>2. Linked(s)' = {}
    BY <1>1 DEF Linked
  <1>3. Cardinality(GoneUsers)' \in Nat
    <2>1. GoneUsers' \in SUBSET Users
      BY DEF GoneUsers
    <2> QED
      BY <2>1, Constants, FS_Subset, FS_CardinalityType
  <1>4. /\ ~Zeroed.running /\ Zeroed.count = 0 /\ Zeroed.lost = 0 /\ Zeroed.scars = {}
        /\ Zeroed.worker = NoProc
    BY DEF Zeroed
  <1>5. FreshOK(s)' /\ RunningOK(s)' /\ LostOK(s)'
    BY <1>3, <1>4 DEF FreshOK, RunningOK, LostOK
  <1>6. OwnerOK(s)' /\ LockOK(s)' /\ CutOK(s)' /\ NameOK(s)' /\ TmpOK(s)'
    BY <1>1, <1>4 DEF OwnerOK, LockOK, CutOK, NameOK, TmpOK
  <1>7. CountOK(s)'
    BY <1>2, <1>4, FS_EmptySet DEF CountOK
  <1>8. WorkerOK(s)' /\ ServedOK(s)'
    BY <1>1, <1>2, <1>4 DEF WorkerOK, ServedOK
  <1> QED
    BY <1>5, <1>6, <1>7, <1>8 DEF SegOK

LEMMA Typed ==
  ASSUME IInv, NEW p \in Procs
  PROVE  /\ proc[p] \in ProcRecord /\ p \in Admins \cup Users
         /\ At(p) \in Segs <=> At(p) # NoSeg
         /\ At(p) \in Segs <=> pc(p) \notin Unmapped
         /\ At(p) \in Segs => cache(p) \in SegRecord /\ SegOK(At(p)) /\ cache(p) = seg[At(p)]
         /\ \A s \in Segs : seg[s].lost \in Nat
         /\ crashes \in Nat
  <1>1. proc[p] \in ProcRecord /\ p \in Admins \cup Users
    BY DEF IInv, TypeOK, Procs
  <1>2. At(p) \in Segs \cup {NoSeg}
    BY <1>1 DEF At, ProcRecord
  <1>3. At(p) = NoSeg <=> pc(p) \in Unmapped
    BY DEF IInv, WhereOK
  <1>4. MaxCrashes \in Nat
    BY LifecycleAssumption DEF LifecycleAssumption
  <1>5. \A s \in Segs : seg[s].lost \in Nat
    BY <1>4 DEF IInv, TypeOK, SegRecord
  <1>6. crashes \in Nat
    BY <1>4 DEF IInv, TypeOK
  <1> QED
    BY <1>1, <1>2, <1>3, <1>5, <1>6, Constants DEF IInv, TypeOK, cache

\* A step of p on its own segment.
Stays(p) ==
  /\ At(p) \in Segs /\ At(p)' = At(p)
  /\ name' = name /\ crashes' = crashes
  /\ \A q \in Procs \ {p} : proc'[q] = proc[q]
  /\ \A s \in Segs \ {At(p)} : seg'[s] = seg[s]
  /\ \A q \in Admins \ {p} : thread'[q] = thread[q]

LEMMA Local ==
  ASSUME IInv, NEW p \in Procs, NEW here \in Segs, here = At(p), Stays(p), SegOK(here)'
  PROVE  \A s \in Segs : SegOK(s)'
  <1>1. SUFFICES ASSUME NEW s \in Segs, s # At(p) PROVE SegOK(s)'
    OBVIOUS
  <1>2. At(p)' # s /\ At(p) # s
    BY <1>1 DEF Stays
  <1>3. \A q \in Procs : At(q) = s \/ At(q)' = s => q # p /\ proc'[q] = proc[q]
    BY <1>2 DEF Stays
  <1>4. \A q \in Admins : At(q) = s => thread'[q] = thread[q]
    BY <1>2 DEF Stays
  <1>5. \A q \in Procs : At(q)' = s <=> At(q) = s
    BY <1>3 DEF At
  <1>6. seg'[s] = seg[s]
    BY <1>1 DEF Stays
  <1>7. SegOK(s) /\ Kept(s)
    BY <1>6 DEF IInv, Kept, Stays
  <1>8. FreshOK(s)'
    BY <1>5, <1>6, <1>7 DEF SegOK, FreshOK, Stays
  <1>9. GoneUsers \subseteq GoneUsers'
    <2>1. ASSUME NEW u \in Users, pc(u) = "gone" PROVE pc(u)' = "gone"
      <3>1. u \in Procs
        BY DEF Procs
      <3>2. At(u) = NoSeg
        BY <2>1, <3>1 DEF IInv, WhereOK, Unmapped
      <3>3. u # p
        BY <3>2, Constants DEF Stays
      <3> QED
        BY <2>1, <3>1, <3>3 DEF Stays, pc
    <2> QED
      BY <2>1 DEF GoneUsers
  <1> QED
    BY <1>3, <1>4, <1>7, <1>8, <1>9, Typed, Untouched DEF Stays

\* p ends, with r in its segment.
LEMMA Leaving ==
  ASSUME IInv, NEW p \in Procs, NEW here \in Segs, here = At(p), NEW r, leaves(p, r),
         \A q \in Admins \ {p} : thread'[q] = thread[q],
         crashes' \in Nat, crashes <= crashes',
         FreshOK(here)' /\ seg'[here] = r => SegOK(here)'
  PROVE  \A s \in Segs : SegOK(s)'
  <1>1. SUFFICES ASSUME NEW s \in Segs PROVE SegOK(s)'
    OBVIOUS
  <1>2. /\ proc' = [proc EXCEPT ![p] = Gone]
        /\ seg' = keep([seg EXCEPT ![here] = r], Procs \ {p}, name)
        /\ name' = name
    BY DEF leaves
  <1>3. proc \in [Procs -> ProcRecord] /\ seg \in [Segs -> SegRecord]
    BY DEF IInv, TypeOK
  <1>4. proc'[p] = Gone /\ \A q \in Procs \ {p} : proc'[q] = proc[q]
    BY <1>2, <1>3
  <1>5. At(p)' # s /\ pc(p)' = "gone" /\ \A q \in Procs \ {p} : At(q)' = At(q)
    BY <1>4, Constants DEF At, Gone, pc
  <1>6. CASE s \in Unused(Procs \ {p}, name)
    <2>1. seg'[s] = Zeroed
      BY <1>2, <1>6 DEF keep
    <2>2. \A q \in Procs : At(q)' # s
      BY <1>5, <1>6 DEF Unused
    <2> QED
      BY <2>1, <2>2, Freed
  <1>7. CASE s \notin Unused(Procs \ {p}, name)
    <2>1. seg'[s] = IF s = here THEN r ELSE seg[s]
      BY <1>2, <1>3, <1>7 DEF keep
    <2>2. FreshOK(s)'
      BY <1>2, <1>5, <1>7 DEF FreshOK, Unused
    <2>3. CASE s = here
      BY <2>1, <2>2, <2>3
    <2>4. CASE s # here
      <3>1. seg'[s] = seg[s] /\ SegOK(s) /\ Kept(s)
        BY <1>2, <2>1, <2>4 DEF IInv, Kept
      <3>2. \A q \in Procs : At(q) = s \/ At(q)' = s => q # p /\ proc'[q] = proc[q]
        BY <1>4, <1>5, <2>4
      <3>3. Admins \subseteq Procs /\ Users \subseteq Procs
        BY DEF Procs
      <3>4. \A q \in Admins : At(q) = s => thread'[q] = thread[q]
        BY <3>2, <3>3
      <3>5. GoneUsers \subseteq GoneUsers'
        BY <1>4, <1>5, <3>3 DEF GoneUsers, pc
      <3> QED
        BY <2>2, <3>1, <3>2, <3>4, <3>5, Typed, Untouched
    <2> QED
      BY <2>3, <2>4
  <1> QED
    BY <1>6, <1>7

LEMMA WhereStep ==
  ASSUME IInv, NEW p \in Procs,
         \A q \in Procs \ {p} : proc'[q] = proc[q],
         \A q \in Admins \ {p} : thread'[q] = thread[q],
         At(p)' = NoSeg <=> pc(p)' \in Unmapped,
         p \in Admins => /\ pc(p)' \in Unmapped \cup Starting \cup Active
                         /\ thread'[p] # "none" => pc(p)' \in Active,
         p \in Users => pc(p)' \in {"idle", "gone", "l_check", "l_lock", "l_store"} \cup Counted
  PROVE  WhereOK'
  <1>1. Admins \subseteq Procs /\ Users \subseteq Procs
    BY DEF Procs
  <1>2. ASSUME NEW q \in Procs \ {p} PROVE At(q)' = At(q) /\ pc(q)' = pc(q)
    BY <1>2 DEF At, pc
  <1>3. \A q \in Procs : At(q)' = NoSeg <=> pc(q)' \in Unmapped
    BY <1>2 DEF IInv, WhereOK
  <1>4. \A q \in Admins : /\ pc(q)' \in Unmapped \cup Starting \cup Active
                          /\ thread'[q] # "none" => pc(q)' \in Active
    BY <1>1, <1>2 DEF IInv, WhereOK
  <1>5. \A q \in Users : pc(q)' \in {"idle", "gone", "l_check", "l_lock", "l_store"} \cup Counted
    BY <1>1, <1>2 DEF IInv, WhereOK
  <1> QED
    BY <1>3, <1>4, <1>5 DEF WhereOK

\* A step of a user does not concern what is said of the servers ...
LEMMA UserFrame ==
  ASSUME NEW s \in Segs, \A q \in Admins : proc'[q] = proc[q], thread' = thread, name' = name,
         seg'[s].running = seg[s].running, seg'[s].worker = seg[s].worker,
         "cut" \in seg'[s].scars => "cut" \in seg[s].scars
  PROVE  /\ WillLook(s)' <=> WillLook(s)
         /\ OwnerOK(s) => OwnerOK(s)'
         /\ CutOK(s) => CutOK(s)'
         /\ NameOK(s) => NameOK(s)'
         /\ WorkerOK(s) => WorkerOK(s)'
  <1>1. \A q \in Admins : At(q)' = At(q) /\ pc(q)' = pc(q)
    BY DEF At, pc
  <1>2. WillLook(s)' <=> WillLook(s)
    BY <1>1 DEF WillLook
  <1>3. OwnerOK(s) => OwnerOK(s)'
    BY <1>1 DEF OwnerOK
  <1>4. CutOK(s) => CutOK(s)'
    BY <1>2 DEF CutOK
  <1>5. NameOK(s) => NameOK(s)'
    BY <1>1 DEF NameOK
  <1>6. WorkerOK(s) => WorkerOK(s)'
    BY <1>1 DEF WorkerOK
  <1> QED
    BY <1>2, <1>3, <1>4, <1>5, <1>6

\* ... and a step of a server not what is said of the users.
LEMMA AdminFrame ==
  ASSUME NEW s \in Segs, \A q \in Users : proc'[q] = proc[q],
         seg'[s].count = seg[s].count, seg'[s].lost = seg[s].lost, crashes <= crashes',
         crashes \in Nat, crashes' \in Nat, seg[s].lost \in Nat
  PROVE  /\ Linked(s)' = Linked(s) /\ GoneUsers' = GoneUsers
         /\ LostOK(s) => LostOK(s)'
         /\ TmpOK(s) => TmpOK(s)'
         /\ CountOK(s) => CountOK(s)'
  <1>1. \A q \in Users : At(q)' = At(q) /\ pc(q)' = pc(q)
    BY DEF At, pc
  <1>2. Linked(s)' = Linked(s) /\ GoneUsers' = GoneUsers
    BY <1>1 DEF Linked, GoneUsers
  <1>3. Cardinality(GoneUsers)' = Cardinality(GoneUsers)
    BY <1>2
  <1>4. LostOK(s) => LostOK(s)'
    BY <1>3 DEF LostOK
  <1>5. TmpOK(s) => TmpOK(s)'
    BY <1>1 DEF TmpOK
  <1>6. CountOK(s) => CountOK(s)'
    BY <1>2 DEF CountOK
  <1> QED
    BY <1>2, <1>4, <1>5, <1>6

-----------------------------------------------------------------------------
(* The steps of the users. *)

LEMMA LockAndLoadInv ==
  ASSUME IInv, NEW p \in Users, NEW s \in Segs, s = At(p), NEW from, NEW to, LockAndLoad(p, from, to),
         <<from, to>> \in {<<"l_lock", "l_store">>, <<"u_lock", "u_store">>}
  PROVE  IInv'
  <1>1. p \in Procs /\ p \notin Admins /\ Admins \subseteq Procs
    BY Constants DEF Procs
  <1>2. pc(p) = from /\ from \notin Unmapped
    BY DEF LockAndLoad, spinlock_lock, Unmapped
  <1>3. /\ SegOK(s) /\ seg[s] \in SegRecord /\ proc[p] \in ProcRecord
        /\ seg[s].lost \in Nat /\ crashes \in Nat
    BY <1>1, <1>2, Typed
  <1>4. TypeOK /\ seg \in [Segs -> SegRecord] /\ proc \in [Procs -> ProcRecord]
    BY DEF IInv, TypeOK
  <1>5. /\ ~seg[s].locked
        /\ seg' = [seg EXCEPT ![s] = [seg[s] EXCEPT !.locked = TRUE]]
        /\ proc' = [proc EXCEPT ![p].pc = to, ![p].tmp = seg[s].count]
        /\ UNCHANGED <<name, thread, crashes>>
    BY DEF LockAndLoad, spinlock_lock, set, cache
  <1>6. /\ seg'[s] \in SegRecord /\ seg'[s].locked
        /\ seg'[s].running = seg[s].running /\ seg'[s].count = seg[s].count
        /\ seg'[s].worker = seg[s].worker /\ seg'[s].lost = seg[s].lost
        /\ seg'[s].scars = seg[s].scars
        /\ \A t \in Segs \ {s} : seg'[t] = seg[t]
        /\ seg' \in [Segs -> SegRecord]
    BY <1>3, <1>4, <1>5 DEF SegRecord
  <1>7. /\ pc(p)' = to /\ At(p)' = At(p) /\ proc'[p].tmp = seg[s].count
        /\ \A q \in Procs \ {p} : proc'[q] = proc[q]
        /\ proc' \in [Procs -> ProcRecord]
    BY <1>1, <1>3, <1>4, <1>5 DEF SegRecord, ProcRecord, pc, At, PCs, InsideLock
  <1>8. TypeOK'
    BY <1>4, <1>5, <1>6, <1>7 DEF TypeOK
  <1>9. WhereOK'
    <2>1. At(p)' # NoSeg /\ pc(p)' \notin Unmapped
      BY <1>3, <1>7, Constants DEF Unmapped
    <2>2. pc(p)' \in {"l_store"} \cup Counted
      BY <1>7 DEF Counted
    <2> QED
      BY <1>1, <1>5, <1>7, <2>1, <2>2, WhereStep
  <1>10. s = At(p) /\ s = At(p)' /\ \A q \in Procs \ {p} : pc(q)' = pc(q) /\ At(q)' = At(q)
    BY <1>7 DEF pc, At
  <1>11. SegOK(s)'
    <2>1. /\ WillLook(s)' <=> WillLook(s)
          /\ OwnerOK(s) => OwnerOK(s)'
          /\ CutOK(s) => CutOK(s)'
          /\ NameOK(s) => NameOK(s)'
          /\ WorkerOK(s) => WorkerOK(s)'
      BY <1>1, <1>3, <1>5, <1>6, <1>7, UserFrame
    <2>2. Linked(s)' = Linked(s) /\ GoneUsers' = GoneUsers
      BY <1>1, <1>2, <1>7, <1>10 DEF Linked, GoneUsers, Procs
    <2>3. FreshOK(s)'
      BY <1>1, <1>10 DEF FreshOK
    <2>4. RunningOK(s)'
      BY <1>1, <1>2, <1>3, <1>6, <1>7, <1>10 DEF SegOK, RunningOK, Counted
    <2>5. LostOK(s)'
      BY <1>3, <1>5, <1>6, <2>2 DEF SegOK, LostOK
    <2>6. LockOK(s) => LockOK(s)'
      BY <1>1, <1>5, <1>6, <1>10 DEF LockOK
    <2>7. TmpOK(s) => TmpOK(s)'
      BY <1>6, <1>7, <1>10 DEF TmpOK, Procs
    <2>8. CountOK(s) => CountOK(s)'
      BY <1>6, <2>2 DEF CountOK
    <2>9. ServedOK(s) => ServedOK(s)'
      BY <2>1, <2>2 DEF ServedOK
    <2>10. \A by : Unharmed(s, by)' <=> Unharmed(s, by)
      BY <1>6 DEF Unharmed
    <2> QED
      BY <1>3, <2>1, <2>3, <2>4, <2>5, <2>6, <2>7, <2>8, <2>9, <2>10 DEF SegOK
  <1>12. Stays(p)
    BY <1>3, <1>5, <1>6, <1>7, <1>10 DEF Stays
  <1> QED
    BY <1>1, <1>8, <1>9, <1>10, <1>11, <1>12, Local DEF IInv

\* A step of a user that only looks.
LEMMA UserMoveInv ==
  ASSUME IInv, NEW p \in Users, NEW s \in Segs, s = At(p), NEW from, NEW to, goes(p, from, to),
         <<from, to>> \in {<<"l_check", "l_lock">>, <<"using", "u_lock">>},
         seg[s].running, UNCHANGED <<name, seg, thread, crashes>>
  PROVE  IInv'
  <1>1. p \in Procs /\ p \notin Admins /\ Admins \subseteq Procs
    BY Constants DEF Procs
  <1>2. pc(p) = from
    BY DEF goes
  <1>3. /\ SegOK(s) /\ seg[s] \in SegRecord /\ proc[p] \in ProcRecord
        /\ seg[s].lost \in Nat /\ crashes \in Nat
    BY <1>1, Typed
  <1>4. TypeOK /\ proc \in [Procs -> ProcRecord]
    BY DEF IInv, TypeOK
  <1>5. /\ pc(p)' = to /\ At(p)' = At(p) /\ proc'[p].tmp = proc[p].tmp
        /\ \A q \in Procs \ {p} : proc'[q] = proc[q]
        /\ proc' \in [Procs -> ProcRecord]
    BY <1>1, <1>3, <1>4 DEF goes, ProcRecord, pc, At, PCs
  <1>6. TypeOK'
    BY <1>4, <1>5 DEF TypeOK
  <1>7. WhereOK'
    <2>1. At(p)' # NoSeg /\ pc(p)' \notin Unmapped
      BY <1>5, Constants DEF Unmapped
    <2>2. pc(p)' \in {"l_lock"} \cup Counted
      BY <1>5 DEF Counted
    <2> QED
      BY <1>1, <1>5, <2>1, <2>2, WhereStep
  <1>8. s = At(p)' /\ \A q \in Procs \ {p} : pc(q)' = pc(q) /\ At(q)' = At(q)
    BY <1>5 DEF pc, At
  <1>9. SegOK(s)'
    <2>1. /\ WillLook(s)' <=> WillLook(s)
          /\ OwnerOK(s) => OwnerOK(s)'
          /\ CutOK(s) => CutOK(s)'
          /\ NameOK(s) => NameOK(s)'
          /\ WorkerOK(s) => WorkerOK(s)'
      BY <1>1, <1>3, <1>5, UserFrame
    <2>2. Linked(s)' = Linked(s) /\ GoneUsers' = GoneUsers
      BY <1>1, <1>2, <1>5, <1>8 DEF Linked, GoneUsers, Procs
    <2>3. FreshOK(s)'
      BY <1>1, <1>8 DEF FreshOK
    <2>4. RunningOK(s)'
      BY <1>1, <1>3, <1>5, <1>8 DEF SegOK, RunningOK
    <2>5. LostOK(s)'
      BY <1>3, <2>2 DEF SegOK, LostOK
    <2>6. LockOK(s) => LockOK(s)'
      BY <1>1, <1>5, <1>8 DEF LockOK, InsideLock
    <2>7. TmpOK(s) => TmpOK(s)'
      BY <1>5, <1>8 DEF TmpOK, Procs
    <2>8. CountOK(s) => CountOK(s)'
      BY <2>2 DEF CountOK
    <2>9. ServedOK(s) => ServedOK(s)'
      BY <2>1, <2>2 DEF ServedOK
    <2>10. \A by : Unharmed(s, by)' <=> Unharmed(s, by)
      BY DEF Unharmed
    <2> QED
      BY <1>3, <2>1, <2>3, <2>4, <2>5, <2>6, <2>7, <2>8, <2>9, <2>10 DEF SegOK
  <1>10. Stays(p)
    BY <1>3, <1>5, <1>8 DEF Stays
  <1> QED
    BY <1>1, <1>6, <1>7, <1>9, <1>10, Local DEF IInv

\* p ends without a trace: it was not counted, and nobody waited for its look.
LEMMA QuietLeaveInv ==
  ASSUME IInv, NEW p \in Procs, NEW s \in Segs, s = At(p), leaves(p, cache(p)),
         thread' \in [Admins -> {"none", "idle", "moving"}],
         \A q \in Admins \ {p} : thread'[q] = thread[q], UNCHANGED crashes,
         p \in Admins => thread'[p] = "none" /\ pc(p) \notin Looking,
         p \in Users => pc(p) \notin Counted
  PROVE  IInv'
  <1>1. Admins \subseteq Procs /\ Users \subseteq Procs
    BY DEF Procs
  <1>2. /\ SegOK(s) /\ seg[s] \in SegRecord /\ cache(p) = seg[s] /\ pc(p) \notin Unmapped
        /\ seg[s].lost \in Nat /\ crashes \in Nat
    BY Typed
  <1>3. TypeOK /\ proc \in [Procs -> ProcRecord] /\ seg \in [Segs -> SegRecord]
    BY DEF IInv, TypeOK
  <1>4. /\ proc' = [proc EXCEPT ![p] = Gone]
        /\ seg' = keep([seg EXCEPT ![s] = seg[s]], Procs \ {p}, name)
        /\ name' = name
    BY <1>2 DEF leaves
  <1>5. /\ proc'[p] = Gone /\ \A q \in Procs \ {p} : proc'[q] = proc[q]
        /\ proc' \in [Procs -> ProcRecord]
    BY <1>3, <1>4, GoneType
  <1>6. /\ At(p)' = NoSeg /\ pc(p)' = "gone"
        /\ \A q \in Procs \ {p} : pc(q)' = pc(q) /\ At(q)' = At(q)
    BY <1>5 DEF At, Gone, pc
  <1>7. seg' \in [Segs -> SegRecord]
    BY <1>3, <1>4, ZeroedType DEF keep
  <1>8. TypeOK'
    BY <1>3, <1>4, <1>5, <1>7 DEF TypeOK
  <1>9. WhereOK'
    BY <1>5, <1>6, WhereStep DEF Unmapped
  <1>10. ASSUME FreshOK(s)', seg'[s] = seg[s] PROVE SegOK(s)'
    <2>1. s # At(p)' /\ p \notin Linked(s)
      BY <1>6, Constants DEF Linked, Counted
    <2>2. Linked(s)' = Linked(s)
      BY <1>1, <1>6, <2>1 DEF Linked
    <2>3. WillLook(s)' <=> WillLook(s)
      BY <1>1, <1>6, <2>1 DEF WillLook, Looking
    <2>4. RunningOK(s)'
      BY <1>2, <1>6, <1>10, <2>1 DEF SegOK, RunningOK
    <2>5. GoneUsers \in SUBSET GoneUsers'
      BY <1>1, <1>2, <1>6 DEF GoneUsers
    <2>6. LostOK(s)'
      <3>1. GoneUsers' \in SUBSET Users
        BY DEF GoneUsers
      <3>2. IsFiniteSet(GoneUsers')
        BY <3>1, Constants, FS_Subset
      <3>3. Cardinality(GoneUsers) <= Cardinality(GoneUsers')
        BY <2>5, <3>2, FS_Subset
      <3>4. Cardinality(GoneUsers) \in Nat /\ Cardinality(GoneUsers') \in Nat
        BY <2>5, <3>2, FS_Subset, FS_CardinalityType
      <3> QED
        BY <1>2, <1>10, <3>3, <3>4 DEF SegOK, LostOK
    <2>7. OwnerOK(s) => OwnerOK(s)'
      BY <1>1, <1>6, <1>10, <2>1 DEF OwnerOK
    <2>8. LockOK(s) => LockOK(s)'
      BY <1>6, <1>10, <2>1 DEF LockOK
    <2>9. CutOK(s) => CutOK(s)'
      BY <1>10, <2>3 DEF CutOK
    <2>10. NameOK(s) => NameOK(s)'
      BY <1>1, <1>4, <1>6, <1>10, <2>1 DEF NameOK
    <2>11. TmpOK(s) => TmpOK(s)'
      BY <1>1, <1>5, <1>6, <1>10, <2>1 DEF TmpOK
    <2>12. CountOK(s) => CountOK(s)'
      BY <1>10, <2>2 DEF CountOK
    <2>13. WorkerOK(s) => WorkerOK(s)'
      <3>1. p \in Admins => pc(p) # "publish"
        BY DEF Looking
      <3> QED
        BY <1>1, <1>6, <1>10, <2>1, <3>1 DEF WorkerOK
    <2>14. ServedOK(s) => ServedOK(s)'
      BY <2>2, <2>3 DEF ServedOK
    <2>15. \A by : Unharmed(s, by)' <=> Unharmed(s, by)
      BY <1>10 DEF Unharmed
    <2> QED
      BY <1>2, <1>10, <2>4, <2>6, <2>7, <2>8, <2>9, <2>10, <2>11, <2>12, <2>13, <2>14, <2>15
      DEF SegOK
  <1> QED
    BY <1>2, <1>8, <1>9, <1>10, Leaving DEF IInv

\* The count neither wraps at its top nor below zero as long as it counts users.
LEMMA CountArithmetic ==
  ASSUME NEW n \in Nat
  PROVE  /\ n + 1 < COUNT_MOD => (n + 1) % COUNT_MOD = n + 1
         /\ n > 0 /\ n < COUNT_MOD => decremented(n) = n - 1
         /\ (n + 1) % COUNT_MOD \in 0 .. COUNT_MOD - 1
         /\ decremented(n) \in 0 .. COUNT_MOD - 1
  <1> DEFINE M == COUNT_MOD
  <1>1. M \in Nat /\ M > 0
    BY Constants
  <1> HIDE DEF M
  <1>2. \A x \in Nat : x % M \in 0 .. M - 1
    BY <1>1
  <1>3. \A x \in Nat : x < M => x % M = x
    BY <1>1
  <1>4. \A x \in Nat : x < M => (x + M) % M = x
    BY <1>1
  <1>5. decremented(n) = (n + M - 1) % M
    BY DEF decremented, M
  <1>6. n > 0 /\ n < M => decremented(n) = n - 1
    <2>1. SUFFICES ASSUME n > 0, n < M PROVE decremented(n) = n - 1
      OBVIOUS
    <2>2. n - 1 \in Nat /\ n - 1 < M /\ n + M - 1 = (n - 1) + M
      BY <1>1, <2>1
    <2> QED
      BY <1>4, <1>5, <2>2
  <1>7. n + M - 1 \in Nat /\ n + 1 \in Nat
    BY <1>1
  <1> QED
    BY <1>2, <1>3, <1>5, <1>6, <1>7 DEF M

LEMMA LinkStoreInv ==
  ASSUME IInv, NEW p \in Users, NEW s \in Segs, s = At(p), LinkStore(p)
  PROVE  IInv'
  <1> DEFINE r == [unlocked(seg[s]) EXCEPT !.count = (proc[p].tmp + 1) % COUNT_MOD]
  <1>1. p \in Procs /\ p \notin Admins /\ Admins \subseteq Procs /\ Users \subseteq Procs
    BY Constants DEF Procs
  <1>2. pc(p) = "l_store"
    BY DEF LinkStore
  <1>3. /\ SegOK(s) /\ seg[s] \in SegRecord /\ proc[p] \in ProcRecord
        /\ seg[s].lost \in Nat /\ crashes \in Nat /\ cache(p) = seg[s]
    BY <1>1, Typed
  <1>4. /\ TypeOK /\ proc \in [Procs -> ProcRecord] /\ seg \in [Segs -> SegRecord]
        /\ proc[p].tmp \in Nat
    BY <1>3, Constants DEF IInv, TypeOK, ProcRecord
  <1>5. /\ proc' = [proc EXCEPT ![p].pc = "using", ![p].tmp = 0]
        /\ seg' = [seg EXCEPT ![s] = scarred(r, ~WillLook(s), "late")]
        /\ UNCHANGED <<name, thread, crashes>>
    BY <1>3 DEF LinkStore, set
  <1>6. /\ r \in SegRecord /\ ~r.locked /\ r.count = (proc[p].tmp + 1) % COUNT_MOD
        /\ r.running = seg[s].running /\ r.worker = seg[s].worker /\ r.lost = seg[s].lost
        /\ r.scars = seg[s].scars
    <2>1. (proc[p].tmp + 1) % COUNT_MOD \in 0 .. COUNT_MOD - 1
      BY <1>4, CountArithmetic
    <2> DEFINE n == (proc[p].tmp + 1) % COUNT_MOD
    <2> HIDE DEF n
    <2>2. r = [[seg[s] EXCEPT !.locked = FALSE] EXCEPT !.count = n]
      BY DEF unlocked, n
    <2>3. n \in 0 .. COUNT_MOD - 1
      BY <2>1 DEF n
    <2> HIDE DEF r
    <2>4. /\ r \in SegRecord /\ ~r.locked /\ r.count = n
          /\ r.running = seg[s].running /\ r.worker = seg[s].worker /\ r.lost = seg[s].lost
          /\ r.scars = seg[s].scars
      BY <1>3, <2>2, <2>3 DEF SegRecord
    <2> QED
      BY <2>4 DEF n
  <1> HIDE DEF r
  <1>7. "late" \in Scars
    BY DEF Scars
  <1>8. /\ seg'[s] \in SegRecord /\ ~seg'[s].locked
        /\ seg'[s].count = (proc[p].tmp + 1) % COUNT_MOD
        /\ seg'[s].running = seg[s].running /\ seg'[s].worker = seg[s].worker
        /\ seg'[s].lost = seg[s].lost
        /\ \A by : "twice" \in by /\ seg'[s].scars \cap by = {} =>
                     seg[s].scars \cap by = {} /\ ~(~WillLook(s) /\ "late" \in by)
        /\ "cut" \in seg'[s].scars => "cut" \in seg[s].scars
        /\ \A t \in Segs \ {s} : seg'[t] = seg[t]
        /\ seg' \in [Segs -> SegRecord]
    <2> DEFINE late == ~WillLook(s)
               n == scarred(r, late, "late")
    <2> HIDE DEF late
    <2>1. /\ n \in SegRecord
          /\ n.running = r.running /\ n.count = r.count /\ n.locked = r.locked
          /\ n.worker = r.worker /\ n.lost = r.lost
          /\ \A by : "twice" \in by /\ n.scars \cap by = {} =>
                       r.scars \cap by = {} /\ ~(late /\ "late" \in by)
          /\ \A w : w # "late" /\ w \in n.scars => w \in r.scars
      BY <1>6, <1>7, Scarred
    <2>2. seg' = [seg EXCEPT ![s] = n]
      BY <1>5 DEF late
    <2> HIDE DEF n
    <2>3. seg'[s] = n /\ \A t \in Segs \ {s} : seg'[t] = seg[t]
      BY <1>4, <2>2
    <2>4. seg' \in [Segs -> SegRecord]
      BY <1>4, <2>1, <2>2
    <2> QED
      BY <1>6, <2>1, <2>3, <2>4 DEF late
  <1>9. /\ pc(p)' = "using" /\ At(p)' = At(p)
        /\ \A q \in Procs \ {p} : proc'[q] = proc[q]
        /\ proc' \in [Procs -> ProcRecord]
    <2>1. 0 \in 0 .. COUNT_MOD - 1 /\ "using" \in PCs
      BY Constants DEF PCs
    <2> QED
      BY <1>1, <1>3, <1>4, <1>5, <2>1 DEF ProcRecord, pc, At
  <1>10. TypeOK'
    BY <1>4, <1>5, <1>8, <1>9 DEF TypeOK
  <1>11. WhereOK'
    <2>1. At(p)' # NoSeg /\ pc(p)' \notin Unmapped /\ pc(p)' \in Counted
      BY <1>9, Constants DEF Unmapped, Counted
    <2> QED
      BY <1>1, <1>5, <1>9, <2>1, WhereStep
  <1>12. s = At(p)' /\ \A q \in Procs \ {p} : pc(q)' = pc(q) /\ At(q)' = At(q)
    BY <1>9 DEF pc, At
  <1>13. SegOK(s)'
    <2>1. /\ WillLook(s)' <=> WillLook(s)
          /\ OwnerOK(s) => OwnerOK(s)'
          /\ CutOK(s) => CutOK(s)'
          /\ NameOK(s) => NameOK(s)'
          /\ WorkerOK(s) => WorkerOK(s)'
      BY <1>1, <1>5, <1>8, <1>9, UserFrame
    <2>2. Linked(s)' = Linked(s) \cup {p} /\ p \notin Linked(s) /\ GoneUsers' = GoneUsers
      <3>1. \A u \in Users : u \in Linked(s)' <=> u \in Linked(s) \/ u = p
        BY <1>1, <1>9, <1>12 DEF Linked
      <3>2. \A u \in Users : u \in GoneUsers' <=> u \in GoneUsers
        BY <1>1, <1>2, <1>9, <1>12 DEF GoneUsers
      <3> QED
        BY <1>2, <3>1, <3>2 DEF Linked, GoneUsers
    <2>3. FreshOK(s)'
      BY <1>1, <1>12 DEF FreshOK
    <2>4. RunningOK(s)'
      BY <1>1, <1>2, <1>3, <1>8, <1>9, <1>12 DEF SegOK, RunningOK
    <2>5. LostOK(s)'
      BY <1>3, <1>5, <1>8, <2>2 DEF SegOK, LostOK
    <2>6. LockOK(s) => LockOK(s)'
      <3>1. "l_store" \in InsideLock /\ "using" \notin InsideLock
        BY DEF InsideLock
      <3> QED
        BY <1>1, <1>2, <1>9, <1>12, <3>1 DEF LockOK
    <2>7. LockOK(s) => TmpOK(s)'
      <3>1. {"l_store", "u_store"} \subseteq InsideLock /\ "using" \notin {"l_store", "u_store"}
        BY DEF InsideLock
      <3> QED
        BY <1>1, <1>2, <1>9, <1>12, <3>1 DEF LockOK, TmpOK
    <2>8. LostOK(s) /\ TmpOK(s) /\ CountOK(s) => CountOK(s)'
      <3>1. SUFFICES ASSUME LostOK(s), TmpOK(s), CountOK(s) PROVE CountOK(s)'
        OBVIOUS
      <3>2. Cardinality(Linked(s)') = Cardinality(Linked(s)) + 1
        BY <2>2, LinkedFinite, FS_AddElement
      <3>3. /\ Cardinality(Linked(s)) \in Nat /\ Cardinality(GoneUsers) \in Nat
            /\ Cardinality(Linked(s)') + Cardinality(GoneUsers') < COUNT_MOD
        <4>1. Cardinality(Linked(s)') + Cardinality(GoneUsers') < COUNT_MOD
          <5>1. (Cardinality(Linked(s)) + Cardinality(GoneUsers) < COUNT_MOD)'
            BY LinkedFinite, PTL
          <5> QED
            BY <5>1
        <4> QED
          BY <4>1, LinkedFinite
      <3>4. proc[p].tmp = Cardinality(Linked(s)) + seg[s].lost
        BY <1>2, <3>1 DEF TmpOK, CountOK
      <3>5. seg[s].lost <= Cardinality(GoneUsers')
        BY <2>2, <3>1 DEF LostOK
      <3>6. proc[p].tmp + 1 < COUNT_MOD
        BY <1>3, <2>2, <3>2, <3>3, <3>4, <3>5, Constants
      <3> QED
        BY <1>3, <1>4, <1>8, <3>2, <3>3, <3>4, <3>6, CountArithmetic DEF CountOK
    <2>9. Unharmed(s, {"twice", "died", "wiped", "late"})' /\ ServedOK(s) => ServedOK(s)'
      BY <1>8, <2>1 DEF ServedOK, Unharmed
    <2>10. \A by : "twice" \in by /\ Unharmed(s, by)' => Unharmed(s, by)
      BY <1>8 DEF Unharmed
    <2>11. Unharmed(s, {"twice", "wiped"}) => Unharmed(s, {"twice"})
      BY DEF Unharmed
    <2> QED
      BY <1>3, <2>1, <2>3, <2>4, <2>5, <2>6, <2>7, <2>8, <2>9, <2>10, <2>11 DEF SegOK
  <1>14. Stays(p)
    BY <1>3, <1>5, <1>8, <1>9, <1>12 DEF Stays
  <1> QED
    BY <1>1, <1>10, <1>11, <1>13, <1>14, Local DEF IInv

LEMMA LeaveFacts ==
  ASSUME IInv, NEW p \in Procs, NEW s \in Segs, s = At(p), NEW r \in SegRecord, leaves(p, r),
         thread' \in [Admins -> {"none", "idle", "moving"}],
         \A q \in Admins \ {p} : thread'[q] = thread[q],
         p \in Admins => thread'[p] = "none", crashes' \in 0 .. MaxCrashes
  PROVE  /\ TypeOK' /\ WhereOK' /\ name' = name
         /\ \A q \in Procs \ {p} : proc'[q] = proc[q] /\ pc(q)' = pc(q) /\ At(q)' = At(q)
         /\ At(p)' # s /\ pc(p)' = "gone" /\ pc(p) # "gone"
         /\ p \in Users => /\ GoneUsers' = GoneUsers \cup {p} /\ p \notin GoneUsers
                           /\ Linked(s)' = Linked(s) \ {p}
         /\ Cardinality(GoneUsers) \in Nat /\ Cardinality(GoneUsers') \in Nat
         /\ Cardinality(GoneUsers) <= Cardinality(GoneUsers')
         /\ p \in Users => Cardinality(GoneUsers') = Cardinality(GoneUsers) + 1
         /\ p \in Users => Cardinality(Linked(s)') =
                             IF p \in Linked(s) THEN Cardinality(Linked(s)) - 1
                                                ELSE Cardinality(Linked(s))
  <1>1. Admins \subseteq Procs /\ Users \subseteq Procs
    BY DEF Procs
  <1>2. pc(p) \notin Unmapped
    BY Typed
  <1>3. TypeOK /\ proc \in [Procs -> ProcRecord] /\ seg \in [Segs -> SegRecord]
    BY DEF IInv, TypeOK
  <1>4. /\ proc' = [proc EXCEPT ![p] = Gone]
        /\ seg' = keep([seg EXCEPT ![s] = r], Procs \ {p}, name)
        /\ name' = name
    BY DEF leaves
  <1>5. /\ proc'[p] = Gone /\ \A q \in Procs \ {p} : proc'[q] = proc[q]
        /\ proc' \in [Procs -> ProcRecord]
    BY <1>3, <1>4, GoneType
  <1>6. /\ At(p)' = NoSeg /\ pc(p)' = "gone"
        /\ \A q \in Procs \ {p} : pc(q)' = pc(q) /\ At(q)' = At(q)
    BY <1>5 DEF At, Gone, pc
  <1>7. seg' \in [Segs -> SegRecord]
    BY <1>3, <1>4, ZeroedType DEF keep
  <1>8. TypeOK'
    BY <1>3, <1>4, <1>5, <1>7 DEF TypeOK
  <1>9. WhereOK'
    BY <1>5, <1>6, WhereStep DEF Unmapped
  <1>10. At(p)' # s /\ pc(p) # "gone"
    BY <1>2, <1>6, Constants DEF Unmapped
  <1>11. /\ GoneUsers' = IF p \in Users THEN GoneUsers \cup {p} ELSE GoneUsers
         /\ p \notin GoneUsers
    <2>1. \A u \in Users : u \in GoneUsers' <=> u \in GoneUsers \/ u = p
      BY <1>1, <1>6, <1>10 DEF GoneUsers
    <2> QED
      BY <1>10, <2>1 DEF GoneUsers
  <1>12. p \in Users => Linked(s)' = Linked(s) \ {p}
    <2>1. \A u \in Users : u \in Linked(s)' <=> u \in Linked(s) /\ u # p
      BY <1>1, <1>6, <1>10 DEF Linked
    <2> QED
      BY <2>1 DEF Linked
  <1>13. IsFiniteSet(GoneUsers) /\ IsFiniteSet(Linked(s))
    BY LinkedFinite
  <1>14. /\ Cardinality(GoneUsers) \in Nat
         /\ Cardinality(GoneUsers') = IF p \in Users THEN Cardinality(GoneUsers) + 1
                                                     ELSE Cardinality(GoneUsers)
    BY <1>11, <1>13, FS_AddElement, FS_CardinalityType
  <1>15. p \in Users => Cardinality(Linked(s)') =
                          IF p \in Linked(s) THEN Cardinality(Linked(s)) - 1
                                             ELSE Cardinality(Linked(s))
    BY <1>12, <1>13, FS_RemoveElement
  <1> QED
    BY <1>4, <1>5, <1>6, <1>8, <1>9, <1>10, <1>11, <1>12, <1>14, <1>15

LEMMA UnlinkStoreInv ==
  ASSUME IInv, NEW p \in Users, NEW s \in Segs, s = At(p), UnlinkStore(p)
  PROVE  IInv'
  <1> DEFINE n == decremented(proc[p].tmp)
             r == [unlocked(seg[s]) EXCEPT !.count = n]
  <1>1. p \in Procs /\ p \notin Admins /\ Admins \subseteq Procs /\ Users \subseteq Procs
    BY Constants DEF Procs
  <1>2. pc(p) = "u_store"
    BY DEF UnlinkStore
  <1>3. /\ SegOK(s) /\ seg[s] \in SegRecord /\ proc[p] \in ProcRecord
        /\ seg[s].lost \in Nat /\ crashes \in Nat /\ cache(p) = seg[s]
    BY <1>1, Typed
  <1>4. /\ thread \in [Admins -> {"none", "idle", "moving"}] /\ crashes \in 0 .. MaxCrashes
        /\ proc[p].tmp \in Nat
    BY <1>3, Constants DEF IInv, TypeOK, ProcRecord
  <1>5. leaves(p, r) /\ UNCHANGED <<thread, crashes>>
    BY <1>3 DEF UnlinkStore
  <1>6. n \in 0 .. COUNT_MOD - 1
    BY <1>4, CountArithmetic
  <1> HIDE DEF n
  <1>7. /\ r \in SegRecord /\ ~r.locked /\ r.count = n
        /\ r.running = seg[s].running /\ r.worker = seg[s].worker /\ r.lost = seg[s].lost
        /\ r.scars = seg[s].scars
    BY <1>3, <1>6 DEF unlocked, SegRecord
  <1> HIDE DEF r
  <1>8. /\ TypeOK' /\ WhereOK' /\ name' = name
        /\ \A q \in Procs \ {p} : proc'[q] = proc[q] /\ pc(q)' = pc(q) /\ At(q)' = At(q)
        /\ At(p)' # s /\ pc(p)' = "gone"
        /\ GoneUsers' = GoneUsers \cup {p} /\ p \notin GoneUsers
        /\ Linked(s)' = Linked(s) \ {p}
        /\ Cardinality(GoneUsers) \in Nat /\ Cardinality(GoneUsers') \in Nat
        /\ Cardinality(GoneUsers) <= Cardinality(GoneUsers')
        /\ Cardinality(Linked(s)') = IF p \in Linked(s) THEN Cardinality(Linked(s)) - 1
                                                        ELSE Cardinality(Linked(s))
    BY <1>1, <1>4, <1>5, <1>7, LeaveFacts
  <1>9. ASSUME FreshOK(s)', seg'[s] = r PROVE SegOK(s)'
    <2>1. /\ WillLook(s)' <=> WillLook(s)
          /\ OwnerOK(s) => OwnerOK(s)'
          /\ CutOK(s) => CutOK(s)'
          /\ NameOK(s) => NameOK(s)'
          /\ WorkerOK(s) => WorkerOK(s)'
      BY <1>1, <1>5, <1>7, <1>8, <1>9, UserFrame
    <2>2. RunningOK(s)'
      BY <1>1, <1>2, <1>3, <1>7, <1>8, <1>9 DEF SegOK, RunningOK
    <2>3. LostOK(s)'
      BY <1>3, <1>5, <1>7, <1>8, <1>9 DEF SegOK, LostOK
    <2>4. LockOK(s) => LockOK(s)' /\ TmpOK(s)'
      <3>1. {"l_store", "u_store"} \subseteq InsideLock
        BY DEF InsideLock
      <3> QED
        BY <1>1, <1>2, <1>8, <3>1 DEF LockOK, TmpOK
    <2>5. LostOK(s) /\ TmpOK(s) /\ CountOK(s) => CountOK(s)'
      <3>1. SUFFICES ASSUME LostOK(s), TmpOK(s), CountOK(s) PROVE CountOK(s)'
        OBVIOUS
      <3>2. p \in Linked(s)
        BY <1>2 DEF Linked
      <3>3. /\ Cardinality(Linked(s)) \in Nat
            /\ Cardinality(Linked(s)) + Cardinality(GoneUsers) < COUNT_MOD
            /\ Cardinality(Linked(s)) # 0
        BY <3>2, LinkedFinite, FS_EmptySet
      <3>4. proc[p].tmp = Cardinality(Linked(s)) + seg[s].lost
        BY <1>2, <3>1 DEF TmpOK, CountOK
      <3>5. proc[p].tmp < COUNT_MOD /\ proc[p].tmp > 0
        BY <1>3, <1>8, <3>1, <3>3, <3>4, Constants DEF LostOK
      <3>6. n = proc[p].tmp - 1
        BY <1>4, <3>5, CountArithmetic DEF n
      <3> QED
        BY <1>3, <1>7, <1>8, <1>9, <3>2, <3>3, <3>4, <3>6 DEF CountOK
    <2>6. ServedOK(s) => ServedOK(s)'
      BY <1>8, <2>1 DEF ServedOK
    <2>7. \A by : Unharmed(s, by)' <=> Unharmed(s, by)
      BY <1>7, <1>9 DEF Unharmed
    <2>8. Unharmed(s, {"twice", "wiped"}) => Unharmed(s, {"twice"})
      BY DEF Unharmed
    <2> QED
      BY <1>3, <1>9, <2>1, <2>2, <2>3, <2>4, <2>5, <2>6, <2>7, <2>8 DEF SegOK
  <1> QED
    BY <1>1, <1>3, <1>5, <1>8, <1>9, Leaving DEF IInv

-----------------------------------------------------------------------------
(* Steps that map a segment. *)

\* p maps the segment that has the name, or one that is new and gets it.
Maps(p, s, from, to) ==
  /\ pc(p) = from /\ from \in {"idle", "init"}
  /\ <<from, to>> = IF p \in Users THEN <<"idle", "l_check">> ELSE <<"init", "check">>
  /\ name' = s /\ (name = s \/ (name = NoSeg /\ s \in Unused(Procs, name)))
  /\ proc' = [proc EXCEPT ![p].pc = to, ![p].at = s]
  /\ UNCHANGED <<seg, thread, crashes>>

LEMMA MapsInv ==
  ASSUME IInv, NEW p \in Procs, NEW s \in Segs, NEW from, NEW to, Maps(p, s, from, to)
  PROVE  IInv'
  <1>1. Admins \subseteq Procs /\ Users \subseteq Procs /\ \A q \in Admins : q \notin Users
    BY Constants DEF Procs
  <1>2. /\ TypeOK /\ proc \in [Procs -> ProcRecord] /\ seg[s] \in SegRecord
        /\ crashes \in Nat /\ proc[p] \in ProcRecord /\ p \in Admins \cup Users
    BY Typed DEF IInv, TypeOK
  <1>3. At(p) = NoSeg /\ pc(p) = from /\ pc(p) # "gone"
    BY <1>2 DEF Maps, IInv, WhereOK, Unmapped
  <1>4. /\ pc(p)' = to /\ At(p)' = s
        /\ \A q \in Procs \ {p} : proc'[q] = proc[q]
        /\ proc' \in [Procs -> ProcRecord]
    <2>1. to \in PCs
      BY DEF Maps, PCs
    <2> QED
      BY <1>2, <2>1 DEF Maps, pc, At, ProcRecord
  <1>5. to = IF p \in Users THEN "l_check" ELSE "check"
    BY DEF Maps
  <1>6. TypeOK'
    BY <1>2, <1>4 DEF TypeOK, Maps
  <1>7. WhereOK'
    <2>1. p \in Admins => thread[p] = "none"
      BY <1>3 DEF IInv, WhereOK, Maps, Active
    <2> QED
      BY <1>1, <1>2, <1>4, <1>5, <2>1, Constants, WhereStep DEF Maps, Unmapped, Starting
  <1>8. \A q \in Procs \ {p} : pc(q)' = pc(q) /\ At(q)' = At(q)
    BY <1>4 DEF pc, At
  <1>9. GoneUsers' = GoneUsers
    <2>1. \A u \in Users : u \in GoneUsers' <=> u \in GoneUsers
      BY <1>1, <1>3, <1>4, <1>5, <1>8 DEF GoneUsers
    <2> QED
      BY <2>1 DEF GoneUsers
  <1>10. \A t \in Segs : SegOK(t) /\ seg[t].lost \in Nat
    BY Typed DEF IInv
  <1>11. ASSUME NEW t \in Segs, t # s PROVE SegOK(t)'
    <2>1. FreshOK(t)'
      BY <1>4, <1>8, <1>10, <1>3, <1>11, Constants DEF SegOK, FreshOK, Maps
    <2>2. Kept(t)
      BY <1>11, Constants DEF Kept, Maps
    <2>3. \A q \in Procs : At(q) = t \/ At(q)' = t => proc'[q] = proc[q]
      BY <1>3, <1>4, <1>11, Constants
    <2> QED
      BY <1>2, <1>9, <1>10, <2>1, <2>2, <2>3, Untouched DEF Maps
  <1>12. SegOK(s)'
    <2>1. seg'[s] = seg[s] /\ s # At(p) /\ crashes' = crashes
      BY <1>3, Constants DEF Maps
    <2>2. Linked(s)' = Linked(s)
      <3>1. \A u \in Users : u \in Linked(s)' <=> u \in Linked(s)
        BY <1>1, <1>3, <1>4, <1>5, <1>8 DEF Linked, Maps
      <3> QED
        BY <3>1 DEF Linked
    <2>3. WillLook(s)' <=> WillLook(s)
      BY <1>1, <1>4, <1>5, <1>8, <2>1 DEF WillLook
    <2>4. FreshOK(s)' /\ RunningOK(s)'
      BY <1>4, <1>5, <1>8, <1>10, <2>1 DEF SegOK, FreshOK, RunningOK, Maps, Active, Counted
    <2>5. LostOK(s)'
      BY <1>9, <1>10, <2>1 DEF SegOK, LostOK
    <2>6. OwnerOK(s) => OwnerOK(s)'
      BY <1>1, <1>4, <1>5, <1>8, <2>1 DEF OwnerOK, Active
    <2>7. LockOK(s) => LockOK(s)'
      BY <1>4, <1>5, <1>8, <2>1 DEF LockOK, InsideLock
    <2>8. CutOK(s) => CutOK(s)'
      BY <2>1, <2>3 DEF CutOK
    <2>9. NameOK(s)'
      BY DEF NameOK, Maps
    <2>10. TmpOK(s) => TmpOK(s)'
      BY <1>1, <1>4, <1>5, <1>8, <2>1 DEF TmpOK
    <2>11. CountOK(s) => CountOK(s)'
      BY <2>1, <2>2 DEF CountOK
    <2>12. WorkerOK(s) => WorkerOK(s)'
      <3>1. "check" \notin Active
        BY DEF Active
      <3>2. thread' = thread
        BY DEF Maps
      <3> QED
        BY <1>1, <1>4, <1>5, <1>8, <2>1, <3>1, <3>2 DEF WorkerOK
    <2>13. ServedOK(s) => ServedOK(s)'
      BY <2>2, <2>3 DEF ServedOK
    <2>14. \A by : Unharmed(s, by)' <=> Unharmed(s, by)
      BY <2>1 DEF Unharmed
    <2> QED
      BY <1>10, <2>4, <2>5, <2>6, <2>7, <2>8, <2>9, <2>10, <2>11, <2>12, <2>13, <2>14 DEF SegOK
  <1> QED
    BY <1>6, <1>7, <1>11, <1>12 DEF IInv

LEMMA LinkShmInv ==
  ASSUME IInv, NEW p \in Users, link_shm(p, "idle", "l_check")
  PROVE  IInv'
  <1>1. p \in Procs
    BY DEF Procs
  <1>2. name \in Segs
    BY DEF IInv, TypeOK, link_shm
  <1>3. Maps(p, name, "idle", "l_check")
    BY DEF link_shm, Maps
  <1> QED
    BY <1>1, <1>2, <1>3, MapsInv

LEMMA AllocShmInv ==
  ASSUME IInv, NEW p \in Admins, alloc_shm(p, "init", "check")
  PROVE  IInv'
  <1> DEFINE s == IF name # NoSeg THEN name ELSE CHOOSE x \in Unused(Procs, name) : TRUE
  <1>1. p \in Procs /\ p \notin Users
    BY Constants DEF Procs
  <1>2. name # NoSeg => s \in Segs
    BY DEF IInv, TypeOK
  <1>3. name = NoSeg => s \in Unused(Procs, name)
    BY DEF alloc_shm
  <1>4. s \in Segs
    BY <1>2, <1>3 DEF Unused
  <1>5. Maps(p, s, "init", "check")
    BY <1>1, <1>3 DEF alloc_shm, Maps
  <1> HIDE DEF s
  <1> QED
    BY <1>1, <1>4, <1>5, MapsInv

-----------------------------------------------------------------------------
(* The steps of the servers. *)

\* What every step of a server inside its segment has in common.
AdminMoves(p, s, r, from, to) ==
  /\ s = At(p) /\ goes(p, from, to) /\ from \in Starting \cup Active /\ to \in Starting \cup Active
  /\ seg' = [seg EXCEPT ![s] = r] /\ r.lost = seg[s].lost
  /\ UNCHANGED <<name, crashes>>
  /\ thread' \in [Admins -> {"none", "idle", "moving"}]
  /\ \A q \in Admins \ {p} : thread'[q] = thread[q]
  /\ thread'[p] # "none" => to \in Active

LEMMA AdminFacts ==
  ASSUME IInv, NEW p \in Admins, NEW s \in Segs, NEW r \in SegRecord, NEW from, NEW to,
         AdminMoves(p, s, r, from, to)
  PROVE  /\ TypeOK' /\ WhereOK' /\ Stays(p) /\ SegOK(s) /\ seg'[s] = r
         /\ pc(p) = from /\ pc(p)' = to /\ At(p)' = s /\ At(p) = s
         /\ \A q \in Procs \ {p} : /\ pc(q)' = pc(q) /\ At(q)' = At(q)
                                   /\ proc'[q] = proc[q]
         /\ \A q \in Admins \ {p} : thread'[q] = thread[q]
         /\ Linked(s)' = Linked(s) /\ FreshOK(s)' /\ LostOK(s)'
         /\ r.count = seg[s].count => /\ TmpOK(s) => TmpOK(s)'
                                      /\ CountOK(s) => CountOK(s)'
         /\ seg[s] \in SegRecord /\ cache(p) = seg[s] /\ seg[s].lost \in Nat
  <1>1. p \in Procs /\ p \notin Users /\ Admins \subseteq Procs /\ Users \subseteq Procs
    BY Constants DEF Procs
  <1>2. /\ TypeOK /\ proc \in [Procs -> ProcRecord] /\ seg \in [Segs -> SegRecord]
        /\ proc[p] \in ProcRecord /\ cache(p) = seg[s]
        /\ SegOK(s) /\ crashes \in Nat /\ seg[s].lost \in Nat
    BY <1>1, Typed DEF IInv, TypeOK, AdminMoves
  <1>3. to \in PCs
    BY DEF AdminMoves, Starting, Active, PCs, InsideLock
  <1>4. /\ pc(p) = from /\ pc(p)' = to /\ At(p)' = s /\ At(p) = s
        /\ \A q \in Procs \ {p} : proc'[q] = proc[q]
        /\ proc' \in [Procs -> ProcRecord]
    BY <1>1, <1>2, <1>3 DEF AdminMoves, goes, pc, At, ProcRecord
  <1>5. seg'[s] = r /\ seg' \in [Segs -> SegRecord] /\ \A t \in Segs \ {s} : seg'[t] = seg[t]
    BY <1>2 DEF AdminMoves
  <1>6. TypeOK'
    BY <1>2, <1>4, <1>5 DEF TypeOK, AdminMoves
  <1>7. \A q \in Procs \ {p} : pc(q)' = pc(q) /\ At(q)' = At(q)
    BY <1>4 DEF pc, At
  <1>8. WhereOK'
    <2>1. to \notin Unmapped
      BY DEF AdminMoves, Unmapped, Starting, Active
    <2> QED
      BY <1>1, <1>4, <2>1, Constants, WhereStep DEF AdminMoves
  <1>9. Stays(p)
    BY <1>4, <1>5 DEF Stays, AdminMoves
  <1>10. \A q \in Users : proc'[q] = proc[q]
    BY <1>1, <1>4
  <1>11. LostOK(s)' /\ Linked(s)' = Linked(s)
    <2>1. Linked(s)' = Linked(s) /\ GoneUsers' = GoneUsers
      BY <1>1, <1>7 DEF Linked, GoneUsers
    <2>2. LostOK(s)
      BY <1>2 DEF SegOK
    <2> QED
      BY <1>5, <2>1, <2>2 DEF LostOK, AdminMoves
  <1>12. FreshOK(s)'
    BY <1>1, <1>4 DEF FreshOK
  <1>13. r.count = seg[s].count => /\ TmpOK(s) => TmpOK(s)'
                                   /\ CountOK(s) => CountOK(s)'
    BY <1>2, <1>5, <1>10, AdminFrame DEF AdminMoves
  <1> QED
    BY <1>2, <1>4, <1>6, <1>5, <1>7, <1>8, <1>9, <1>11, <1>12, <1>13 DEF AdminMoves

LEMMA AdminMovesInv ==
  ASSUME IInv, NEW p \in Admins, NEW s \in Segs, NEW r \in SegRecord, NEW from, NEW to,
         AdminMoves(p, s, r, from, to), SegOK(s)'
  PROVE  IInv'
  <1>1. TypeOK' /\ WhereOK' /\ Stays(p) /\ s = At(p)
    BY AdminFacts
  <1> QED
    BY <1>1, Local DEF IInv, Procs

\* A step that changes neither the segment nor what the server is there for.
LEMMA PlainMoveInv ==
  ASSUME IInv, NEW p \in Admins, NEW s \in Segs, s = At(p), NEW from, NEW to, goes(p, from, to),
         UNCHANGED <<name, seg, thread, crashes>>,
         \/ <<from, to>> = <<"check", "build">>
         \/ <<from, to>> = <<"serving", "x_lock">>
         \/ <<from, to>> = <<"stop", "join">>
         \/ <<from, to>> = <<"stop", "unmap">>
  PROVE  IInv'
  <1> DEFINE r == seg[s]
  <1>1. p \in Procs /\ p \notin Users /\ Admins \subseteq Procs /\ Users \subseteq Procs
    BY Constants DEF Procs
  <1>2. /\ seg[s] \in SegRecord /\ seg \in [Segs -> SegRecord]
        /\ thread \in [Admins -> {"none", "idle", "moving"}]
    BY <1>1, Typed DEF IInv, TypeOK
  <1>3. /\ from \in Starting \cup Active /\ to \in Starting \cup Active
        /\ from \in Starting <=> to \in Starting
        /\ from \in Active <=> to \in Active
        /\ from \in Looking <=> to \in Looking
        /\ from \notin InsideLock /\ to \notin InsideLock
        /\ from # "publish" /\ to # "publish"
        /\ to \in Active \ {"join", "unmap"} => from \in Active \ {"join", "unmap"}
    BY DEF Starting, Active, Looking, InsideLock
  <1>4. thread[p] # "none" => to \in Active
    <2>1. pc(p) = from
      BY DEF goes
    <2> QED
      BY <1>3, <2>1 DEF IInv, WhereOK
  <1>5. AdminMoves(p, s, r, from, to)
    BY <1>2, <1>3, <1>4 DEF AdminMoves
  <1>6. /\ SegOK(s) /\ seg'[s] = r
        /\ pc(p) = from /\ pc(p)' = to /\ At(p)' = s /\ At(p) = s
        /\ \A q \in Procs \ {p} : pc(q)' = pc(q) /\ At(q)' = At(q)
        /\ Linked(s)' = Linked(s) /\ FreshOK(s)' /\ LostOK(s)'
        /\ TmpOK(s) => TmpOK(s)'
        /\ CountOK(s) => CountOK(s)'
    BY <1>2, <1>5, AdminFacts
  <1>7. WillLook(s)' <=> WillLook(s)
    BY <1>1, <1>3, <1>6 DEF WillLook, Looking
  <1>8. RunningOK(s)'
    BY <1>1, <1>3, <1>6 DEF SegOK, RunningOK, Counted, Starting
  <1>9. OwnerOK(s) => OwnerOK(s)'
    BY <1>1, <1>3, <1>6 DEF OwnerOK
  <1>10. LockOK(s) => LockOK(s)'
    BY <1>1, <1>3, <1>6 DEF LockOK
  <1>11. CutOK(s) => CutOK(s)'
    BY <1>6, <1>7 DEF CutOK
  <1>12. NameOK(s) => NameOK(s)'
    BY <1>1, <1>3, <1>6 DEF NameOK
  <1>13. WorkerOK(s) => WorkerOK(s)'
    BY <1>1, <1>3, <1>6 DEF WorkerOK
  <1>14. ServedOK(s) => ServedOK(s)'
    BY <1>6, <1>7 DEF ServedOK
  <1>15. \A by : Unharmed(s, by)' <=> Unharmed(s, by)
    BY DEF Unharmed
  <1>16. SegOK(s)'
    BY <1>6, <1>8, <1>9, <1>10, <1>11, <1>12, <1>13, <1>14, <1>15 DEF SegOK
  <1> QED
    BY <1>2, <1>5, <1>16, AdminMovesInv

LEMMA BuildInv ==
  ASSUME IInv, NEW p \in Admins, NEW s \in Segs, s = At(p), Build(p)
  PROVE  IInv'
  <1> DEFINE again == \/ seg[s].running
                      \/ \E q \in Admins : At(q) = s /\ pc(q) = "publish"
             r == scarred(seg[s], again, "twice")
  <1>1. p \in Procs /\ p \notin Users /\ Admins \subseteq Procs /\ Users \subseteq Procs
    BY Constants DEF Procs
  <1>2. /\ seg[s] \in SegRecord /\ seg \in [Segs -> SegRecord] /\ SegOK(s)
        /\ thread \in [Admins -> {"none", "idle", "moving"}] /\ cache(p) = seg[s]
    BY <1>1, Typed DEF IInv, TypeOK
  <1> HIDE DEF again
  <1>3. /\ r \in SegRecord
        /\ r.running = seg[s].running /\ r.count = seg[s].count /\ r.locked = seg[s].locked
        /\ r.worker = seg[s].worker /\ r.lost = seg[s].lost
        /\ \A by : "twice" \in by /\ r.scars \cap by = {} => seg[s].scars \cap by = {} /\ ~again
        /\ "cut" \in r.scars => "cut" \in seg[s].scars
    <2>1. "twice" \in Scars
      BY DEF Scars
    <2> QED
      BY <1>2, <2>1, Scarred
  <1>4. /\ goes(p, "build", "publish") /\ UNCHANGED <<name, crashes>>
        /\ \/ /\ r.worker = NoProc
              /\ set(p, [r EXCEPT !.worker = p])
              /\ thread' = [thread EXCEPT ![p] = "idle"]
           \/ r.worker # NoProc /\ set(p, r) /\ UNCHANGED thread
    BY <1>2 DEF Build, again
  <1> HIDE DEF r
  <1> DEFINE n == IF r.worker = NoProc THEN [r EXCEPT !.worker = p] ELSE r
  <1>5. /\ n \in SegRecord /\ n.running = r.running /\ n.count = r.count /\ n.locked = r.locked
        /\ n.lost = r.lost /\ n.scars = r.scars
        /\ n.worker = IF r.worker = NoProc THEN p ELSE r.worker
    BY <1>3 DEF SegRecord
  <1>6. seg' = [seg EXCEPT ![s] = n]
    BY <1>4 DEF set
  <1> HIDE DEF n
  <1>7. /\ thread' \in [Admins -> {"none", "idle", "moving"}]
        /\ \A q \in Admins \ {p} : thread'[q] = thread[q]
        /\ r.worker = NoProc => thread'[p] = "idle"
    BY <1>2, <1>4
  <1>8. AdminMoves(p, s, n, "build", "publish")
    BY <1>3, <1>4, <1>5, <1>6, <1>7 DEF AdminMoves, Starting, Active
  <1>9. /\ seg'[s] = n /\ pc(p) = "build" /\ pc(p)' = "publish" /\ At(p)' = s
        /\ \A q \in Procs \ {p} : pc(q)' = pc(q) /\ At(q)' = At(q)
        /\ Linked(s)' = Linked(s) /\ FreshOK(s)' /\ LostOK(s)'
        /\ TmpOK(s) => TmpOK(s)'
        /\ CountOK(s) => CountOK(s)'
    BY <1>3, <1>5, <1>8, AdminFacts
  <1>10. \A by : "twice" \in by /\ Unharmed(s, by)' => Unharmed(s, by) /\ ~again
    BY <1>3, <1>5, <1>9 DEF Unharmed
  <1>11. RunningOK(s)'
    BY <1>1, <1>2, <1>3, <1>5, <1>9 DEF SegOK, RunningOK
  <1>12. ~again => \A q \in Admins : At(q) = s => pc(q) \notin Active
    BY <1>1, <1>2 DEF again, SegOK, RunningOK
  <1>13. ~again => ~seg[s].running
    BY DEF again
  <1>14. ~again => OwnerOK(s)'
    BY <1>1, <1>3, <1>5, <1>9, <1>12, <1>13 DEF OwnerOK
  <1>15. LockOK(s) => LockOK(s)'
    BY <1>3, <1>5, <1>9 DEF LockOK, InsideLock
  <1>16. ~again /\ CutOK(s) => CutOK(s)'
    BY <1>3, <1>5, <1>9, <1>13 DEF CutOK
  <1>17. ~again /\ NameOK(s) => NameOK(s)'
    <2>1. name' = name /\ "publish" \notin Starting /\ "build" \in Starting
      BY <1>4 DEF Starting
    <2> QED
      BY <1>1, <1>3, <1>5, <1>9, <1>13, <2>1 DEF NameOK
  <1>18. ~again /\ WorkerOK(s) => WorkerOK(s)'
    <2>1. SUFFICES ASSUME ~again, WorkerOK(s) PROVE WorkerOK(s)'
      OBVIOUS
    <2>2. r.worker = NoProc
      BY <1>3, <1>12, <1>13, <2>1 DEF WorkerOK, Active
    <2> QED
      BY <1>1, <1>5, <1>7, <1>9, <1>12, <2>1, <2>2 DEF WorkerOK
  <1>19. ServedOK(s)'
    BY <1>9 DEF ServedOK, WillLook
  <1>20. SegOK(s)'
    BY <1>2, <1>9, <1>10, <1>11, <1>14, <1>15, <1>16, <1>17, <1>18, <1>19 DEF SegOK
  <1> QED
    BY <1>5, <1>8, <1>20, AdminMovesInv

LEMMA PublishInv ==
  ASSUME IInv, NEW p \in Admins, NEW s \in Segs, s = At(p), Publish(p)
  PROVE  IInv'
  <1> DEFINE n == [unlocked(seg[s]) EXCEPT !.running = TRUE]
  <1>1. p \in Procs /\ p \notin Users /\ Admins \subseteq Procs /\ Users \subseteq Procs
    BY Constants DEF Procs
  <1>2. /\ seg[s] \in SegRecord /\ seg \in [Segs -> SegRecord] /\ SegOK(s)
        /\ thread \in [Admins -> {"none", "idle", "moving"}] /\ cache(p) = seg[s]
    BY <1>1, Typed DEF IInv, TypeOK
  <1>3. /\ n \in SegRecord /\ n.running /\ ~n.locked /\ n.count = seg[s].count
        /\ n.lost = seg[s].lost /\ n.scars = seg[s].scars /\ n.worker = seg[s].worker
    BY <1>2 DEF SegRecord, unlocked
  <1>4. /\ goes(p, "publish", "clear") /\ UNCHANGED <<name, thread, crashes>>
        /\ seg' = [seg EXCEPT ![s] = n]
    BY <1>2 DEF Publish, set
  <1> HIDE DEF n
  <1>5. AdminMoves(p, s, n, "publish", "clear")
    BY <1>2, <1>3, <1>4 DEF AdminMoves, Active
  <1>6. /\ seg'[s] = n /\ pc(p) = "publish" /\ pc(p)' = "clear" /\ At(p)' = s
        /\ \A q \in Procs \ {p} : pc(q)' = pc(q) /\ At(q)' = At(q)
        /\ Linked(s)' = Linked(s) /\ FreshOK(s)' /\ LostOK(s)'
        /\ TmpOK(s) => TmpOK(s)'
        /\ CountOK(s) => CountOK(s)'
    BY <1>3, <1>5, AdminFacts
  <1>7. \A by : Unharmed(s, by)' <=> Unharmed(s, by)
    BY <1>3, <1>6 DEF Unharmed
  <1>8. RunningOK(s)'
    BY <1>3, <1>6 DEF RunningOK
  <1>9. OwnerOK(s) => OwnerOK(s)' /\ ~seg[s].running
    BY <1>1, <1>6 DEF OwnerOK, Active
  <1>10. OwnerOK(s) => LockOK(s)'
    <2>1. SUFFICES ASSUME OwnerOK(s), NEW q \in Procs, At(q)' = s, pc(q)' \in InsideLock
                   PROVE  FALSE
      BY DEF LockOK
    <2>2. q # p /\ At(q) = s /\ pc(q) \in InsideLock /\ pc(q) # "publish"
      BY <1>6, <2>1 DEF InsideLock
    <2>3. pc(q) \in Active \cup Counted \cup {"l_lock", "l_store"}
      BY <2>2 DEF InsideLock, Active, Counted
    <2> QED
      BY <1>2, <1>9, <2>1, <2>2, <2>3 DEF SegOK, RunningOK
  <1>11. OwnerOK(s) /\ CutOK(s) => CutOK(s)'
    BY <1>3, <1>6, <1>9 DEF CutOK
  <1>12. NameOK(s) => NameOK(s)'
    <2>1. name' = name /\ "publish" \notin Starting /\ "publish" \in Active
      BY <1>4 DEF Starting, Active
    <2> QED
      BY <1>1, <1>3, <1>6, <2>1 DEF NameOK
  <1>13. WorkerOK(s) => WorkerOK(s)'
    <2>1. thread' = thread /\ "publish" \in Active \ {"join", "unmap"}
      BY <1>4 DEF Active
    <2> QED
      BY <1>1, <1>3, <1>6, <2>1 DEF WorkerOK
  <1>14. ServedOK(s)'
    BY <1>6 DEF ServedOK, WillLook
  <1>15. SegOK(s)'
    BY <1>2, <1>6, <1>7, <1>8, <1>9, <1>10, <1>11, <1>12, <1>13, <1>14 DEF SegOK
  <1> QED
    BY <1>3, <1>5, <1>15, AdminMovesInv

LEMMA ClearCountInv ==
  ASSUME IInv, NEW p \in Admins, NEW s \in Segs, s = At(p), ClearCount(p)
  PROVE  IInv'
  <1> DEFINE counted == seg[s].count # 0
             r == [seg[s] EXCEPT !.count = 0]
             n == scarred(r, counted, "wiped")
  <1>1. p \in Procs /\ p \notin Users /\ Admins \subseteq Procs /\ Users \subseteq Procs
    BY Constants DEF Procs
  <1>2. /\ seg[s] \in SegRecord /\ seg \in [Segs -> SegRecord] /\ SegOK(s)
        /\ thread \in [Admins -> {"none", "idle", "moving"}] /\ cache(p) = seg[s]
    BY <1>1, Typed DEF IInv, TypeOK
  <1>3. /\ goes(p, "clear", "serving") /\ UNCHANGED <<name, thread, crashes>>
        /\ seg' = [seg EXCEPT ![s] = n]
    BY <1>2 DEF ClearCount, set
  <1>4. /\ r \in SegRecord /\ r.count = 0 /\ r.running = seg[s].running
        /\ r.locked = seg[s].locked /\ r.lost = seg[s].lost /\ r.scars = seg[s].scars
        /\ r.worker = seg[s].worker
    <2>1. 0 \in 0 .. COUNT_MOD - 1
      BY Constants
    <2> QED
      BY <1>2, <2>1 DEF SegRecord
  <1> HIDE DEF r, counted
  <1>5. /\ n \in SegRecord
        /\ n.running = r.running /\ n.count = r.count /\ n.locked = r.locked
        /\ n.worker = r.worker /\ n.lost = r.lost
        /\ \A by : "twice" \in by /\ n.scars \cap by = {} =>
                     r.scars \cap by = {} /\ ~(counted /\ "wiped" \in by)
        /\ "cut" \in n.scars => "cut" \in r.scars
    <2>1. "wiped" \in Scars
      BY DEF Scars
    <2> QED
      BY <1>4, <2>1, Scarred
  <1> HIDE DEF n
  <1>6. AdminMoves(p, s, n, "clear", "serving")
    BY <1>2, <1>3, <1>4, <1>5 DEF AdminMoves, Active
  <1>7. /\ seg'[s] = n /\ pc(p) = "clear" /\ pc(p)' = "serving" /\ At(p)' = s
        /\ \A q \in Procs \ {p} : pc(q)' = pc(q) /\ At(q)' = At(q)
        /\ Linked(s)' = Linked(s) /\ FreshOK(s)' /\ LostOK(s)'
        /\ n.count = seg[s].count => /\ TmpOK(s) => TmpOK(s)'
                                     /\ CountOK(s) => CountOK(s)'
    BY <1>5, <1>6, AdminFacts
  <1>8. \A by : "twice" \in by /\ Unharmed(s, by)' => Unharmed(s, by)
    BY <1>4, <1>5, <1>7 DEF Unharmed
  <1>9. Unharmed(s, {"twice", "wiped"})' => n.count = seg[s].count
    <2>1. Unharmed(s, {"twice", "wiped"})' => ~counted
      BY <1>5, <1>7 DEF Unharmed
    <2> QED
      BY <1>4, <1>5, <2>1 DEF counted
  <1>10. RunningOK(s)'
    BY <1>1, <1>2, <1>4, <1>5, <1>7 DEF SegOK, RunningOK, Active
  <1>11. OwnerOK(s) => OwnerOK(s)'
    BY <1>1, <1>4, <1>5, <1>7 DEF OwnerOK, Active
  <1>12. LockOK(s) => LockOK(s)'
    BY <1>4, <1>5, <1>7 DEF LockOK, InsideLock
  <1>13. CutOK(s) => CutOK(s)'
    <2>1. WillLook(s)
      BY <1>7, <1>6 DEF WillLook, AdminMoves
    <2> QED
      BY <1>4, <1>5, <1>7, <2>1 DEF CutOK
  <1>14. NameOK(s) => NameOK(s)'
    <2>1. name' = name /\ "clear" \notin Starting /\ "clear" \in Active
      BY <1>3 DEF Starting, Active
    <2> QED
      BY <1>1, <1>4, <1>5, <1>7, <2>1, <1>6 DEF NameOK, AdminMoves
  <1>15. WorkerOK(s) => WorkerOK(s)'
    <2>1. thread' = thread /\ "clear" \in Active \ {"join", "unmap"}
      BY <1>3 DEF Active
    <2> QED
      BY <1>1, <1>4, <1>5, <1>6, <1>7, <2>1 DEF WorkerOK, AdminMoves
  <1>16. ServedOK(s)'
    BY <1>7 DEF ServedOK, WillLook
  <1>17. SegOK(s)'
    BY <1>2, <1>7, <1>8, <1>9, <1>10, <1>11, <1>12, <1>13, <1>14, <1>15, <1>16 DEF SegOK
  <1> QED
    BY <1>5, <1>6, <1>17, AdminMovesInv

LEMMA LookInv ==
  ASSUME IInv, NEW p \in Admins, NEW s \in Segs, s = At(p), Look(p)
  PROVE  IInv'
  <1> DEFINE n == [seg[s] EXCEPT !.locked = TRUE]
             to == IF seg[s].count <= 0 THEN "over" ELSE "busy"
  <1>1. p \in Procs /\ p \notin Users /\ Admins \subseteq Procs /\ Users \subseteq Procs
    BY Constants DEF Procs
  <1>2. /\ seg[s] \in SegRecord /\ seg \in [Segs -> SegRecord] /\ SegOK(s)
        /\ thread \in [Admins -> {"none", "idle", "moving"}] /\ cache(p) = seg[s]
        /\ seg[s].lost \in Nat
    BY <1>1, Typed DEF IInv, TypeOK
  <1>3. /\ pc(p) = "x_lock" /\ ~seg[s].locked /\ seg' = [seg EXCEPT ![s] = n]
        /\ proc' = [proc EXCEPT ![p].pc = to] /\ UNCHANGED <<name, thread, crashes>>
    BY <1>2 DEF Look, spinlock_lock, set
  <1>4. /\ n \in SegRecord /\ n.locked /\ n.count = seg[s].count /\ n.running = seg[s].running
        /\ n.lost = seg[s].lost /\ n.scars = seg[s].scars /\ n.worker = seg[s].worker
    BY <1>2 DEF SegRecord
  <1>5. to \in {"over", "busy"} /\ (to = "over" => seg[s].count <= 0)
    OBVIOUS
  <1> HIDE DEF n, to
  <1>6. AdminMoves(p, s, n, "x_lock", to)
    BY <1>2, <1>3, <1>4, <1>5 DEF AdminMoves, Active, goes
  <1>7. /\ seg'[s] = n /\ pc(p)' = to /\ At(p)' = s
        /\ \A q \in Procs \ {p} : pc(q)' = pc(q) /\ At(q)' = At(q)
        /\ Linked(s)' = Linked(s) /\ FreshOK(s)' /\ LostOK(s)'
        /\ TmpOK(s) => TmpOK(s)'
        /\ CountOK(s) => CountOK(s)'
    BY <1>4, <1>6, AdminFacts
  <1>8. \A by : Unharmed(s, by)' <=> Unharmed(s, by)
    BY <1>4, <1>7 DEF Unharmed
  <1>9. RunningOK(s)'
    BY <1>1, <1>2, <1>3, <1>4, <1>5, <1>7 DEF SegOK, RunningOK, Active
  <1>10. OwnerOK(s) => OwnerOK(s)'
    BY <1>1, <1>3, <1>4, <1>5, <1>7 DEF OwnerOK, Active
  <1>11. LockOK(s) => LockOK(s)'
    BY <1>3, <1>4, <1>7 DEF LockOK
  <1>12. CutOK(s) => CutOK(s)'
    <2>1. WillLook(s)
      BY <1>3 DEF WillLook
    <2> QED
      BY <1>4, <1>7, <2>1 DEF CutOK
  <1>13. NameOK(s) => NameOK(s)'
    <2>1. {"x_lock", "over", "busy"} \cap Starting = {} /\ "x_lock" \in Active
      BY DEF Starting, Active
    <2> QED
      BY <1>1, <1>3, <1>4, <1>5, <1>7, <2>1 DEF NameOK
  <1>14. WorkerOK(s) => WorkerOK(s)'
    <2>1. "x_lock" \in Active \ {"join", "unmap"}
      BY DEF Active
    <2> QED
      BY <1>1, <1>3, <1>4, <1>5, <1>7, <2>1 DEF WorkerOK
  <1>15. Unharmed(s, {"twice", "wiped"}) => ServedOK(s)'
    <2>1. SUFFICES ASSUME Unharmed(s, {"twice", "wiped"}) PROVE ServedOK(s)'
      OBVIOUS
    <2>2. CASE to = "busy"
      BY <1>7, <2>2 DEF ServedOK, WillLook
    <2>3. CASE to = "over"
      <3>1. Cardinality(Linked(s)) + seg[s].lost <= 0
        BY <1>2, <1>5, <2>1, <2>3 DEF SegOK, CountOK
      <3>2. Linked(s) = {}
        BY <1>2, <3>1, LinkedFinite, FS_EmptySet
      <3> QED
        BY <1>7, <3>2 DEF ServedOK
    <2> QED
      BY <1>5, <2>2, <2>3
  <1>16. Unharmed(s, {"twice", "died", "wiped", "late"}) => Unharmed(s, {"twice", "wiped"})
    BY DEF Unharmed
  <1>17. SegOK(s)'
    BY <1>2, <1>7, <1>8, <1>9, <1>10, <1>11, <1>12, <1>13, <1>14, <1>15, <1>16 DEF SegOK
  <1> QED
    BY <1>4, <1>6, <1>17, AdminMovesInv

LEMMA LookAgainInv ==
  ASSUME IInv, NEW p \in Admins, NEW s \in Segs, s = At(p), LookAgain(p)
  PROVE  IInv'
  <1> DEFINE n == unlocked(seg[s])
  <1>1. p \in Procs /\ p \notin Users /\ Admins \subseteq Procs /\ Users \subseteq Procs
    BY Constants DEF Procs
  <1>2. /\ seg[s] \in SegRecord /\ seg \in [Segs -> SegRecord] /\ SegOK(s)
        /\ thread \in [Admins -> {"none", "idle", "moving"}] /\ cache(p) = seg[s]
    BY <1>1, Typed DEF IInv, TypeOK
  <1>3. PICK from, to :
          /\ goes(p, from, to)
          /\ <<from, to>> \in {<<"busy", "x_lock">>, <<"over", "stop">>}
    BY DEF LookAgain
  <1>4. seg' = [seg EXCEPT ![s] = n] /\ UNCHANGED <<name, thread, crashes>>
    BY <1>2 DEF LookAgain, set
  <1>5. /\ n \in SegRecord /\ ~n.locked /\ n.count = seg[s].count /\ n.running = seg[s].running
        /\ n.lost = seg[s].lost /\ n.scars = seg[s].scars /\ n.worker = seg[s].worker
    BY <1>2 DEF SegRecord, unlocked
  <1> HIDE DEF n
  <1>6. /\ from \in Active \ {"join", "unmap", "publish"} /\ to \in Active \ {"join", "unmap", "publish"}
        /\ from \in Looking <=> to \in Looking
        /\ from \in InsideLock /\ to \notin InsideLock
        /\ from \notin Starting /\ to \notin Starting
    BY <1>3 DEF Active, Looking, InsideLock, Starting
  <1>7. AdminMoves(p, s, n, from, to)
    BY <1>2, <1>3, <1>4, <1>5, <1>6 DEF AdminMoves
  <1>8. /\ seg'[s] = n /\ pc(p) = from /\ pc(p)' = to /\ At(p)' = s
        /\ \A q \in Procs \ {p} : pc(q)' = pc(q) /\ At(q)' = At(q)
        /\ Linked(s)' = Linked(s) /\ FreshOK(s)' /\ LostOK(s)'
        /\ TmpOK(s) => TmpOK(s)'
        /\ CountOK(s) => CountOK(s)'
    BY <1>5, <1>7, AdminFacts
  <1>9. WillLook(s)' <=> WillLook(s)
    BY <1>1, <1>6, <1>8 DEF WillLook, Looking
  <1>10. \A by : Unharmed(s, by)' <=> Unharmed(s, by)
    BY <1>5, <1>8 DEF Unharmed
  <1>11. RunningOK(s)'
    BY <1>1, <1>2, <1>5, <1>6, <1>8 DEF SegOK, RunningOK
  <1>12. OwnerOK(s) => OwnerOK(s)'
    BY <1>1, <1>5, <1>6, <1>8 DEF OwnerOK
  <1>13. LockOK(s) => LockOK(s)'
    BY <1>1, <1>6, <1>8 DEF LockOK
  <1>14. CutOK(s) => CutOK(s)'
    BY <1>5, <1>8, <1>9 DEF CutOK
  <1>15. NameOK(s) => NameOK(s)'
    BY <1>1, <1>4, <1>5, <1>6, <1>8 DEF NameOK
  <1>16. WorkerOK(s) => WorkerOK(s)'
    BY <1>1, <1>4, <1>5, <1>6, <1>8 DEF WorkerOK
  <1>17. ServedOK(s) => ServedOK(s)'
    BY <1>8, <1>9 DEF ServedOK
  <1>18. SegOK(s)'
    BY <1>2, <1>8, <1>10, <1>11, <1>12, <1>13, <1>14, <1>15, <1>16, <1>17 DEF SegOK
  <1> QED
    BY <1>5, <1>7, <1>18, AdminMovesInv

\* The worker is forgotten: after Join, or when it was another server's.
LEMMA ForgetInv ==
  ASSUME IInv, NEW p \in Admins, NEW s \in Segs, s = At(p), NEW from,
         goes(p, from, "unmap"), set(p, [cache(p) EXCEPT !.worker = NoProc]),
         UNCHANGED <<name, thread, crashes>>,
         from = "join" \/ (from = "stop" /\ cache(p).worker # p)
  PROVE  IInv'
  <1> DEFINE n == [seg[s] EXCEPT !.worker = NoProc]
  <1>1. p \in Procs /\ p \notin Users /\ Admins \subseteq Procs /\ Users \subseteq Procs
    BY Constants DEF Procs
  <1>2. /\ seg[s] \in SegRecord /\ seg \in [Segs -> SegRecord] /\ SegOK(s)
        /\ thread \in [Admins -> {"none", "idle", "moving"}] /\ cache(p) = seg[s]
    BY <1>1, Typed DEF IInv, TypeOK
  <1>3. seg' = [seg EXCEPT ![s] = n]
    BY <1>2 DEF set
  <1>4. /\ n \in SegRecord /\ n.worker = NoProc /\ n.count = seg[s].count
        /\ n.running = seg[s].running /\ n.locked = seg[s].locked
        /\ n.lost = seg[s].lost /\ n.scars = seg[s].scars
    BY <1>2 DEF SegRecord
  <1> HIDE DEF n
  <1>5. AdminMoves(p, s, n, from, "unmap")
    BY <1>2, <1>3, <1>4 DEF AdminMoves, Active
  <1>6. /\ seg'[s] = n /\ pc(p) = from /\ pc(p)' = "unmap" /\ At(p)' = s
        /\ \A q \in Procs \ {p} : pc(q)' = pc(q) /\ At(q)' = At(q)
        /\ Linked(s)' = Linked(s) /\ FreshOK(s)' /\ LostOK(s)'
        /\ TmpOK(s) => TmpOK(s)'
        /\ CountOK(s) => CountOK(s)'
    BY <1>4, <1>5, AdminFacts
  <1>7. WillLook(s)' <=> WillLook(s)
    BY <1>1, <1>6 DEF WillLook
  <1>8. \A by : Unharmed(s, by)' <=> Unharmed(s, by)
    BY <1>4, <1>6 DEF Unharmed
  <1>9. RunningOK(s)'
    BY <1>1, <1>2, <1>4, <1>6 DEF SegOK, RunningOK, Active
  <1>10. OwnerOK(s) => OwnerOK(s)'
    BY <1>1, <1>4, <1>6 DEF OwnerOK, Active
  <1>11. LockOK(s) => LockOK(s)'
    BY <1>1, <1>4, <1>6 DEF LockOK, InsideLock
  <1>12. CutOK(s) => CutOK(s)'
    BY <1>4, <1>6, <1>7 DEF CutOK
  <1>13. NameOK(s) => NameOK(s)'
    <2>1. from \notin Starting /\ "unmap" \notin Starting /\ from \in Active
      BY DEF Starting, Active
    <2> QED
      BY <1>1, <1>4, <1>6, <2>1 DEF NameOK
  <1>14. OwnerOK(s) /\ WorkerOK(s) => WorkerOK(s)'
    <2>1. SUFFICES ASSUME OwnerOK(s), WorkerOK(s) PROVE WorkerOK(s)'
      OBVIOUS
    <2>2. from \in Active
      BY DEF Active
    <2>3. \A q \in Admins \ {p} : At(q) = s => pc(q) \notin Active
      BY <1>6, <2>1, <2>2 DEF OwnerOK
    <2> QED
      BY <1>1, <1>4, <1>6, <2>3 DEF WorkerOK
  <1>15. ServedOK(s) => ServedOK(s)'
    BY <1>6, <1>7 DEF ServedOK
  <1>16. Unharmed(s, {"twice", "died"}) => Unharmed(s, {"twice"})
    BY DEF Unharmed
  <1>17. SegOK(s)'
    BY <1>2, <1>6, <1>8, <1>9, <1>10, <1>11, <1>12, <1>13, <1>14, <1>15, <1>16 DEF SegOK
  <1> QED
    BY <1>4, <1>5, <1>17, AdminMovesInv

\* The thread ends, perhaps in the middle of a migration.
LEMMA CancelledInv ==
  ASSUME IInv, NEW p \in Admins, NEW s \in Segs, s = At(p), Cancelled(p)
  PROVE  IInv'
  <1> DEFINE moved == thread[p] = "moving"
             n == scarred(seg[s], moved, "cut")
  <1>1. p \in Procs /\ p \notin Users /\ Admins \subseteq Procs /\ Users \subseteq Procs
    BY Constants DEF Procs
  <1>2. /\ seg[s] \in SegRecord /\ seg \in [Segs -> SegRecord] /\ SegOK(s)
        /\ thread \in [Admins -> {"none", "idle", "moving"}] /\ cache(p) = seg[s]
        /\ proc \in [Procs -> ProcRecord] /\ proc[p] \in ProcRecord
    BY <1>1, Typed DEF IInv, TypeOK
  <1>3. /\ pc(p) = "join" /\ seg' = [seg EXCEPT ![s] = n]
        /\ thread' = [thread EXCEPT ![p] = "none"] /\ UNCHANGED <<name, proc, crashes>>
    BY <1>2 DEF Cancelled, set
  <1> HIDE DEF moved
  <1>4. /\ n \in SegRecord
        /\ n.running = seg[s].running /\ n.count = seg[s].count /\ n.locked = seg[s].locked
        /\ n.worker = seg[s].worker /\ n.lost = seg[s].lost
        /\ \A by : "twice" \in by /\ n.scars \cap by = {} => seg[s].scars \cap by = {}
    <2>1. "cut" \in Scars
      BY DEF Scars
    <2> QED
      BY <1>2, <2>1, Scarred
  <1> HIDE DEF n
  <1>5. AdminMoves(p, s, n, "join", "join")
    <2>1. proc' = [proc EXCEPT ![p].pc = "join"]
      BY <1>1, <1>2, <1>3 DEF ProcRecord, pc
    <2>2. "join" \in Active
      BY DEF Active
    <2> QED
      BY <1>2, <1>3, <1>4, <2>1, <2>2 DEF AdminMoves, goes
  <1>6. /\ seg'[s] = n /\ pc(p)' = "join" /\ At(p)' = s
        /\ \A q \in Procs \ {p} : pc(q)' = pc(q) /\ At(q)' = At(q)
        /\ \A q \in Admins \ {p} : thread'[q] = thread[q]
        /\ Linked(s)' = Linked(s) /\ FreshOK(s)' /\ LostOK(s)'
        /\ TmpOK(s) => TmpOK(s)'
        /\ CountOK(s) => CountOK(s)'
    BY <1>4, <1>5, AdminFacts
  <1>7. WillLook(s)' <=> WillLook(s)
    BY <1>1, <1>3, <1>6 DEF WillLook
  <1>8. \A by : "twice" \in by /\ Unharmed(s, by)' => Unharmed(s, by)
    BY <1>4, <1>6 DEF Unharmed
  <1>9. RunningOK(s)'
    BY <1>1, <1>2, <1>3, <1>4, <1>6 DEF SegOK, RunningOK
  <1>10. OwnerOK(s) => OwnerOK(s)'
    BY <1>1, <1>3, <1>4, <1>6 DEF OwnerOK
  <1>11. LockOK(s) => LockOK(s)'
    BY <1>1, <1>3, <1>4, <1>6 DEF LockOK
  <1>12. OwnerOK(s) => CutOK(s)'
    <2>1. seg[s].running
      BY <1>1, <1>2, <1>3 DEF SegOK, RunningOK, Active
    <2>2. OwnerOK(s) => ~WillLook(s)
      BY <1>3 DEF OwnerOK, WillLook, Active
    <2> QED
      BY <1>4, <1>6, <1>7, <2>1, <2>2 DEF CutOK
  <1>13. NameOK(s) => NameOK(s)'
    BY <1>1, <1>3, <1>4, <1>6 DEF NameOK
  <1>14. WorkerOK(s) => WorkerOK(s)'
    BY <1>1, <1>3, <1>4, <1>6 DEF WorkerOK
  <1>15. ServedOK(s) => ServedOK(s)'
    BY <1>6, <1>7 DEF ServedOK
  <1>16. SegOK(s)'
    BY <1>2, <1>6, <1>8, <1>9, <1>10, <1>11, <1>12, <1>13, <1>14, <1>15 DEF SegOK
  <1> QED
    BY <1>4, <1>5, <1>16, AdminMovesInv

-----------------------------------------------------------------------------
(* Steps that remove the name. *)

LEMMA UnlinkShmType ==
  ASSUME IInv, NEW procs, NEW byOwner, unlink_shm(procs, byOwner)
  PROVE  seg' \in [Segs -> SegRecord]
  <1>1. seg \in [Segs -> SegRecord]
    BY DEF IInv, TypeOK
  <1>2. ASSUME NEW s \in Segs
        PROVE  scarred(seg[s], s = name /\ ~byOwner, "renamed") \in SegRecord
    <2> DEFINE cond == s = name /\ ~byOwner
    <2> HIDE DEF cond
    <2>1. seg[s] \in SegRecord /\ "renamed" \in Scars
      BY <1>1 DEF Scars
    <2>2. scarred(seg[s], cond, "renamed") \in SegRecord
      BY <2>1, Scarred
    <2> QED
      BY <2>2 DEF cond
  <1> DEFINE f == [s \in Segs |-> scarred(seg[s], s = name /\ ~byOwner, "renamed")]
  <1>3. \A s \in Segs : f[s] \in SegRecord
    BY <1>2
  <1>4. seg' = [s \in Segs |-> IF s \in Unused(procs, NoSeg) THEN Zeroed ELSE f[s]]
    BY DEF unlink_shm, keep
  <1> HIDE DEF f
  <1> QED
    BY <1>3, <1>4, ZeroedType

\* p maps nothing any more; s is not what it mapped.
LEMMA Unnamed ==
  ASSUME IInv, NEW p \in Admins, NEW procs, Procs \ {p} \subseteq procs, procs \subseteq Procs,
         NEW byOwner, unlink_shm(procs, byOwner), NEW s \in Segs, At(p) # s, At(p)' # s,
         byOwner => name # s, \A q \in Procs \ {p} : proc'[q] = proc[q],
         \A q \in Admins \ {p} : thread'[q] = thread[q], UNCHANGED crashes
  PROVE  SegOK(s)'
  <1>1. Admins \subseteq Procs /\ Users \subseteq Procs /\ p \notin Users /\ p \in Procs
    BY Constants DEF Procs
  <1>2. /\ seg[s] \in SegRecord /\ SegOK(s) /\ seg[s].lost \in Nat /\ crashes \in Nat
        /\ crashes' \in Nat
    BY <1>1, Typed DEF IInv, TypeOK
  <1>3. \A q \in Procs : At(q)' = s <=> At(q) = s
    BY DEF At
  <1> DEFINE cond == s = name /\ ~byOwner
             n == scarred(seg[s], cond, "renamed")
  <1>4. /\ name' = NoSeg
        /\ seg'[s] = IF s \in Unused(procs, NoSeg) THEN Zeroed ELSE n
    BY DEF unlink_shm, keep
  <1>5. s # NoSeg
    BY Constants
  <1>6. cond <=> s = name
    OBVIOUS
  <1> HIDE DEF cond
  <1>7. /\ n.running = seg[s].running /\ n.count = seg[s].count /\ n.locked = seg[s].locked
        /\ n.worker = seg[s].worker /\ n.lost = seg[s].lost
        /\ \A by : "twice" \in by /\ n.scars \cap by = {} =>
                     seg[s].scars \cap by = {} /\ ~(cond /\ "renamed" \in by)
        /\ "cut" \in n.scars => "cut" \in seg[s].scars
    <2>1. "renamed" \in Scars
      BY DEF Scars
    <2> QED
      BY <1>2, <2>1, Scarred
  <1> HIDE DEF n
  <1>8. CASE s \in Unused(procs, NoSeg)
    <2>1. seg'[s] = Zeroed
      BY <1>4, <1>8
    <2>2. \A q \in Procs : At(q)' # s
      BY <1>3, <1>8 DEF Unused
    <2> QED
      BY <1>2, <2>1, <2>2, Freed
  <1>9. CASE s \notin Unused(procs, NoSeg)
    <2>1. seg'[s] = n
      BY <1>4, <1>9
    <2>2. FreshOK(s)'
      BY <1>3, <1>5, <1>9 DEF FreshOK, Unused
    <2>3. name = s => ~(n.scars \cap {"twice", "renamed"} = {})
      BY <1>6, <1>7
    <2>4. Kept(s)
      BY <1>7, <2>1, <2>3 DEF Kept
    <2>5. \A q \in Procs : At(q) = s \/ At(q)' = s => proc'[q] = proc[q]
      BY <1>3
    <2>6. \A q \in Admins : At(q) = s => thread'[q] = thread[q]
      OBVIOUS
    <2>7. GoneUsers \subseteq GoneUsers'
      BY <1>1 DEF GoneUsers, pc
    <2> QED
      BY <1>2, <2>2, <2>4, <2>5, <2>6, <2>7, Untouched
  <1> QED
    BY <1>8, <1>9

LEMMA ForceExitInv ==
  ASSUME IInv, NEW p \in Admins, force_exit_ssd_cache(p)
  PROVE  IInv'
  <1>1. Admins \subseteq Procs /\ p \notin Users /\ p \in Procs
    BY Constants DEF Procs
  <1>2. /\ TypeOK /\ proc \in [Procs -> ProcRecord] /\ proc[p] \in ProcRecord
    BY <1>1 DEF IInv, TypeOK
  <1>3. /\ pc(p) = "idle" /\ proc' = [proc EXCEPT ![p].pc = "init"]
        /\ unlink_shm(Procs, FALSE) /\ UNCHANGED <<thread, crashes>>
    BY DEF force_exit_ssd_cache, goes
  <1>4. At(p) = NoSeg
    BY <1>1, <1>3 DEF IInv, WhereOK, Unmapped
  <1>5. /\ pc(p)' = "init" /\ At(p)' = NoSeg
        /\ \A q \in Procs \ {p} : proc'[q] = proc[q]
        /\ proc' \in [Procs -> ProcRecord]
    BY <1>1, <1>2, <1>3, <1>4 DEF pc, At, ProcRecord, PCs
  <1>6. TypeOK'
    BY <1>2, <1>3, <1>5, UnlinkShmType DEF TypeOK, unlink_shm
  <1>7. WhereOK'
    <2>1. thread'[p] = "none"
      BY <1>3 DEF IInv, WhereOK, Active
    <2> QED
      BY <1>1, <1>3, <1>5, <2>1, WhereStep DEF Unmapped
  <1>8. ASSUME NEW s \in Segs PROVE SegOK(s)'
    BY <1>3, <1>4, <1>5, Constants, Unnamed
  <1> QED
    BY <1>6, <1>7, <1>8 DEF IInv

LEMMA CallInitInv ==
  ASSUME IInv, NEW p \in Admins, CallInit(p)
  PROVE  IInv'
  <1>1. Admins \subseteq Procs /\ p \notin Users /\ p \in Procs
    BY Constants DEF Procs
  <1>2. /\ TypeOK /\ proc \in [Procs -> ProcRecord] /\ proc[p] \in ProcRecord
    BY <1>1 DEF IInv, TypeOK
  <1>3. /\ pc(p) = "idle" /\ proc' = [proc EXCEPT ![p].pc = "init"]
        /\ UNCHANGED <<name, seg, thread, crashes>>
    BY DEF CallInit, goes
  <1>4. At(p) = NoSeg
    BY <1>1, <1>3 DEF IInv, WhereOK, Unmapped
  <1>5. /\ pc(p)' = "init" /\ At(p)' = NoSeg
        /\ \A q \in Procs \ {p} : proc'[q] = proc[q]
        /\ proc' \in [Procs -> ProcRecord]
    BY <1>1, <1>2, <1>3, <1>4 DEF pc, At, ProcRecord, PCs
  <1>6. TypeOK'
    BY <1>2, <1>3, <1>5 DEF TypeOK
  <1>7. WhereOK'
    <2>1. thread'[p] = "none"
      BY <1>3 DEF IInv, WhereOK, Active
    <2> QED
      BY <1>1, <1>3, <1>5, <2>1, WhereStep DEF Unmapped
  <1>8. ASSUME NEW s \in Segs PROVE SegOK(s)'
    <2>1. SegOK(s) /\ seg[s].lost \in Nat /\ crashes \in Nat
      BY <1>1, Typed DEF IInv
    <2>2. \A q \in Procs : At(q)' = At(q)
      BY <1>4, <1>5 DEF At
    <2>3. \A q \in Procs : At(q) = s \/ At(q)' = s => proc'[q] = proc[q]
      BY <1>4, <1>5, Constants
    <2>4. FreshOK(s)' /\ Kept(s)
      BY <1>3, <2>1, <2>2 DEF SegOK, FreshOK, Kept
    <2>5. GoneUsers \subseteq GoneUsers'
      BY <1>1, <1>5 DEF GoneUsers, pc, Procs
    <2> QED
      BY <1>3, <2>1, <2>3, <2>4, <2>5, Untouched
  <1> QED
    BY <1>6, <1>7, <1>8 DEF IInv

\* p was the server in service: who else is in its segment only looks whether
\* somebody serves it, and gives up.
LEMMA UnmapInv ==
  ASSUME IInv, NEW p \in Admins, NEW s \in Segs, s = At(p), Unmap(p)
  PROVE  IInv'
  <1>1. Admins \subseteq Procs /\ Users \subseteq Procs /\ p \notin Users /\ p \in Procs
    BY Constants DEF Procs
  <1>2. /\ TypeOK /\ proc \in [Procs -> ProcRecord] /\ seg[s] \in SegRecord /\ SegOK(s)
        /\ thread \in [Admins -> {"none", "idle", "moving"}]
        /\ seg[s].lost \in Nat /\ crashes \in Nat
    BY <1>1, Typed DEF IInv, TypeOK
  <1> DEFINE own == name = s
  <1>3. /\ pc(p) = "unmap" /\ proc' = [proc EXCEPT ![p] = Gone]
        /\ unlink_shm(Procs \ {p}, own)
        /\ thread' = [thread EXCEPT ![p] = "none"] /\ UNCHANGED crashes
    BY DEF Unmap
  <1>4. /\ proc'[p] = Gone /\ \A q \in Procs \ {p} : proc'[q] = proc[q]
        /\ proc' \in [Procs -> ProcRecord]
    BY <1>1, <1>2, <1>3, GoneType
  <1>5. /\ At(p)' = NoSeg /\ pc(p)' = "gone"
        /\ \A q \in Procs \ {p} : pc(q)' = pc(q) /\ At(q)' = At(q)
    BY <1>4 DEF At, Gone, pc
  <1>6. /\ thread' \in [Admins -> {"none", "idle", "moving"}] /\ thread'[p] = "none"
        /\ \A q \in Admins \ {p} : thread'[q] = thread[q]
    BY <1>2, <1>3
  <1>7. TypeOK'
    <2> HIDE DEF own
    <2>1. seg' \in [Segs -> SegRecord]
      BY <1>3, UnlinkShmType
    <2>2. name' = NoSeg
      BY <1>3 DEF unlink_shm
    <2> QED
      BY <1>2, <1>3, <1>4, <1>6, <2>1, <2>2 DEF TypeOK
  <1>8. WhereOK'
    BY <1>1, <1>4, <1>5, <1>6, WhereStep DEF Unmapped
  <1>9. ASSUME NEW t \in Segs, t # s PROVE SegOK(t)'
    <2>1. At(p) # t /\ At(p)' # t /\ (own => name # t)
      BY <1>5, <1>9, Constants
    <2> HIDE DEF own
    <2> QED
      BY <1>3, <1>4, <1>6, <2>1, Unnamed
  <1>10. SegOK(s)'
    <2> DEFINE cond == s = name /\ ~own
               n == scarred(seg[s], cond, "renamed")
    <2>1. /\ name' = NoSeg
          /\ seg'[s] = IF s \in Unused(Procs \ {p}, NoSeg) THEN Zeroed ELSE n
      BY <1>3 DEF unlink_shm, keep
    <2>2. ~cond
      OBVIOUS
    <2> HIDE DEF cond
    <2>3. /\ n.running = seg[s].running /\ n.count = seg[s].count
          /\ n.locked = seg[s].locked /\ n.worker = seg[s].worker
          /\ n.lost = seg[s].lost /\ n.scars = seg[s].scars
      <3>1. "renamed" \in Scars
        BY DEF Scars
      <3> QED
        BY <1>2, <2>2, <3>1, Scarred
    <2> HIDE DEF n
    <2>4. s # At(p)'
      BY <1>5, Constants
    <2>5. CASE s \in Unused(Procs \ {p}, NoSeg)
      <3>1. seg'[s] = Zeroed /\ crashes' \in Nat
        BY <1>2, <1>3, <2>1, <2>5
      <3>2. \A q \in Procs : At(q)' # s
        BY <1>5, <2>4, <2>5 DEF Unused
      <3> QED
        BY <3>1, <3>2, Freed
    <2>6. CASE s \notin Unused(Procs \ {p}, NoSeg)
      <3>1. seg'[s] = n
        BY <2>1, <2>6
      <3>2. FreshOK(s)'
        BY <1>5, <2>6, Constants DEF FreshOK, Unused
      <3>3. /\ Linked(s)' = Linked(s) /\ GoneUsers' = GoneUsers
            /\ LostOK(s)'
            /\ TmpOK(s) => TmpOK(s)'
            /\ CountOK(s) => CountOK(s)'
        <4>1. /\ Linked(s)' = Linked(s) /\ GoneUsers' = GoneUsers
              /\ LostOK(s) => LostOK(s)'
              /\ TmpOK(s) => TmpOK(s)'
              /\ CountOK(s) => CountOK(s)'
          BY <1>1, <1>2, <1>3, <1>4, <2>3, <3>1, AdminFrame
        <4> QED
          BY <1>2, <4>1 DEF SegOK
      <3>4. WillLook(s)' <=> WillLook(s)
        BY <1>1, <1>3, <1>5, <2>4 DEF WillLook
      <3>5. seg[s].running
        BY <1>1, <1>2, <1>3 DEF SegOK, RunningOK, Active
      <3>6. RunningOK(s)'
        BY <2>3, <3>1, <3>5 DEF RunningOK
      <3>7. OwnerOK(s) => OwnerOK(s)'
        BY <1>1, <1>5, <2>3, <2>4, <3>1 DEF OwnerOK
      <3>8. LockOK(s) => LockOK(s)'
        BY <1>5, <2>3, <2>4, <3>1 DEF LockOK
      <3>9. CutOK(s) => CutOK(s)'
        BY <2>3, <3>1, <3>4 DEF CutOK
      <3>10. OwnerOK(s) => NameOK(s)'
        <4>1. "unmap" \in Active
          BY DEF Active
        <4>2. OwnerOK(s) => \A q \in Admins \ {p} : At(q) = s => pc(q) \notin Active
          BY <1>3, <4>1 DEF OwnerOK
        <4> QED
          BY <1>1, <1>5, <2>3, <2>4, <3>1, <3>5, <4>2 DEF NameOK
      <3>11. WorkerOK(s) => WorkerOK(s)'
        BY <1>1, <1>3, <1>5, <1>6, <2>3, <2>4, <3>1, <3>5 DEF WorkerOK
      <3>12. ServedOK(s) => ServedOK(s)'
        BY <3>3, <3>4 DEF ServedOK
      <3>13. \A by : Unharmed(s, by)' <=> Unharmed(s, by)
        BY <2>3, <3>1 DEF Unharmed
      <3>14. Unharmed(s, {"twice", "renamed"}) => Unharmed(s, {"twice"})
        BY DEF Unharmed
      <3> QED
        BY <1>2, <3>2, <3>3, <3>6, <3>7, <3>8, <3>9, <3>10, <3>11, <3>12, <3>13, <3>14
        DEF SegOK
    <2> QED
      BY <2>5, <2>6
  <1> QED
    BY <1>7, <1>8, <1>9, <1>10 DEF IInv

-----------------------------------------------------------------------------
(* Steps outside the calls. *)

\* Nothing is claimed of what the thread of a server does, only that it is there.
LEMMA MigrateInv ==
  ASSUME IInv, NEW p \in Admins, Migrate(p)
  PROVE  IInv'
  <1>1. TypeOK /\ thread \in [Admins -> {"none", "idle", "moving"}]
    BY DEF IInv, TypeOK
  <1>2. /\ thread' \in [Admins -> {"none", "idle", "moving"}]
        /\ \A q \in Admins : thread'[q] # "none" <=> thread[q] # "none"
        /\ UNCHANGED <<name, seg, proc, crashes>>
    BY <1>1 DEF Migrate
  <1>3. TypeOK'
    BY <1>1, <1>2 DEF TypeOK
  <1>4. \A q \in Procs : pc(q)' = pc(q) /\ At(q)' = At(q)
    BY <1>2 DEF pc, At
  <1>5. Admins \subseteq Procs /\ Users \subseteq Procs
    BY DEF Procs
  <1>6. WhereOK'
    BY <1>2, <1>4, <1>5 DEF IInv, WhereOK
  <1>7. ASSUME NEW s \in Segs PROVE SegOK(s)'
    <2>1. SegOK(s)
      BY DEF IInv
    <2>2. Linked(s)' = Linked(s) /\ GoneUsers' = GoneUsers
      BY <1>2 DEF Linked, GoneUsers, pc, At
    <2>3. WillLook(s)' <=> WillLook(s)
      BY <1>4, <1>5 DEF WillLook
    <2>4. FreshOK(s)' /\ RunningOK(s)' /\ LostOK(s)'
      BY <1>2, <1>4, <2>1, <2>2 DEF SegOK, FreshOK, RunningOK, LostOK
    <2>5. /\ OwnerOK(s) => OwnerOK(s)'
          /\ LockOK(s) => LockOK(s)'
          /\ CutOK(s) => CutOK(s)'
          /\ NameOK(s) => NameOK(s)'
      BY <1>2, <1>4, <1>5, <2>3 DEF OwnerOK, LockOK, CutOK, NameOK
    <2>6. /\ TmpOK(s) => TmpOK(s)'
          /\ CountOK(s) => CountOK(s)'
          /\ ServedOK(s) => ServedOK(s)'
      BY <1>2, <1>4, <1>5, <2>2, <2>3 DEF TmpOK, CountOK, ServedOK
    <2>7. WorkerOK(s) => WorkerOK(s)'
      BY <1>2, <1>4, <1>5 DEF WorkerOK
    <2>8. \A by : Unharmed(s, by)' <=> Unharmed(s, by)
      BY <1>2 DEF Unharmed
    <2> QED
      BY <2>1, <2>4, <2>5, <2>6, <2>7, <2>8 DEF SegOK
  <1> QED
    BY <1>3, <1>6, <1>7 DEF IInv

LEMMA StutterInv == IInv /\ UNCHANGED vars => IInv'
  <1> SUFFICES ASSUME IInv, UNCHANGED vars PROVE IInv'
    OBVIOUS
  <1>1. UNCHANGED <<name, seg, proc, thread, crashes>>
    BY DEF vars
  <1>2. TypeOK'
    BY <1>1 DEF IInv, TypeOK
  <1>3. WhereOK'
    BY <1>1 DEF IInv, WhereOK, At, pc
  <1>4. ASSUME NEW s \in Segs PROVE SegOK(s)'
    <2>1. SegOK(s)
      BY DEF IInv
    <2>2. FreshOK(s)' /\ RunningOK(s)' /\ LostOK(s)'
      BY <1>1, <2>1 DEF SegOK, FreshOK, RunningOK, LostOK, At, pc, GoneUsers
    <2>3. /\ OwnerOK(s) => OwnerOK(s)'
          /\ LockOK(s) => LockOK(s)'
          /\ CutOK(s) => CutOK(s)'
          /\ NameOK(s) => NameOK(s)'
      BY <1>1 DEF OwnerOK, LockOK, CutOK, NameOK, WillLook, At, pc
    <2>4. /\ TmpOK(s) => TmpOK(s)'
          /\ CountOK(s) => CountOK(s)'
          /\ ServedOK(s) => ServedOK(s)'
          /\ WorkerOK(s) => WorkerOK(s)'
      BY <1>1 DEF TmpOK, CountOK, ServedOK, WorkerOK, WillLook, Linked, At, pc
    <2>5. \A by : Unharmed(s, by)' <=> Unharmed(s, by)
      BY <1>1 DEF Unharmed
    <2> QED
      BY <2>1, <2>2, <2>3, <2>4, <2>5 DEF SegOK
  <1> QED
    BY <1>2, <1>3, <1>4 DEF IInv

\* The death of p.  A scar excuses what it leaves behind: the lock it held and
\* the worker that is gone with it; a user that dies linked stays in the count.
LEMMA CrashInv ==
  ASSUME IInv, NEW p \in Procs, NEW s \in Segs, s = At(p), Crash(p)
  PROVE  IInv'
  <1> DEFINE inside == pc(p) \in InsideLock
             worked == p \in Admins /\ thread[p] # "none"
             holds == scarred(seg[s], inside, "stuck")
             counted == p \in Users /\ p \in Linked(s)
             r == IF p \in Users
                  THEN [holds EXCEPT !.lost = IF p \in Linked(s) THEN @ + 1 ELSE @]
                  ELSE scarred(holds, thread[p] # "none", "died")
  <1>1. Admins \subseteq Procs /\ Users \subseteq Procs /\ \A q \in Admins : q \notin Users
    BY Constants DEF Procs
  <1>2. /\ TypeOK /\ proc[p] \in ProcRecord /\ seg[s] \in SegRecord /\ SegOK(s)
        /\ thread \in [Admins -> {"none", "idle", "moving"}]
        /\ seg[s].lost \in Nat /\ cache(p) = seg[s] /\ p \in Admins \cup Users
    BY <1>1, Typed DEF IInv, TypeOK
  <1>3. MaxCrashes \in Nat /\ crashes \in Nat /\ crashes' \in 0 .. MaxCrashes /\ crashes' = crashes + 1
    BY <1>2, LifecycleAssumption DEF LifecycleAssumption, TypeOK, Crash
  <1>4. /\ leaves(p, r)
        /\ thread' = IF p \in Users THEN thread ELSE [thread EXCEPT ![p] = "none"]
    BY <1>1, <1>2 DEF Crash
  <1>5. /\ thread' \in [Admins -> {"none", "idle", "moving"}]
        /\ \A q \in Admins \ {p} : thread'[q] = thread[q]
        /\ p \in Admins => thread'[p] = "none"
    BY <1>1, <1>2, <1>4
  <1>6. seg[s].lost + 1 <= MaxCrashes
    BY <1>2, <1>3 DEF SegOK, LostOK
  <1>7. /\ r \in SegRecord
        /\ r.running = seg[s].running /\ r.count = seg[s].count /\ r.locked = seg[s].locked
        /\ r.worker = seg[s].worker
        /\ r.lost = IF counted THEN seg[s].lost + 1 ELSE seg[s].lost
        /\ \A by : "twice" \in by /\ r.scars \cap by = {} =>
                     seg[s].scars \cap by = {} /\ ~(worked /\ "died" \in by)
        /\ "cut" \in r.scars => "cut" \in seg[s].scars
    <2>1. "stuck" \in Scars /\ "died" \in Scars
      BY DEF Scars
    <2> HIDE DEF inside
    <2>2. /\ holds \in SegRecord
          /\ holds.running = seg[s].running /\ holds.count = seg[s].count
          /\ holds.locked = seg[s].locked
          /\ holds.worker = seg[s].worker /\ holds.lost = seg[s].lost
          /\ \A by : "twice" \in by /\ holds.scars \cap by = {} => seg[s].scars \cap by = {}
          /\ "cut" \in holds.scars => "cut" \in seg[s].scars
      BY <1>2, <2>1, Scarred
    <2> HIDE DEF holds
    <2>3. CASE p \in Users
      <3> DEFINE n == IF p \in Linked(s) THEN holds.lost + 1 ELSE holds.lost
      <3>1. n \in 0 .. MaxCrashes /\ n = IF counted THEN seg[s].lost + 1 ELSE seg[s].lost
        BY <1>2, <1>3, <1>6, <2>2, <2>3
      <3>2. r = [holds EXCEPT !.lost = n]
        BY <2>3
      <3>3. ~worked
        BY <1>1, <2>3
      <3> HIDE DEF n, r, worked, counted
      <3>4. r \in SegRecord
        BY <2>2, <3>1, <3>2 DEF SegRecord
      <3>5. /\ r.running = holds.running /\ r.count = holds.count /\ r.locked = holds.locked
            /\ r.worker = holds.worker /\ r.lost = n /\ r.scars = holds.scars
        BY <2>2, <3>2 DEF SegRecord
      <3> QED
        BY <2>2, <3>1, <3>3, <3>4, <3>5
    <2>4. CASE p \in Admins
      <3> DEFINE dies == thread[p] # "none"
      <3>1. r = scarred(holds, dies, "died") /\ ~counted
        BY <1>1, <2>4
      <3>2. worked <=> dies
        BY <2>4
      <3> HIDE DEF dies, r, worked, counted
      <3> QED
        BY <2>1, <2>2, <3>1, <3>2, Scarred
    <2> QED
      BY <1>2, <2>3, <2>4
  <1> HIDE DEF r, holds, inside
  <1>8. /\ TypeOK' /\ WhereOK' /\ name' = name
        /\ \A q \in Procs \ {p} : proc'[q] = proc[q] /\ pc(q)' = pc(q) /\ At(q)' = At(q)
        /\ At(p)' # s /\ pc(p)' = "gone"
        /\ p \in Users => Linked(s)' = Linked(s) \ {p}
        /\ Cardinality(GoneUsers) \in Nat /\ Cardinality(GoneUsers') \in Nat
        /\ Cardinality(GoneUsers) <= Cardinality(GoneUsers')
        /\ p \in Users => Cardinality(GoneUsers') = Cardinality(GoneUsers) + 1
        /\ p \in Users => Cardinality(Linked(s)') =
                            IF p \in Linked(s) THEN Cardinality(Linked(s)) - 1
                                               ELSE Cardinality(Linked(s))
    BY <1>3, <1>4, <1>5, <1>7, LeaveFacts
  <1>9. p \in Admins => Linked(s)' = Linked(s)
    BY <1>1, <1>8 DEF Linked
  <1>10. ASSUME FreshOK(s)', seg'[s] = r PROVE SegOK(s)'
    <2>1. \A by : "twice" \in by /\ Unharmed(s, by)' => Unharmed(s, by)
      BY <1>7, <1>10 DEF Unharmed
    <2>2. RunningOK(s)'
      BY <1>1, <1>2, <1>7, <1>8, <1>10 DEF SegOK, RunningOK
    <2>3. LostOK(s)'
      BY <1>2, <1>3, <1>7, <1>8, <1>10 DEF SegOK, LostOK
    <2>4. OwnerOK(s) => OwnerOK(s)'
      BY <1>1, <1>7, <1>8, <1>10 DEF OwnerOK
    <2>5. LockOK(s) => LockOK(s)'
      BY <1>1, <1>7, <1>8, <1>10 DEF LockOK
    <2>6. WillLook(s)' => WillLook(s)
      BY <1>1, <1>8 DEF WillLook
    <2>7. CutOK(s) => CutOK(s)'
      BY <1>7, <1>10, <2>6 DEF CutOK
    <2>8. NameOK(s) => NameOK(s)'
      BY <1>1, <1>7, <1>8, <1>10 DEF NameOK
    <2>9. TmpOK(s) => TmpOK(s)'
      BY <1>1, <1>7, <1>8, <1>10 DEF TmpOK
    <2>10. CountOK(s) => CountOK(s)'
      <3>1. Cardinality(Linked(s)) \in Nat
        BY LinkedFinite
      <3> QED
        BY <1>1, <1>2, <1>7, <1>8, <1>9, <1>10, <3>1 DEF CountOK
    <2>11. WorkerOK(s) => WorkerOK(s)' \/ worked
      <3>1. p \in Admins /\ pc(p) = "publish" => worked \/ ~WorkerOK(s)
        <4>1. "publish" \in Active \ {"join", "unmap"}
          BY DEF Active
        <4> QED
          BY <4>1 DEF WorkerOK
      <3> QED
        BY <1>1, <1>5, <1>7, <1>8, <1>10, <3>1 DEF WorkerOK
    <2>12. Unharmed(s, {"twice", "died"})' => ~worked
      BY <1>7, <1>10 DEF Unharmed
    <2>13. WorkerOK(s) /\ ServedOK(s) => ServedOK(s)' \/ worked
      <3>1. p \in Admins /\ pc(p) \in Looking => worked \/ ~WorkerOK(s)
        <4>1. Looking \subseteq Active \ {"join", "unmap"}
          BY DEF Active, Looking
        <4> QED
          BY <4>1 DEF WorkerOK
      <3>2. ~(p \in Admins /\ pc(p) \in Looking) => (WillLook(s) => WillLook(s)')
        BY <1>1, <1>8 DEF WillLook, Looking
      <3>3. Linked(s)' \subseteq Linked(s)
        BY <1>2, <1>8, <1>9
      <3> QED
        BY <3>1, <3>2, <3>3 DEF ServedOK
    <2>14. Unharmed(s, {"twice", "died", "wiped", "late"})' =>
             Unharmed(s, {"twice", "died"})'
      BY DEF Unharmed
    <2>15. LostOK(s) /\ RunningOK(s)
      BY <1>2 DEF SegOK
    <2> QED
      BY <1>2, <1>10, <2>1, <2>2, <2>3, <2>4, <2>5, <2>7, <2>8, <2>9, <2>10, <2>11, <2>12,
         <2>13, <2>14 DEF SegOK
  <1>11. crashes' \in Nat /\ crashes <= crashes'
    BY <1>3
  <1> QED
    BY <1>4, <1>5, <1>8, <1>10, <1>11, Leaving DEF IInv

-----------------------------------------------------------------------------
(* The invariant. *)

LEMMA InitIInv == Init => IInv
  <1> SUFFICES ASSUME Init PROVE IInv
    OBVIOUS
  <1>1. /\ name = NoSeg /\ crashes = 0 /\ seg = [s \in Segs |-> Zeroed]
        /\ thread = [a \in Admins |-> "none"]
        /\ proc = [p \in Procs |-> [Gone EXCEPT !.pc = "idle"]]
    BY DEF Init
  <1>2. \A p \in Procs : pc(p) = "idle" /\ At(p) = NoSeg
    BY <1>1 DEF pc, At, Gone
  <1>3. TypeOK
    <2>1. [Gone EXCEPT !.pc = "idle"] \in ProcRecord
      BY Constants DEF Gone, ProcRecord, PCs
    <2>2. MaxCrashes \in Nat
      BY LifecycleAssumption DEF LifecycleAssumption
    <2> QED
      BY <1>1, <2>1, <2>2, ZeroedType DEF TypeOK
  <1>4. WhereOK
    BY <1>1, <1>2 DEF WhereOK, Unmapped, Procs
  <1>5. ASSUME NEW s \in Segs PROVE SegOK(s)
    <2>1. /\ seg[s] = Zeroed /\ ~Zeroed.running /\ Zeroed.count = 0 /\ Zeroed.lost = 0
          /\ Zeroed.scars = {} /\ Zeroed.worker = NoProc
      BY <1>1 DEF Zeroed
    <2>2. \A p \in Procs : At(p) # s
      BY <1>2, Constants
    <2>3. Admins \subseteq Procs /\ Users \subseteq Procs
      BY DEF Procs
    <2>4. Linked(s) = {}
      BY <2>2, <2>3 DEF Linked
    <2>5. LostOK(s)
      BY <1>1, <2>1, LinkedFinite DEF LostOK
    <2>6. FreshOK(s) /\ RunningOK(s) /\ OwnerOK(s) /\ LockOK(s) /\ CutOK(s) /\ NameOK(s) /\ TmpOK(s)
      BY <2>1, <2>2, <2>3 DEF FreshOK, RunningOK, OwnerOK, LockOK, CutOK, NameOK, TmpOK
    <2>7. CountOK(s) /\ WorkerOK(s) /\ ServedOK(s)
      BY <2>1, <2>2, <2>3, <2>4, FS_EmptySet DEF CountOK, WorkerOK, ServedOK
    <2> QED
      BY <2>5, <2>6, <2>7 DEF SegOK
  <1> QED
    BY <1>3, <1>4, <1>5 DEF IInv

\* Whoever is inside a segment has it mapped.
LEMMA Mapped ==
  ASSUME IInv, NEW p \in Procs, pc(p) \notin Unmapped
  PROVE  At(p) \in Segs /\ cache(p) = seg[At(p)]
  BY Typed

LEMMA AdminStepInv ==
  ASSUME IInv, NEW p \in Admins, AdminCall(p) \/ AdminStep(p) \/ Migrate(p) \/ Cancelled(p)
  PROVE  IInv'
  <1> DEFINE s == At(p)
  <1>1. p \in Procs /\ p \notin Users
    BY Constants DEF Procs
  <1>2. pc(p) \notin Unmapped => s \in Segs /\ cache(p) = seg[s]
    BY <1>1, Mapped
  <1> HIDE DEF s
  <1>3. s = At(p)
    BY DEF s
  <1>4. CASE force_exit_ssd_cache(p)
    BY <1>4, ForceExitInv
  <1>5. CASE CallInit(p)
    BY <1>5, CallInitInv
  <1>6. CASE CallExit(p)
    <2>1. goes(p, "serving", "x_lock") /\ UNCHANGED <<name, seg, thread, crashes>>
      BY <1>6 DEF CallExit
    <2>2. s \in Segs
      BY <1>2, <2>1 DEF goes, Unmapped
    <2> QED
      BY <1>3, <2>1, <2>2, PlainMoveInv
  <1>7. CASE alloc_shm(p, "init", "check")
    BY <1>7, AllocShmInv
  <1>8. CASE Check(p)
    <2>1. s \in Segs /\ cache(p) = seg[s] /\ pc(p) = "check"
      BY <1>2, <1>8 DEF Check, Unmapped
    <2>2. CASE goes(p, "check", "build") /\ UNCHANGED <<name, seg>>
      <3>1. UNCHANGED <<name, seg, thread, crashes>>
        BY <1>8, <2>2 DEF Check
      <3> QED
        BY <1>3, <2>1, <2>2, <3>1, PlainMoveInv
    <2>3. CASE leaves(p, cache(p))
      <3>1. UNCHANGED <<thread, crashes>>
        BY <1>8 DEF Check
      <3>2. thread \in [Admins -> {"none", "idle", "moving"}]
        BY DEF IInv, TypeOK
      <3>3. thread'[p] = "none" /\ pc(p) \notin Looking
        BY <2>1, <3>1 DEF IInv, WhereOK, Active, Looking
      <3> QED
        BY <1>1, <1>3, <2>1, <2>3, <3>1, <3>2, <3>3, QuietLeaveInv
    <2> QED
      BY <1>8, <2>2, <2>3 DEF Check
  <1>9. CASE Build(p)
    BY <1>2, <1>3, <1>9, BuildInv DEF Build, goes, Unmapped
  <1>10. CASE Publish(p)
    BY <1>2, <1>3, <1>10, PublishInv DEF Publish, goes, Unmapped
  <1>11. CASE ClearCount(p)
    BY <1>2, <1>3, <1>11, ClearCountInv DEF ClearCount, goes, Unmapped
  <1>12. CASE Look(p)
    BY <1>2, <1>3, <1>12, LookInv DEF Look, spinlock_lock, Unmapped
  <1>13. CASE LookAgain(p)
    BY <1>2, <1>3, <1>13, LookAgainInv DEF LookAgain, goes, Unmapped
  <1>14. CASE Stop(p)
    <2>1. s \in Segs /\ cache(p) = seg[s] /\ pc(p) = "stop"
      BY <1>2, <1>14 DEF Stop, Unmapped
    <2>2. UNCHANGED crashes
      BY <1>14 DEF Stop
    <2>3. CASE \/ goes(p, "stop", "join") /\ UNCHANGED <<name, seg, thread>>
               \/ goes(p, "stop", "unmap") /\ UNCHANGED <<name, seg, thread>>
      BY <1>3, <2>1, <2>2, <2>3, PlainMoveInv
    <2>4. CASE /\ goes(p, "stop", "unmap") /\ set(p, [cache(p) EXCEPT !.worker = NoProc])
               /\ UNCHANGED <<name, thread>> /\ cache(p).worker # p
      BY <1>3, <2>1, <2>2, <2>4, ForgetInv
    <2>5. CASE leaves(p, cache(p)) /\ thread' = [thread EXCEPT ![p] = "none"]
      <3>1. thread \in [Admins -> {"none", "idle", "moving"}]
        BY DEF IInv, TypeOK
      <3>2. /\ thread' \in [Admins -> {"none", "idle", "moving"}] /\ thread'[p] = "none"
            /\ \A q \in Admins \ {p} : thread'[q] = thread[q]
        BY <2>5, <3>1
      <3>3. pc(p) \notin Looking
        BY <2>1 DEF Looking
      <3> QED
        BY <1>1, <1>3, <2>1, <2>2, <2>5, <3>2, <3>3, QuietLeaveInv
    <2> QED
      BY <1>14, <2>3, <2>4, <2>5 DEF Stop
  <1>15. CASE Join(p)
    <2>1. /\ goes(p, "join", "unmap") /\ set(p, [cache(p) EXCEPT !.worker = NoProc])
          /\ UNCHANGED <<name, thread, crashes>>
      BY <1>15 DEF Join
    <2>2. s \in Segs
      BY <1>2, <2>1 DEF goes, Unmapped
    <2> QED
      BY <1>3, <2>1, <2>2, ForgetInv
  <1>16. CASE Unmap(p)
    BY <1>2, <1>3, <1>16, UnmapInv DEF Unmap, Unmapped
  <1>17. CASE Migrate(p)
    BY <1>17, MigrateInv
  <1>18. CASE Cancelled(p)
    BY <1>2, <1>3, <1>18, CancelledInv DEF Cancelled, Unmapped
  <1> QED
    BY <1>4, <1>5, <1>6, <1>7, <1>8, <1>9, <1>10, <1>11, <1>12, <1>13, <1>14, <1>15, <1>16,
       <1>17, <1>18 DEF AdminCall, AdminStep

LEMMA UserStepInv ==
  ASSUME IInv, NEW p \in Users, UserCall(p) \/ UserStep(p)
  PROVE  IInv'
  <1> DEFINE s == At(p)
  <1>1. p \in Procs /\ p \notin Admins
    BY Constants DEF Procs
  <1>2. pc(p) \notin Unmapped => s \in Segs /\ cache(p) = seg[s]
    BY <1>1, Mapped
  <1> HIDE DEF s
  <1>3. s = At(p)
    BY DEF s
  <1>4. CASE link_shm(p, "idle", "l_check")
    BY <1>4, LinkShmInv
  <1>5. CASE CallUnlink(p)
    <2>1. goes(p, "using", "u_lock") /\ cache(p).running /\ UNCHANGED <<name, seg, thread, crashes>>
      BY <1>5 DEF CallUnlink
    <2>2. s \in Segs /\ seg[s].running
      BY <1>2, <2>1 DEF goes, Unmapped
    <2> QED
      BY <1>3, <2>1, <2>2, UserMoveInv
  <1>6. CASE LinkCheck(p)
    <2>1. s \in Segs /\ cache(p) = seg[s] /\ pc(p) = "l_check" /\ UNCHANGED <<thread, crashes>>
      BY <1>2, <1>6 DEF LinkCheck, Unmapped
    <2>2. CASE cache(p).running /\ goes(p, "l_check", "l_lock") /\ UNCHANGED <<name, seg>>
      BY <1>3, <2>1, <2>2, UserMoveInv
    <2>3. CASE leaves(p, cache(p))
      <3>1. thread \in [Admins -> {"none", "idle", "moving"}]
        BY DEF IInv, TypeOK
      <3>2. pc(p) \notin Counted
        BY <2>1 DEF Counted
      <3> QED
        BY <1>1, <1>3, <2>1, <2>3, <3>1, <3>2, QuietLeaveInv
    <2> QED
      BY <1>6, <2>2, <2>3 DEF LinkCheck
  <1>7. CASE LockAndLoad(p, "l_lock", "l_store")
    BY <1>2, <1>3, <1>7, LockAndLoadInv DEF LockAndLoad, spinlock_lock, Unmapped
  <1>8. CASE LinkStore(p)
    BY <1>2, <1>3, <1>8, LinkStoreInv DEF LinkStore, Unmapped
  <1>9. CASE LockAndLoad(p, "u_lock", "u_store")
    BY <1>2, <1>3, <1>9, LockAndLoadInv DEF LockAndLoad, spinlock_lock, Unmapped
  <1>10. CASE UnlinkStore(p)
    BY <1>2, <1>3, <1>10, UnlinkStoreInv DEF UnlinkStore, Unmapped
  <1> QED
    BY <1>4, <1>5, <1>6, <1>7, <1>8, <1>9, <1>10 DEF UserCall, UserStep

LEMMA StepIInv == IInv /\ [Next]_vars => IInv'
  <1> SUFFICES ASSUME IInv, [Next]_vars PROVE IInv'
    OBVIOUS
  <1>1. ASSUME NEW p \in Admins, AdminCall(p) \/ AdminStep(p) \/ Migrate(p) \/ Cancelled(p)
        PROVE  IInv'
    BY <1>1, AdminStepInv
  <1>2. ASSUME NEW p \in Users, UserCall(p) \/ UserStep(p) PROVE IInv'
    BY <1>2, UserStepInv
  <1>3. ASSUME NEW p \in Procs, Crash(p) PROVE IInv'
    <2>1. PICK s \in Segs : s = At(p)
      BY <1>3, Typed DEF Crash
    <2> QED
      BY <1>3, <2>1, CrashInv
  <1>4. CASE UNCHANGED vars
    BY <1>4, StutterInv
  <1> QED
    BY <1>1, <1>2, <1>3, <1>4 DEF Next

\* IInv holds in every state of every behaviour.
THEOREM Invariance == Spec => []IInv
  BY InitIInv, StepIInv, PTL DEF Spec

-----------------------------------------------------------------------------
(* What follows from it. *)

\* Every field keeps its type, the count in spite of users that leave a cache
\* whose init wiped it.
THEOREM TypeCorrect == Spec => []TypeOK
  <1>1. IInv => TypeOK
    BY DEF IInv
  <1> QED
    BY <1>1, Invariance, PTL

\* The count by which exit decides is the number of the users that are linked
\* or died linked, unless the segment was initialised twice or wiped.
THEOREM UsersCounted == Spec => []CountIsUsers
  <1>1. ASSUME IInv, NEW s \in Segs, Unharmed(s, {"wiped", "twice"})
        PROVE  seg[s].count = (Cardinality(Linked(s)) + seg[s].lost) % COUNT_MOD
    <2> DEFINE n == seg[s].count
               M == COUNT_MOD
    <2>1. Unharmed(s, {"twice", "wiped"})
      BY <1>1 DEF Unharmed
    <2>2. n = Cardinality(Linked(s)) + seg[s].lost
      BY <1>1, <2>1 DEF IInv, SegOK, CountOK
    <2>3. n \in 0 .. M - 1 /\ M \in Nat /\ M > 0
      BY <1>1, Constants DEF IInv, TypeOK, SegRecord
    <2> HIDE DEF n, M
    <2>4. n % M = n
      BY <2>3
    <2> QED
      BY <2>2, <2>4 DEF n, M
  <1>2. IInv => CountIsUsers
    BY <1>1 DEF CountIsUsers
  <1> QED
    BY <1>2, Invariance, PTL

\* A linked user has a worker, and its cache no block that a cancelled migration
\* left pending, whatever order link, unlink, exit and the cancellation take.
THEOREM UsersServed == Spec => []Served
  <1>1. ASSUME IInv, NEW p \in Users, pc(p) = "using",
               Unharmed(At(p), {"late", "wiped", "died", "twice"})
        PROVE  /\ \E q \in Admins : At(q) = At(p) /\ thread[q] # "none" /\ pc(q) # "join"
               /\ Unharmed(At(p), {"cut"})
    <2> DEFINE s == At(p)
    <2>1. p \in Procs
      BY DEF Procs
    <2>2. s \in Segs /\ SegOK(s)
      BY <1>1, <2>1, Typed DEF Unmapped
    <2>3. /\ Unharmed(s, {"twice"}) /\ Unharmed(s, {"twice", "died"})
          /\ Unharmed(s, {"twice", "died", "wiped", "late"})
      BY <1>1 DEF Unharmed
    <2>4. CutOK(s) /\ WorkerOK(s) /\ ServedOK(s)
      BY <2>2, <2>3 DEF SegOK
    <2>5. p \in Linked(s)
      BY <1>1 DEF Linked
    <2>6. WillLook(s)
      BY <2>4, <2>5 DEF ServedOK
    <2>7. PICK q \in Admins :
            At(q) = s /\ pc(q) \in {"publish", "clear", "serving", "x_lock", "busy"}
      BY <2>6 DEF WillLook
    <2>8. pc(q) \in Active \ {"join", "unmap"}
      BY <2>7 DEF Active
    <2>9. thread[q] # "none"
      BY <2>4, <2>7, <2>8 DEF WorkerOK
    <2>10. "cut" \notin seg[s].scars
      BY <2>4, <2>6 DEF CutOK
    <2> QED
      BY <2>7, <2>8, <2>9, <2>10 DEF Unharmed
  <1>2. IInv => Served
    BY <1>1 DEF Served
  <1> QED
    BY <1>2, Invariance, PTL

\* The server that is serving has the name, unless the name was taken from it.
THEOREM NameServes == Spec => []ServerIsNamed
  <1>1. ASSUME IInv, NEW p \in Admins, pc(p) = "serving", Unharmed(At(p), {"renamed", "twice"})
        PROVE  name = At(p)
    <2>1. p \in Procs
      BY DEF Procs
    <2>2. At(p) \in Segs /\ SegOK(At(p))
      BY <1>1, <2>1, Typed DEF Unmapped
    <2>3. Unharmed(At(p), {"twice", "renamed"})
      BY <1>1 DEF Unharmed
    <2>4. NameOK(At(p))
      BY <2>2, <2>3 DEF SegOK
    <2> QED
      BY <1>1, <2>4 DEF NameOK, Starting, Active
  <1>2. IInv => ServerIsNamed
    BY <1>1 DEF ServerIsNamed
  <1> QED
    BY <1>2, Invariance, PTL

\* Two migration threads never work on the one device, unless the name of one
\* of their segments was taken away: only the server that has the name runs a
\* thread, and it keeps the name until the thread is gone.
THEOREM OneWorkerOnly == Spec => []OneWorker
  <1>1. ASSUME IInv, NEW p \in Admins, thread[p] # "none", Unharmed(At(p), {"renamed", "twice"})
        PROVE  /\ At(p) \in Segs /\ name = At(p) /\ pc(p) \in Active
               /\ OwnerOK(At(p))
    <2>1. p \in Procs
      BY DEF Procs
    <2>2. pc(p) \in Active
      BY <1>1 DEF IInv, WhereOK
    <2>3. At(p) \in Segs /\ SegOK(At(p))
      BY <1>1, <2>1, <2>2, Typed DEF Unmapped, Active
    <2>4. Unharmed(At(p), {"twice", "renamed"}) /\ Unharmed(At(p), {"twice"})
      BY <1>1 DEF Unharmed
    <2>5. NameOK(At(p)) /\ OwnerOK(At(p))
      BY <2>3, <2>4 DEF SegOK
    <2>6. pc(p) \notin Starting
      BY <2>2 DEF Active, Starting
    <2> QED
      BY <2>2, <2>3, <2>5, <2>6 DEF NameOK
  <1>2. ASSUME IInv, NEW p \in Admins, NEW q \in Admins, thread[p] # "none", thread[q] # "none",
               Unharmed(At(p), {"renamed", "twice"}), Unharmed(At(q), {"renamed", "twice"})
        PROVE  p = q
    BY <1>1, <1>2 DEF OwnerOK
  <1>3. IInv => OneWorker
    BY <1>2 DEF OneWorker
  <1> QED
    BY <1>3, Invariance, PTL
=============================================================================
