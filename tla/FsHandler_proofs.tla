--------------------------- MODULE FsHandler_proofs ---------------------------
(***************************************************************************)
(* Proofs about FsHandler, for every set of volumes and of programs and    *)
(* however many packets they send.                                         *)
(***************************************************************************)
EXTENDS FsHandler, FiniteSetTheorems, TLAPS

-------------------------------------------------------------------------------
(* The inductive invariant.                                                *)

\* A volume's node is one that is in memory and no other volume's. The locks
\* in the list of a node are those that point to it, and of the volume whose
\* node it is.
NodesInv ==
  /\ \A v \in Volumes : entry[v].node \in DOMAIN lists \cup {NullNode}
  /\ \A v, w \in Volumes :
        entry[v].node = entry[w].node /\ entry[v].node # NullNode => v = w
  /\ \A n \in DOMAIN lists : \A l \in lists[n] : objs[l] # Freed /\ objs[l].node = n
  /\ \A l \in Made : objs[l] # Freed /\ objs[l].node \in DOMAIN lists
                        => l \in lists[objs[l].node]
  /\ \A v \in Volumes : \A l \in Linked(v) : objs[l].vol = v
  /\ \A l \in Made : objs[l].node <= nodes

\* A volume that is not in the list has no lock left, and no packet; this is so
\* until the handler ends, when it drops what is still in use.
AbsentInv ==
  /\ pc # "done" => \A v \in Volumes :
        ~ Exists(v) => LocksOf(v) = {} /\ port[v] = <<>>
  /\ pc = "done" => \A v \in Volumes : ~ Exists(v)
  /\ pc = "drain" => shutdown > 0

\* A lock or a file is one program's, and a packet about it is that program's;
\* with the packet that gives it back the program has no other use of it.
OwnersInv ==
  /\ \A p \in Programs :
        LET k == prog[p].packet
        IN /\ k.op \in {"none", "volume"} => k.lock = NoLock
           /\ k.op = "use" => k.lock \in prog[p].holds
           /\ k.op = "release" => k.lock \in Made \ prog[p].holds
  /\ \A p, q \in Programs : p # q => Owns(p) \cap Owns(q) = {}

\* The host gives every handle once while it is up; and without trouble every
\* volume has its node.
HandlesInv ==
  /\ host.open \subseteq 1 .. host.unique
  /\ ~ host.ended => /\ host.up
                     /\ \A l \in Made : objs[l].key <= host.unique
  /\ trouble = 0 => \A v \in Volumes : Exists(v) => entry[v].node # NullNode

IInv ==
  /\ TypeOK
  /\ NodesInv
  /\ UseCounts
  /\ AbsentInv
  /\ OwnersInv
  /\ HeldAlive
  /\ HandlesInv
  /\ HandlesOwned

-------------------------------------------------------------------------------
(* Entries, nodes and locks.                                               *)

USE HandlerAssumption

LEMMA Kinds ==
  /\ \A x \in Locks : x # Freed
  /\ \A e \in Entries : e # NoEntry
  /\ NoEntry.use = -1 /\ NoEntry.node = NullNode /\ NoEntry.handle = 0
BY DEF Locks, Freed, Entries, NoEntry, NullNode

LEMMA EntryType ==
  ASSUME TypeOK, NEW v \in Volumes
  PROVE  /\ Exists(v) => entry[v] \in Entries
         /\ ~ Exists(v) => entry[v] = NoEntry
         /\ entry[v].node \in Nat /\ entry[v].handle \in Nat
<1>1. entry[v] \in Entries \cup {NoEntry}
  BY DEF TypeOK
<1> QED BY <1>1, Kinds DEF Exists, Entries, NullNode

\* One lock more changes nothing else of an entry.
LEMMA OneMore ==
  ASSUME NEW e \in Entries, NEW f, f = [e EXCEPT !.use = @ + 1]
  PROVE  f \in Entries /\ f.use = e.use + 1 /\ f.node = e.node /\ f.handle = e.handle
BY DEF Entries

LEMMA LockType ==
  ASSUME TypeOK, NEW l \in Made, objs[l] # Freed
  PROVE  objs[l] \in Locks
BY DEF TypeOK, Made

LEMMA FiniteLocks ==
  ASSUME TypeOK, NEW v
  PROVE  IsFiniteSet(LocksOf(v)) /\ Cardinality(LocksOf(v)) \in Nat
<1>1. Len(objs) \in Int
  BY DEF TypeOK
<1>2. IsFiniteSet(Made)
  BY <1>1, FS_Interval DEF Made
<1>3. LocksOf(v) \subseteq Made
  BY DEF LocksOf
<1> QED BY <1>2, <1>3, FS_Subset, FS_CardinalityType

\* The locks in the list of a volume's node are the volume's.
LEMMA LinkedLocks ==
  ASSUME TypeOK, NodesInv, NEW v \in Volumes
  PROVE  Linked(v) \subseteq LocksOf(v)
<1> SUFFICES ASSUME NEW l \in Linked(v) PROVE l \in LocksOf(v)
  OBVIOUS
<1>1. entry[v].node \in DOMAIN lists /\ l \in lists[entry[v].node]
  BY DEF Linked, NodesInv
<1>2. l \in Made
  BY <1>1 DEF TypeOK
<1>3. objs[l] # Freed /\ objs[l].vol = v
  BY <1>1 DEF NodesInv
<1> QED BY <1>1, <1>2, <1>3 DEF LocksOf

\* The lock of a program is among those its volume counts.
LEMMA OwnedCounted ==
  ASSUME IInv, pc # "done", NEW p \in Programs, NEW l \in Owns(p)
  PROVE  /\ l \in Made /\ objs[l] \in Locks /\ objs[l].vol \in Volumes
         /\ Exists(objs[l].vol) /\ objs[l].node \in DOMAIN lists
         /\ l \in LocksOf(objs[l].vol)
         /\ entry[objs[l].vol].use \in Nat \ {0}
<1>0. TypeOK /\ NodesInv /\ UseCounts /\ OwnersInv
  BY DEF IInv
<1>1. Alive(l)
  BY DEF IInv, HeldAlive
<1>2. prog[p] \in [packet : Packets, holds : SUBSET Made]
  BY <1>0 DEF TypeOK
<1>3. l \in Made
  <2>1. CASE l \in prog[p].holds
    BY <1>2, <2>1
  <2>2. CASE l = prog[p].packet.lock /\ l # NoLock
    BY <1>0, <1>2, <2>2 DEF OwnersInv, Packets
  <2> QED BY <2>1, <2>2 DEF Owns
<1>4. objs[l] \in Locks /\ objs[l].vol \in Volumes
  BY <1>0, <1>1, <1>3, LockType DEF Alive, Locks
<1>5. l \in lists[objs[l].node] /\ l \in LocksOf(objs[l].vol)
  BY <1>0, <1>1, <1>3 DEF Alive, NodesInv, LocksOf
<1>6. entry[objs[l].vol] \in Entries
  BY <1>0, <1>1, <1>4, EntryType DEF Alive
<1>7. entry[objs[l].vol].use = Cardinality(LocksOf(objs[l].vol))
  BY <1>0, <1>1, <1>4 DEF UseCounts, Alive
<1>8. Cardinality(LocksOf(objs[l].vol)) # 0
  BY <1>0, <1>5, FiniteLocks, FS_EmptySet
<1> QED BY <1>1, <1>3, <1>4, <1>5, <1>6, <1>7, <1>8 DEF Alive, Entries

\* What does not change with the volumes and their locks.
LEMMA SameNodes ==
  ASSUME UNCHANGED <<volVars, objs>>
  PROVE  /\ entry' = entry /\ lists' = lists /\ nodes' = nodes /\ objs' = objs
         /\ Made' = Made
         /\ \A v : Exists(v)' <=> Exists(v)
         /\ \A v : LocksOf(v)' = LocksOf(v)
         /\ NodesInv => NodesInv'
         /\ UseCounts => UseCounts'
<1>1. entry' = entry /\ lists' = lists /\ nodes' = nodes /\ objs' = objs
  BY DEF volVars
<1>2. Made' = Made
  BY <1>1 DEF Made
<1>3. \A v : LocksOf(v)' = LocksOf(v)
  BY <1>1, <1>2 DEF LocksOf
<1>4. NodesInv => NodesInv'
  BY <1>1, <1>2 DEF NodesInv, Linked
<1>5. UseCounts => UseCounts'
  BY <1>1, <1>3 DEF UseCounts, Exists
<1> QED BY <1>1, <1>2, <1>3, <1>4, <1>5 DEF Exists

\* HandlesOwned, a handle at a time.
LEMMA OwnedForm ==
  HandlesOwned <=>
    (trouble = 0 /\ ~ host.ended /\ pc # "done" => \A h \in host.open \ host.lost :
       \/ \E v \in Volumes : h = entry[v].handle
       \/ \E p \in Programs : \E l \in Owns(p) : h = objs[l].handle)
BY DEF HandlesOwned

LEMMA OwnedFormNext ==
  (HandlesOwned <=>
    (trouble = 0 /\ ~ host.ended /\ pc # "done" => \A h \in host.open \ host.lost :
       \/ \E v \in Volumes : h = entry[v].handle
       \/ \E p \in Programs : \E l \in Owns(p) : h = objs[l].handle))'
BY OwnedForm, PTL

-------------------------------------------------------------------------------
(* The handles of the host.                                                *)

\* The file server has given a handle or closed some; it is the same otherwise.
Follows(s, t) ==
  /\ t \in Hosts /\ t.unique \in Nat /\ s.unique <= t.unique
  /\ (t.ended <=> s.ended) /\ (t.up <=> s.up)
  /\ t.open \subseteq 1 .. t.unique

\* The handles somebody has to be responsible for.
Known(s) == s.open \ s.lost

\* What one host handle more is made of.
LEMMA Opening ==
  ASSUME NEW s \in Hosts, s.open \subseteq 1 .. s.unique
  PROVE  /\ Follows(s, Opened(s)) /\ Opened(s).unique = s.unique + 1
         /\ s.unique \in Nat
         /\ Opened(s).open = s.open \cup {s.unique + 1}
         /\ Known(Opened(s)) \subseteq Known(s) \cup {s.unique + 1}
<1> DEFINE t == Opened(s)
<1>1. /\ t.unique = s.unique + 1 /\ t.open = s.open \cup {s.unique + 1}
      /\ t.lost = s.lost
  BY DEF Opened, Hosts
<1>2. /\ (t.ended <=> s.ended) /\ (t.up <=> s.up)
      /\ t.vols = s.vols
  BY DEF Opened, Hosts
<1>3. /\ s.up \in BOOLEAN /\ s.ended \in BOOLEAN /\ s.vols \in SUBSET Volumes
      /\ s.open \in SUBSET Nat /\ s.unique \in Nat
  BY DEF Hosts
<1>4. t.unique \in Nat /\ t.open \in SUBSET Nat /\ t.open \subseteq 1 .. t.unique
  BY <1>1, <1>3
<1>5. t \in Hosts
  BY <1>4 DEF Opened, Hosts
<1> HIDE DEF t
<1>6. s.unique <= t.unique
  BY <1>1, <1>3
<1>7. Known(t) \subseteq Known(s) \cup {s.unique + 1}
  BY <1>1 DEF Known
<1> QED BY <1>1, <1>2, <1>3, <1>4, <1>5, <1>6, <1>7 DEF Follows, t

\* A call that failed may have left a handle, which nobody has to know.
LEMMA Unopening ==
  ASSUME NEW s \in Hosts, s.open \subseteq 1 .. s.unique, NEW t \in Unopened(s)
  PROVE  Follows(s, t) /\ Known(t) \subseteq Known(s)
<1> DEFINE o == Opened(s)
<1>1. /\ o \in Hosts /\ o.unique = s.unique + 1 /\ s.unique \in Nat
      /\ Follows(s, o) /\ Known(o) \subseteq Known(s) \cup {s.unique + 1}
  BY Opening DEF Follows
<1> HIDE DEF o
<1>2. CASE t = s
  BY <1>1, <1>2 DEF Follows
<1>3. CASE t = [o EXCEPT !.lost = @ \cup {s.unique + 1}]
  <2>1. t.lost = o.lost \cup {s.unique + 1} /\ t.open = o.open /\ t.unique = o.unique
    BY <1>1, <1>3 DEF Hosts
  <2>2. (t.ended <=> o.ended) /\ (t.up <=> o.up)
    BY <1>1, <1>3 DEF Hosts
  <2>3. t \in Hosts
    BY <1>1, <1>3 DEF Hosts
  <2>4. Known(t) \subseteq Known(s)
    BY <1>1, <2>1 DEF Known
  <2> QED BY <1>1, <2>1, <2>2, <2>3, <2>4 DEF Follows
<1> QED BY <1>2, <1>3 DEF Unopened, o

\* A close takes handles away, or leaves some that nobody has to know then.
LEMMA Closing ==
  ASSUME NEW s \in Hosts, s.open \subseteq 1 .. s.unique, NEW hs, NEW t \in Closed(s, hs)
  PROVE  /\ Follows(s, t) /\ t.unique = s.unique
         /\ Known(t) \subseteq Known(s) \ hs
<1>1. PICK left \in SUBSET (hs \cap s.open) :
        t = [s EXCEPT !.open = (@ \ hs) \cup left, !.lost = @ \cup left]
  BY DEF Closed
<1>2. /\ t.open = (s.open \ hs) \cup left /\ t.lost = s.lost \cup left
      /\ t.unique = s.unique
  BY <1>1 DEF Hosts
<1>3. (t.ended <=> s.ended) /\ (t.up <=> s.up) /\ t.vols = s.vols
  BY <1>1 DEF Hosts
<1>4. /\ s.up \in BOOLEAN /\ s.ended \in BOOLEAN /\ s.vols \in SUBSET Volumes
      /\ s.open \in SUBSET Nat /\ s.lost \in SUBSET Nat /\ s.unique \in Nat
  BY DEF Hosts
<1>5. t.open \in SUBSET Nat /\ t.lost \in SUBSET Nat
  BY <1>1, <1>2, <1>4
<1>6. t \in Hosts
  BY <1>1, <1>4, <1>5 DEF Hosts
<1>7. t.open \subseteq s.open
  BY <1>2
<1>8. t.open \subseteq 1 .. t.unique
  BY <1>2, <1>7
<1>9. Known(t) \subseteq Known(s) \ hs
  BY <1>2 DEF Known
<1>10. s.unique <= t.unique
  BY <1>2, <1>4
<1> QED BY <1>2, <1>3, <1>4, <1>6, <1>8, <1>9, <1>10 DEF Follows

\* Two calls, one after the other.
LEMMA Following ==
  ASSUME NEW s, NEW t, NEW u, s.unique \in Nat, Follows(s, t), Follows(t, u)
  PROVE  Follows(s, u)
BY DEF Follows

LEMMA HostType ==
  ASSUME TypeOK, HandlesInv
  PROVE  /\ host \in Hosts /\ host.open \subseteq 1 .. host.unique /\ host.unique \in Nat
         /\ host \in Unopened(host)
BY DEF TypeOK, HandlesInv, Hosts, Unopened

\* The keys in use stay below the next handle.
LEMMA KeysStay ==
  ASSUME TypeOK, HandlesInv, ~ host.ended, NEW l \in Made, NEW t, t.unique \in Nat,
         host.unique <= t.unique
  PROVE  objs[l].key <= t.unique
<1>1. objs[l].key <= host.unique /\ host.unique \in Nat
  BY DEF HandlesInv, TypeOK, Hosts
<1>2. objs[l].key \in Int
  BY SMTT(20) DEF TypeOK, Made, Locks, Freed
<1> QED BY <1>1, <1>2

-------------------------------------------------------------------------------
(* Volumes that go.                                                        *)

\* volume_flush drops only what no lock is left of.
LEMMA FlushInv ==
  ASSUME IInv, NEW s \in Unopened(host), volume_flush(s), pc # "done", pc' = "serve",
         trouble' = trouble, sent' = sent, todo' \subseteq Volumes,
         running' \in BOOLEAN, shutdown' \in 0 .. ShutdownTicks,
         fails' \in 0 .. 1, events' \in Nat
  PROVE  IInv'
<1> DEFINE removed == {v \in Volumes : Removable(v)}
           kept == {v \in Volumes : Exists(v)} \ removed
           gone == {entry[v].node : v \in removed}
<1>0. TypeOK /\ NodesInv /\ UseCounts /\ AbsentInv /\ OwnersInv /\ HandlesInv
      /\ HeldAlive /\ HandlesOwned
  BY DEF IInv
<1>1. /\ entry' = [v \in Volumes |->
            IF v \in removed THEN NoEntry
            ELSE IF v \in kept THEN [entry[v] EXCEPT !.seen = FALSE,
                                                    !.inDos = entry[v].seen /\ @]
                 ELSE entry[v]]
      /\ lists' = [n \in DOMAIN lists \ gone |-> lists[n]]
      /\ port' = [v \in Volumes |-> IF v \in removed THEN <<>> ELSE port[v]]
      /\ signal' \subseteq Volumes /\ mask' \subseteq Volumes
      /\ host' \in Closed(s, {entry[v].handle : v \in removed})
      /\ inuse' = Cardinality(kept)
      /\ UNCHANGED <<nodes, objs, break, prog>>
  BY <1>0 DEF volume_flush, InuseNow, TypeOK
<1> DEFINE hs == {entry[v].handle : v \in removed}
<1>17. /\ Follows(host, host') /\ Known(host') \subseteq Known(host) \ hs
  <2>1. host \in Hosts /\ host.open \subseteq 1 .. host.unique /\ host.unique \in Nat
    BY <1>0, HostType
  <2>2. Follows(host, s) /\ Known(s) \subseteq Known(host)
    BY <2>1, Unopening
  <2>3. s \in Hosts /\ s.open \subseteq 1 .. s.unique
    BY <2>2 DEF Follows
  <2>5. host' \in Closed(s, hs)
    BY <1>1
  <2> HIDE DEF hs
  <2>4. Follows(s, host') /\ Known(host') \subseteq Known(s) \ hs
    BY <2>3, <2>5, Closing
  <2> QED BY <2>1, <2>2, <2>4, Following
<1>2. ASSUME NEW v \in removed
      PROVE  /\ v \in Volumes /\ Exists(v) /\ entry[v].use = 0
             /\ LocksOf(v) = {} /\ Linked(v) = {}
  <2>1. v \in Volumes /\ Exists(v) /\ entry[v].use = 0
    BY DEF Removable, Gone
  <2>2. Cardinality(LocksOf(v)) = 0
    BY <1>0, <2>1 DEF UseCounts
  <2>3. LocksOf(v) = {}
    BY <1>0, <2>2, FiniteLocks, FS_EmptySet
  <2> QED BY <1>0, <2>1, <2>3, LinkedLocks
<1>3. kept \subseteq Volumes /\ \A v \in Volumes : v \in kept <=> Exists(v) /\ v \notin removed
  OBVIOUS
<1> HIDE DEF removed, kept
<1>4. ASSUME NEW v \in Volumes
      PROVE  /\ v \in removed => entry'[v] = NoEntry
             /\ v \notin removed => /\ entry'[v].use = entry[v].use
                                    /\ entry'[v].node = entry[v].node
                                    /\ entry'[v].handle = entry[v].handle
             /\ entry'[v] # NoEntry <=> Exists(v) /\ v \notin removed
             /\ entry'[v] \in Entries \cup {NoEntry}
  <2>1. CASE v \in removed
    BY <1>1, <2>1
  <2>2. CASE v \in kept
    <3>2. v \notin removed /\ Exists(v)
      BY <1>3, <2>2
    <3>1. entry[v] \in Entries
      BY <1>0, <3>2, EntryType
    <3>3. entry'[v] = [entry[v] EXCEPT !.seen = FALSE, !.inDos = entry[v].seen /\ @]
      BY <1>1, <2>2, <3>2
    <3>4. entry'[v] \in Entries
      BY <3>1, <3>3 DEF Entries
    <3> QED BY <3>1, <3>2, <3>3, <3>4, Kinds DEF Entries
  <2>3. CASE v \notin removed /\ ~ Exists(v)
    <3>1. entry'[v] = entry[v]
      BY <1>1, <1>3, <2>3
    <3> QED BY <1>0, <2>3, <3>1, EntryType
  <2> QED BY <1>3, <2>1, <2>2, <2>3
<1>5. ASSUME NEW n \in DOMAIN lists, n \in gone PROVE lists[n] = {}
  <2>1. PICK v \in removed : n = entry[v].node
    BY <1>5
  <2>2. n # NullNode
    BY <1>0 DEF TypeOK, NullNode
  <2> QED BY <1>2, <2>1, <2>2 DEF Linked
<1> HIDE DEF gone
<1>6. Made' = Made /\ DOMAIN lists' = DOMAIN lists \ gone
      /\ \A n \in DOMAIN lists' : lists'[n] = lists[n]
  BY <1>1 DEF Made
<1>7. \A v : LocksOf(v)' = LocksOf(v)
  BY <1>1, <1>5, <1>6 DEF LocksOf
<1>8. TypeOK'
  <2>1. entry' \in [Volumes -> Entries \cup {NoEntry}]
    BY <1>1, <1>4
  <2>2. lists' \in [DOMAIN lists' -> SUBSET Made'] /\ DOMAIN lists' \subseteq 1 .. nodes'
    BY <1>0, <1>1, <1>6 DEF TypeOK
  <2>3. port' \in [Volumes -> Seq(Programs)]
    <3>1. <<>> \in Seq(Programs) /\ port \in [Volumes -> Seq(Programs)]
      BY <1>0 DEF TypeOK
    <3>2. \A v \in Volumes : port'[v] \in Seq(Programs)
      BY <1>1, <3>1
    <3>3. port' = [v \in Volumes |-> port'[v]]
      BY <1>1
    <3> QED BY <3>2, <3>3
  <2>4. host' \in Hosts
    BY <1>17 DEF Follows
  <2>5. inuse' \in 0 .. Cardinality(Volumes)
    <3>1. inuse' = Cardinality(kept)
      BY <1>1
    <3>2. IsFiniteSet(kept) /\ Cardinality(kept) <= Cardinality(Volumes)
      BY <1>3, FS_Subset
    <3>3. Cardinality(kept) \in Nat /\ Cardinality(Volumes) \in Nat
      BY <3>2, FS_CardinalityType
    <3> QED BY <3>1, <3>2, <3>3
  <2>6. prog' \in [Programs -> [packet : Packets, holds : SUBSET Made']]
    BY <1>0, <1>1, <1>6 DEF TypeOK
  <2> QED BY <1>0, <1>1, <2>1, <2>2, <2>3, <2>4, <2>5, <2>6 DEF TypeOK
<1>9. NodesInv'
  <2>1. ASSUME NEW v \in Volumes
        PROVE  /\ entry'[v].node \in DOMAIN lists' \cup {NullNode}
               /\ entry'[v].node \in {entry[v].node, NullNode}
    <3>1. CASE v \in removed
      BY <1>4, <3>1, Kinds
    <3>2. CASE v \notin removed
      <4>1. entry'[v].node = entry[v].node /\ entry[v].node \in DOMAIN lists \cup {NullNode}
        BY <1>0, <1>4, <3>2 DEF NodesInv
      <4>2. ASSUME entry[v].node \in gone, entry[v].node # NullNode PROVE FALSE
        <5>1. PICK w \in removed : entry[v].node = entry[w].node
          BY <4>2 DEF gone
        <5>2. w \in Volumes
          BY <1>2
        <5>3. v = w
          BY <1>0, <4>2, <5>1, <5>2 DEF NodesInv
        <5> QED BY <3>2, <5>3
      <4> QED BY <1>6, <4>1, <4>2
    <3> QED BY <3>1, <3>2
  <2>2. \A v \in Volumes : Linked(v)' \subseteq Linked(v)
    BY <1>6, <2>1 DEF Linked, NullNode
  <2>3. \A v, w \in Volumes :
          entry'[v].node = entry'[w].node /\ entry'[v].node # NullNode => v = w
    BY <1>0, <2>1 DEF NodesInv
  <2>4. \A n \in DOMAIN lists' : \A l \in lists'[n] : objs'[l] # Freed /\ objs'[l].node = n
    BY <1>0, <1>1, <1>6 DEF NodesInv
  <2>5. \A l \in Made' : objs'[l] # Freed /\ objs'[l].node \in DOMAIN lists'
                            => l \in lists'[objs'[l].node]
    BY <1>0, <1>1, <1>6 DEF NodesInv
  <2>6. \A v \in Volumes : \A l \in Linked(v)' : objs'[l].vol = v
    BY <1>0, <1>1, <2>2 DEF NodesInv
  <2>7. \A l \in Made' : objs'[l].node <= nodes'
    BY <1>0, <1>1, <1>6 DEF NodesInv
  <2> QED BY <2>1, <2>3, <2>4, <2>5, <2>6, <2>7 DEF NodesInv
<1>10. UseCounts'
  BY <1>0, <1>4, <1>7 DEF UseCounts, Exists
<1>11. AbsentInv'
  <2>1. ASSUME NEW v \in Volumes, entry'[v] = NoEntry
        PROVE  LocksOf(v)' = {} /\ port'[v] = <<>>
    <3>1. CASE v \in removed
      BY <1>1, <1>2, <1>7, <3>1
    <3>2. CASE v \notin removed
      BY <1>0, <1>1, <1>4, <1>7, <2>1, <3>2 DEF AbsentInv
    <3> QED BY <3>1, <3>2
  <2> QED BY <2>1 DEF AbsentInv, Exists
<1>12. OwnersInv'
  BY <1>0, <1>1, <1>6 DEF OwnersInv, Owns
<1>13. ASSUME NEW p \in Programs, NEW l \in Owns(p)
       PROVE  /\ l \in Made /\ objs[l] \in Locks /\ objs[l].vol \in Volumes
              /\ objs[l].vol \notin removed /\ objs[l].node \in DOMAIN lists'
              /\ entry'[objs[l].vol] # NoEntry
  <2>1. /\ l \in Made /\ objs[l] \in Locks /\ objs[l].vol \in Volumes
        /\ Exists(objs[l].vol) /\ objs[l].node \in DOMAIN lists
        /\ entry[objs[l].vol].use \in Nat \ {0}
    BY OwnedCounted
  <2>2. objs[l].vol \notin removed
    BY <1>2, <2>1
  <2>3. objs[l].node \notin gone
    <3>1. l \in lists[objs[l].node]
      BY <1>0, <2>1, Kinds DEF NodesInv
    <3> QED BY <1>5, <2>1, <3>1
  <2> QED BY <1>4, <1>6, <2>1, <2>2, <2>3
<1>14. HeldAlive'
  BY <1>1, <1>13, Kinds DEF HeldAlive, Owns, Alive, Exists
<1>15. HandlesInv'
  <2>1. /\ host'.open \subseteq 1 .. host'.unique /\ host.unique <= host'.unique
        /\ (host'.ended <=> host.ended) /\ (host'.up <=> host.up)
    BY <1>17 DEF Follows
  <2>2. trouble' = 0 => \A v \in Volumes : entry'[v] # NoEntry => entry'[v].node # NullNode
    BY <1>0, <1>4 DEF HandlesInv
  <2>3. ASSUME ~ host.ended, NEW l \in Made PROVE objs[l].key <= host'.unique
    BY <1>0, <1>17, <2>3, KeysStay DEF Follows
  <2> QED BY <1>0, <1>1, <1>6, <2>1, <2>2, <2>3 DEF HandlesInv, Exists
<1>16. HandlesOwned'
  <2> SUFFICES ASSUME trouble = 0, ~ host'.ended, NEW h \in Known(host')
               PROVE  \/ \E v \in Volumes : h = entry'[v].handle
                      \/ \E p \in Programs : \E l \in Owns(p) : h = objs[l].handle
    <3>1. trouble' = trouble /\ \A p \in Programs : Owns(p)' = Owns(p)
      BY <1>1 DEF Owns
    <3>2. objs' = objs
      BY <1>1
    <3> QED BY <3>1, <3>2, OwnedFormNext DEF Known
  <2>1. ~ host.ended
    BY <1>17 DEF Follows
  <2>2. h \in Known(host) /\ \A v \in removed : h # entry[v].handle
    BY <1>17
  <2>3. \/ \E v \in Volumes : h = entry[v].handle
        \/ \E p \in Programs : \E l \in Owns(p) : h = objs[l].handle
    BY <1>0, <2>1, <2>2, OwnedForm DEF Known
  <2> QED BY <1>4, <2>2, <2>3
<1> QED BY <1>8, <1>9, <1>10, <1>11, <1>12, <1>14, <1>15, <1>16 DEF IInv

-------------------------------------------------------------------------------
(* Steps that leave the volumes and the locks alone.                       *)

\* What such a step may do to the programs, the ports and the host.
LEMMA KeepInv ==
  ASSUME IInv, TypeOK', OwnersInv', UNCHANGED <<volVars, objs>>,
         pc # "done", pc' # "done", pc' = "drain" => shutdown' > 0,
         \A p \in Programs : Owns(p)' \subseteq Owns(p),
         \A v \in Volumes : port'[v] # <<>> => Exists(v),
         host'.open \subseteq 1 .. host'.unique,
         ~ host'.ended => ~ host.ended /\ host'.up /\ host.unique <= host'.unique,
         trouble' = 0 => trouble = 0,
         trouble' = 0 /\ ~ host'.ended => \A h \in Known(host') :
            /\ h \in Known(host)
            /\ \A p \in Programs : \A l \in Owns(p) :
                  h = objs[l].handle => l \in Owns(p)'
  PROVE  IInv'
<1>0. TypeOK /\ NodesInv /\ UseCounts /\ AbsentInv /\ HandlesInv /\ HeldAlive
      /\ HandlesOwned
  BY DEF IInv
<1>1. /\ entry' = entry /\ lists' = lists /\ nodes' = nodes /\ objs' = objs
      /\ Made' = Made
      /\ \A v : Exists(v)' <=> Exists(v)
      /\ \A v : LocksOf(v)' = LocksOf(v)
      /\ NodesInv' /\ UseCounts'
  BY <1>0, SameNodes
<1>2. AbsentInv'
  BY <1>0, <1>1 DEF AbsentInv
<1>3. HeldAlive'
  BY <1>0, <1>1 DEF HeldAlive, Alive, Exists
<1>4. HandlesInv'
  <2>1. ASSUME ~ host'.ended, NEW l \in Made PROVE objs[l].key <= host'.unique
    <3>1. host'.unique \in Nat
      BY DEF TypeOK, Hosts
    <3> QED BY <1>0, <2>1, <3>1, KeysStay
  <2>2. trouble' = 0 => \A v \in Volumes : entry'[v] # NoEntry => entry'[v].node # NullNode
    BY <1>0, <1>1 DEF HandlesInv, Exists
  <2> QED BY <1>1, <2>1, <2>2 DEF HandlesInv, Exists
<1>5. HandlesOwned'
  <2> SUFFICES ASSUME trouble' = 0, ~ host'.ended, NEW h \in Known(host')
               PROVE  \/ \E v \in Volumes : h = entry'[v].handle
                      \/ \E p \in Programs : \E l \in Owns(p)' : h = objs'[l].handle
    BY OwnedFormNext, ZenonT(40) DEF Known
  <2>1. \/ \E v \in Volumes : h = entry[v].handle
        \/ \E p \in Programs : \E l \in Owns(p) : h = objs[l].handle
    BY <1>0, OwnedForm DEF Known
  <2> QED BY <1>1, <2>1
<1> QED BY <1>1, <1>2, <1>3, <1>4, <1>5 DEF IInv

\* The main loop waits, wakes and looks; a volume vanishes while it looks.
LEMMA LoopInv ==
  IInv /\ (\/ WakeLocked \/ WakeOther \/ RefreshOpen \/ ScanVanished \/ Check) => IInv'
<1> SUFFICES ASSUME IInv, WakeLocked \/ WakeOther \/ RefreshOpen \/ ScanVanished \/ Check
             PROVE  IInv'
  OBVIOUS
<1>0. TypeOK /\ AbsentInv /\ OwnersInv /\ HandlesInv
  BY DEF IInv
<1>8. /\ host \in Hosts /\ host.open \subseteq 1 .. host.unique /\ host.unique \in Nat
      /\ host \in Unopened(host)
  BY <1>0, HostType
<1>1. /\ UNCHANGED <<volVars, objs, port, prog, bounds, inuse, shutdown>>
      /\ host' \in Unopened(host)
      /\ pc \in {"wait", "refresh", "scan", "serve"}
      /\ pc' \in {"wait", "refresh", "scan", "drain", "serve", "exit"}
      /\ pc' = "drain" => shutdown > 0
      /\ running' \in BOOLEAN /\ break' \in BOOLEAN
      /\ mask' \subseteq Volumes /\ signal' \subseteq Volumes /\ todo' \subseteq Volumes
      /\ fails' \in 0 .. 1
  <2>1. ASSUME NEW timer \in BOOLEAN, NEW locked \in BOOLEAN, Wake(timer, locked)
        PROVE  <1>1!:
    <3>1. host' = host
      BY <2>1 DEF Wake
    <3> QED BY <1>0, <1>8, <2>1, <3>1 DEF Wake, TypeOK
  <2>2. CASE WakeLocked \/ WakeOther
    BY <2>1, <2>2 DEF WakeLocked, WakeOther
  <2>3. CASE RefreshOpen
    <3>1. host' = host
      BY <2>3 DEF RefreshOpen
    <3> QED BY <1>0, <1>8, <2>3, <3>1 DEF RefreshOpen, Goto, TypeOK, Hosts, volVars, bounds
  <2>4. CASE ScanVanished
    BY <1>0, <1>8, <2>4 DEF ScanVanished, ScanUnchanged, TypeOK, volVars, bounds
  <2>5. CASE Check
    <3>1. (running /\ ~ break) \in BOOLEAN
      OBVIOUS
    <3>2. host' = host
      BY <2>5 DEF Check
    <3> QED BY <1>0, <1>8, <2>5, <3>1, <3>2 DEF Check, TypeOK
  <2> QED BY <2>2, <2>3, <2>4, <2>5
<1>2. UNCHANGED <<entry, lists, nodes, sent, events, trouble>>
  BY <1>1 DEF volVars, bounds
<1>3. Made' = Made /\ \A p \in Programs : Owns(p)' = Owns(p)
  BY <1>1 DEF Made, Owns
<1>7. Follows(host, host') /\ Known(host') \subseteq Known(host)
  BY <1>1, <1>8, Unopening
<1>9. /\ host' \in Hosts /\ host'.open \subseteq 1 .. host'.unique
      /\ ~ host'.ended => ~ host.ended /\ host'.up /\ host.unique <= host'.unique
  BY <1>0, <1>7 DEF Follows, HandlesInv
<1>4. TypeOK'
  BY <1>0, <1>1, <1>2, <1>3, <1>9 DEF TypeOK
<1>5. OwnersInv'
  BY <1>0, <1>1, <1>3 DEF OwnersInv
<1>6. \A v \in Volumes : port'[v] # <<>> => Exists(v)
  BY <1>0, <1>1 DEF AbsentInv
<1> QED BY <1>1, <1>2, <1>3, <1>4, <1>5, <1>6, <1>7, <1>9, KeepInv

\* The user breaks; the host's volumes, and its file server, come and go.
LEMMA HostInv ==
  IInv /\ (Break \/ VolumesChange \/ HostEnds \/ HostStarts) => IInv'
<1> SUFFICES ASSUME IInv, Break \/ VolumesChange \/ HostEnds \/ HostStarts
             PROVE  IInv'
  OBVIOUS
<1>0. TypeOK /\ AbsentInv /\ OwnersInv /\ HandlesInv
  BY DEF IInv
<1>1. /\ UNCHANGED <<running, pc, mask, todo, shutdown, inuse, fails, entry, lists,
                    nodes, objs, port, signal, prog, sent, trouble>>
      /\ pc \in {"wait", "scan"} /\ events' = events + 1
  BY DEF Break, VolumesChange, HostEnds, HostStarts, Happens, EnvUnchanged,
         handlerVars, volVars
<1>2. /\ break' \in BOOLEAN /\ host' \in Hosts
      /\ host'.open \subseteq 1 .. host'.unique
      /\ ~ host'.ended => /\ ~ host.ended /\ host'.up /\ host.unique <= host'.unique
                         /\ Known(host') = Known(host)
  <2>1. CASE Break
    <3>1. host' = host /\ break' = TRUE
      BY <2>1 DEF Break
    <3> QED BY <1>0, <3>1, HostType DEF HandlesInv, Known
  <2>2. CASE VolumesChange
    <3>1. PICK vs \in SUBSET Volumes : host' = [host EXCEPT !.vols = vs] /\ break' = break
      BY <2>2 DEF VolumesChange
    <3>2. host \in Hosts
      BY <1>0 DEF TypeOK
    <3>3. host' \in Hosts
      BY <3>1, <3>2 DEF Hosts
    <3>4. /\ host'.open = host.open /\ host'.unique = host.unique
          /\ host'.lost = host.lost
          /\ (host'.ended <=> host.ended) /\ (host'.up <=> host.up)
      BY <3>1, <3>2 DEF Hosts
    <3>5. host.unique \in Nat /\ break \in BOOLEAN
      BY <1>0 DEF TypeOK, Hosts
    <3> QED BY <1>0, <3>1, <3>3, <3>4, <3>5 DEF HandlesInv, Known
  <2>3. CASE HostEnds
    BY <1>0, <2>3 DEF HostEnds, TypeOK, HandlesInv, Hosts
  <2>4. CASE HostStarts
    <3>1. host' = [host EXCEPT !.up = TRUE] /\ break' = break
      BY <2>4 DEF HostStarts
    <3>2. host \in Hosts
      BY <1>0 DEF TypeOK
    <3>3. host' \in Hosts
      BY <3>1, <3>2 DEF Hosts
    <3>4. /\ host'.open = host.open /\ host'.unique = host.unique
          /\ host'.lost = host.lost
          /\ (host'.ended <=> host.ended) /\ host'.up
      BY <3>1, <3>2 DEF Hosts
    <3>5. host.unique \in Nat /\ break \in BOOLEAN
      BY <1>0 DEF TypeOK, Hosts
    <3> QED BY <1>0, <3>1, <3>3, <3>4, <3>5 DEF HandlesInv, Known
  <2> QED BY <2>1, <2>2, <2>3, <2>4
<1>3. Made' = Made /\ \A p \in Programs : Owns(p)' = Owns(p)
  BY <1>1 DEF Made, Owns
<1>4. TypeOK'
  BY <1>0, <1>1, <1>2, <1>3 DEF TypeOK
<1>5. OwnersInv'
  BY <1>0, <1>1, <1>3 DEF OwnersInv
<1>6. \A v \in Volumes : port'[v] # <<>> => Exists(v)
  BY <1>0, <1>1 DEF AbsentInv
<1>7. UNCHANGED <<volVars, objs>>
  BY <1>1 DEF volVars
<1> QED BY <1>1, <1>2, <1>3, <1>4, <1>5, <1>6, <1>7, KeepInv

\* A program sends a packet, about a volume or about what is its own.
LEMMA PutInv ==
  ASSUME IInv, pc # "done", NEW p \in Programs, NEW v \in Volumes, Exists(v),
         NEW op \in {"volume", "use", "release"}, NEW l \in Nat,
         NEW holds \in SUBSET Made,
         Put(p, v, op, l, holds),
         \/ op = "volume" /\ l = NoLock /\ holds = prog[p].holds
         \/ op = "use" /\ l \in prog[p].holds /\ holds = prog[p].holds
         \/ op = "release" /\ l \in prog[p].holds /\ holds = prog[p].holds \ {l}
  PROVE  IInv'
<1>0. TypeOK /\ AbsentInv /\ OwnersInv /\ HandlesInv
  BY DEF IInv
<1> DEFINE k == [op |-> op, lock |-> l]
<1>1. /\ prog[p].packet = Idle
      /\ sent' = [sent EXCEPT ![p] = @ + 1]
      /\ prog' = [prog EXCEPT ![p] = [packet |-> k, holds |-> holds]]
      /\ port' = [port EXCEPT ![v] = Append(@, p)]
      /\ signal' = signal \cup {v}
      /\ UNCHANGED <<break, host, events, trouble, running, pc, mask, todo, shutdown,
                    inuse, fails, entry, lists, nodes, objs>>
  BY DEF Put, EnvUnchanged, handlerVars, volVars
<1>2. Made' = Made /\ prog \in [Programs -> [packet : Packets, holds : SUBSET Made]]
  BY <1>0, <1>1 DEF Made, TypeOK
<1>3. /\ k \in Packets /\ k.op = op /\ k.lock = l
      /\ prog'[p].packet = k /\ prog'[p].holds = holds
      /\ \A q \in Programs : q # p => prog'[q] = prog[q]
  BY <1>1, <1>2 DEF Packets
<1> HIDE DEF k
<1>4. \A q \in Programs : Owns(q)' = Owns(q)
  <2>1. Owns(p) = prog[p].holds
    BY <1>1 DEF Owns, Idle
  <2>2. Owns(p)' = holds \cup ({l} \ {NoLock})
    BY <1>3 DEF Owns
  <2>3. 0 \notin Made
    BY DEF Made
  <2>4. Owns(p)' = Owns(p)
    BY <1>2, <2>1, <2>2, <2>3 DEF NoLock
  <2>5. \A q \in Programs : q # p => Owns(q)' = Owns(q)
    BY <1>3 DEF Owns
  <2> QED BY <2>4, <2>5
<1>5. TypeOK'
  <2>1. prog' \in [Programs -> [packet : Packets, holds : SUBSET Made']]
    BY <1>1, <1>2, <1>3
  <2>2. port' \in [Volumes -> Seq(Programs)]
    BY <1>0, <1>1 DEF TypeOK
  <2>3. sent' \in [Programs -> Nat]
    BY SMTT(20), <1>0, <1>1 DEF TypeOK
  <2> QED BY <1>0, <1>1, <1>2, <2>1, <2>2, <2>3 DEF TypeOK
<1>6. OwnersInv'
  <2>1. ASSUME NEW q \in Programs
        PROVE  /\ prog'[q].packet.op \in {"none", "volume"} => prog'[q].packet.lock = NoLock
               /\ prog'[q].packet.op = "use" => prog'[q].packet.lock \in prog'[q].holds
               /\ prog'[q].packet.op = "release"
                     => prog'[q].packet.lock \in Made' \ prog'[q].holds
    <3>1. CASE q = p
      BY <1>2, <1>3, <3>1
    <3>2. CASE q # p
      BY <1>0, <1>2, <1>3, <3>2 DEF OwnersInv
    <3> QED BY <3>1, <3>2
  <2>2. \A q, r \in Programs : q # r => Owns(q)' \cap Owns(r)' = {}
    BY <1>0, <1>4 DEF OwnersInv
  <2> QED BY <2>1, <2>2 DEF OwnersInv
<1>7. \A w \in Volumes : port'[w] # <<>> => Exists(w)
  BY <1>0, <1>1 DEF AbsentInv, TypeOK
<1>8. UNCHANGED <<volVars, objs>>
  BY <1>1 DEF volVars
<1>9. host.unique \in Nat
  BY <1>0 DEF TypeOK, Hosts
<1>10. pc' = "drain" => shutdown' > 0
  BY <1>0, <1>1 DEF AbsentInv
<1>11. Known(host') = Known(host)
  BY <1>1
<1> QED BY <1>0, <1>1, <1>4, <1>5, <1>6, <1>7, <1>8, <1>9, <1>10, <1>11, KeepInv
        DEF HandlesInv

LEMMA SendInv ==
  IInv /\ (SendVolume \/ SendLock \/ SendRelease) => IInv'
<1> SUFFICES ASSUME IInv, SendVolume \/ SendLock \/ SendRelease PROVE IInv'
  OBVIOUS
<1>0. TypeOK /\ AbsentInv
  BY DEF IInv
<1>1. ASSUME NEW p \in Programs PROVE prog[p].holds \subseteq Made
  BY <1>0 DEF TypeOK
<1>2. CASE SendVolume
  <2>1. PICK p \in Programs, v \in Volumes :
          Listed(v) /\ Put(p, v, "volume", NoLock, prog[p].holds)
    BY <1>2 DEF SendVolume
  <2>2. Exists(v) /\ pc # "done" /\ NoLock \in Nat
    BY <1>0, <2>1 DEF Listed, AbsentInv, NoLock
  <2> QED BY <1>1, <2>1, <2>2, PutInv
<1>3. ASSUME NEW p \in Programs, NEW l \in prog[p].holds, pc # "done"
      PROVE  /\ objs[l].vol \in Volumes /\ Exists(objs[l].vol)
             /\ l \in Nat /\ prog[p].holds \ {l} \subseteq Made
  <2>1. l \in Owns(p)
    BY DEF Owns
  <2>2. l \in Made
    BY <1>1
  <2> QED BY <1>1, <1>3, <2>1, <2>2, OwnedCounted DEF Made
<1>4. CASE SendLock
  <2>1. PICK p \in Programs : \E l \in prog[p].holds :
          pc # "done" /\ Put(p, objs[l].vol, "use", l, prog[p].holds)
    BY <1>4 DEF SendLock
  <2>2. PICK l \in prog[p].holds :
          pc # "done" /\ Put(p, objs[l].vol, "use", l, prog[p].holds)
    BY <2>1
  <2> QED BY <1>1, <1>3, <2>2, PutInv
<1>5. CASE SendRelease
  <2>1. PICK p \in Programs : \E l \in prog[p].holds :
          pc # "done" /\ Put(p, objs[l].vol, "release", l, prog[p].holds \ {l})
    BY <1>5 DEF SendRelease
  <2>2. PICK l \in prog[p].holds :
          pc # "done" /\ Put(p, objs[l].vol, "release", l, prog[p].holds \ {l})
    BY <2>1
  <2> QED BY <1>3, <2>2, PutInv
<1> QED BY <1>2, <1>4, <1>5

-------------------------------------------------------------------------------
(* Packets.                                                                *)

\* What every packet served does to the port and the program.
LEMMA Served ==
  ASSUME IInv, NEW v \in Volumes, NEW p \in Programs,
         Serving(v, p, {"volume", "use", "release"}),
         NEW holds, Reply(p, holds)
  PROVE  /\ pc = "serve"
         /\ UNCHANGED <<pc, todo, shutdown, inuse, fails, signal, break, sent, events>>
         /\ port' \in [Volumes -> Seq(Programs)] /\ mask' \subseteq Volumes
         /\ \A w \in Volumes : port'[w] # <<>> => Exists(w)
         /\ prog' = [prog EXCEPT ![p] = [packet |-> Idle, holds |-> holds]]
         /\ prog'[p].packet = Idle /\ prog'[p].holds = holds /\ Owns(p)' = holds
         /\ \A q \in Programs \ {p} : prog'[q] = prog[q] /\ Owns(q)' = Owns(q)
<1>0. TypeOK /\ AbsentInv
  BY DEF IInv
<1>1. /\ pc = "serve" /\ port[v] # <<>> /\ port' = [port EXCEPT ![v] = Tail(@)]
      /\ mask' = mask
      /\ UNCHANGED <<pc, todo, shutdown, inuse, fails, signal, break, sent, events>>
      /\ prog' = [prog EXCEPT ![p] = [packet |-> Idle, holds |-> holds]]
  BY DEF Serving, RestOf, Reply
<1>2. port' \in [Volumes -> Seq(Programs)] /\ mask' \subseteq Volumes
  BY SMTT(20), <1>0, <1>1 DEF TypeOK
<1>3. \A w \in Volumes : port'[w] # <<>> => Exists(w)
  BY <1>0, <1>1 DEF AbsentInv, TypeOK
<1>4. /\ prog'[p].packet = Idle /\ prog'[p].holds = holds
      /\ \A q \in Programs \ {p} : prog'[q] = prog[q]
  BY <1>0, <1>1 DEF TypeOK
<1>5. Owns(p)' = holds
  BY <1>4 DEF Owns, Idle
<1> QED BY <1>1, <1>2, <1>3, <1>4, <1>5 DEF Owns

\* The program of a packet that does not give anything back.
LEMMA Asker ==
  ASSUME IInv, NEW p \in Programs, prog[p].packet.op \in {"volume", "use"}
  PROVE  Owns(p) = prog[p].holds
<1>1. prog[p].packet.lock = NoLock \/ prog[p].packet.lock \in prog[p].holds
  BY DEF IInv, OwnersInv
<1> QED BY <1>1 DEF Owns

\* A packet is answered and the program has what it had.
LEMMA AnswerInv ==
  ASSUME IInv, NEW v \in Volumes, NEW p \in Programs,
         Serving(v, p, {"volume", "use"}), Reply(p, prog[p].holds), NoNewLock,
         running' \in BOOLEAN, trouble' \in Nat, trouble' >= trouble,
         Follows(host, host'),
         trouble' = 0 => Known(host') \subseteq Known(host) \/ host.ended
  PROVE  IInv'
<1>0. TypeOK /\ OwnersInv
  BY DEF IInv
<1> DEFINE holds == prog[p].holds
<1>1. Serving(v, p, {"volume", "use", "release"}) /\ prog[p].packet.op \in {"volume", "use"}
  BY DEF Serving
<1> HIDE DEF holds
<1>2. /\ pc = "serve"
      /\ UNCHANGED <<pc, todo, shutdown, inuse, fails, signal, break, sent, events>>
      /\ port' \in [Volumes -> Seq(Programs)] /\ mask' \subseteq Volumes
      /\ \A w \in Volumes : port'[w] # <<>> => Exists(w)
      /\ prog' = [prog EXCEPT ![p] = [packet |-> Idle, holds |-> holds]]
      /\ prog'[p].packet = Idle /\ prog'[p].holds = holds /\ Owns(p)' = holds
      /\ \A q \in Programs \ {p} : prog'[q] = prog[q] /\ Owns(q)' = Owns(q)
  <2>1. Reply(p, holds)
    BY DEF holds
  <2> QED BY <1>1, <2>1, Served
<1>3. /\ UNCHANGED <<volVars, objs>> /\ UNCHANGED <<entry, lists, nodes>>
      /\ Made' = Made
  BY DEF NoNewLock, volVars, Made
<1>8. /\ host' \in Hosts /\ host'.open \subseteq 1 .. host'.unique
      /\ ~ host'.ended => ~ host.ended /\ host'.up /\ host.unique <= host'.unique
  BY DEF Follows, HandlesInv, IInv
<1>4. \A q \in Programs : Owns(q)' = Owns(q)
  BY <1>1, <1>2, Asker DEF holds
<1>5. TypeOK'
  <2>1. holds \in SUBSET Made /\ Idle \in Packets
    BY <1>0 DEF holds, TypeOK, Idle, Packets, NoLock
  <2>2. prog' \in [Programs -> [packet : Packets, holds : SUBSET Made']]
    BY <1>0, <1>2, <1>3, <2>1 DEF TypeOK
  <2> QED BY <1>0, <1>2, <1>3, <1>8, <2>2 DEF TypeOK
<1>6. OwnersInv'
  <2>1. ASSUME NEW q \in Programs
        PROVE  /\ prog'[q].packet.op \in {"none", "volume"} => prog'[q].packet.lock = NoLock
               /\ prog'[q].packet.op = "use" => prog'[q].packet.lock \in prog'[q].holds
               /\ prog'[q].packet.op = "release"
                     => prog'[q].packet.lock \in Made' \ prog'[q].holds
    <3>1. CASE q = p
      BY <1>2, <3>1 DEF Idle
    <3>2. CASE q # p
      BY <1>0, <1>2, <1>3, <3>2 DEF OwnersInv
    <3> QED BY <3>1, <3>2
  <2>2. \A q, r \in Programs : q # r => Owns(q)' \cap Owns(r)' = {}
    BY <1>0, <1>4 DEF OwnersInv
  <2> QED BY <2>1, <2>2 DEF OwnersInv
<1>7. trouble' = 0 => trouble = 0
  BY <1>0 DEF TypeOK
<1> QED BY <1>2, <1>3, <1>4, <1>5, <1>6, <1>7, <1>8, KeepInv

\* A packet makes a lock, and the program has it; or it does not, because
\* there was no memory left.
LEMMA GrantInv ==
  ASSUME IInv, NEW v \in Volumes, NEW p \in Programs, NEW key \in Nat,
         NEW access \in {Shared, Exclusive, Mode0}, NEW holds, NEW h \in Nat,
         Serving(v, p, {"volume"}), Reply(p, holds), running' \in BOOLEAN,
         entry[v].node # NullNode,
         NewLock(v, key, access, h),
         ~ host.ended => key <= host'.unique,
         \/ holds = prog[p].holds \cup {Len(objs) + 1} /\ trouble' = trouble
         \/ holds = prog[p].holds /\ trouble' = trouble + 1,
         Follows(host, host'), Known(host') \subseteq Known(host) \cup {h}
  PROVE  IInv'
<1>0. TypeOK /\ NodesInv /\ UseCounts /\ AbsentInv /\ OwnersInv /\ HandlesInv
      /\ HeldAlive /\ HandlesOwned
  BY DEF IInv
<1> DEFINE n   == Len(objs) + 1
           nd  == entry[v].node
           new == [vol |-> v, node |-> nd, key |-> key, access |-> access, handle |-> h]
<1>1. Serving(v, p, {"volume", "use", "release"}) /\ prog[p].packet.op = "volume"
  BY DEF Serving
<1>2. /\ pc = "serve"
      /\ UNCHANGED <<pc, todo, shutdown, inuse, fails, signal, break, sent, events>>
      /\ port' \in [Volumes -> Seq(Programs)] /\ mask' \subseteq Volumes
      /\ \A w \in Volumes : port'[w] # <<>> => Exists(w)
      /\ prog' = [prog EXCEPT ![p] = [packet |-> Idle, holds |-> holds]]
      /\ prog'[p].packet = Idle /\ prog'[p].holds = holds /\ Owns(p)' = holds
      /\ \A q \in Programs \ {p} : prog'[q] = prog[q] /\ Owns(q)' = Owns(q)
  BY <1>1, Served
<1>3. /\ objs' = Append(objs, new)
      /\ lists' = [lists EXCEPT ![nd] = @ \cup {n}]
      /\ entry' = [entry EXCEPT ![v].use = @ + 1]
      /\ nodes' = nodes
  BY DEF NewLock
<1>4. /\ host.unique \in Nat /\ n \in Nat /\ nd \in Nat /\ nd \in DOMAIN lists
      /\ nd # NullNode
  <2>1. host.unique \in Nat /\ Len(objs) \in Nat
    BY <1>0 DEF TypeOK, Hosts
  <2>2. nd \in Nat /\ nd \in DOMAIN lists /\ nd # NullNode
    BY <1>0, EntryType DEF NodesInv
  <2> QED BY <2>1, <2>2
<1>5. new \in Locks /\ new # Freed /\ new.vol = v /\ new.node = nd /\ new.key = key
      /\ new.handle = h
  BY <1>4, Kinds DEF Locks
<1>6. Exists(v) /\ entry[v] \in Entries
  <2>1. Exists(v)
    BY Kinds DEF Exists
  <2> QED BY <1>0, <2>1, EntryType
<1> HIDE DEF new
<1>7. /\ Made' = Made \cup {n} /\ n \notin Made
      /\ objs' \in Seq(Locks \cup {Freed}) /\ objs'[n] = new
      /\ \A l \in Made : objs'[l] = objs[l]
  BY SMTT(20), <1>0, <1>3, <1>5 DEF TypeOK, Made
<1> HIDE DEF n, nd
<1>8. /\ DOMAIN lists' = DOMAIN lists
      /\ \A m \in DOMAIN lists : lists'[m] = IF m = nd THEN lists[m] \cup {n} ELSE lists[m]
      /\ \A m \in DOMAIN lists : lists[m] \subseteq Made
  BY <1>0, <1>3 DEF TypeOK
<1>9. /\ entry'[v].use = entry[v].use + 1 /\ entry'[v] \in Entries
      /\ \A w \in Volumes : /\ w # v => entry'[w] = entry[w]
                            /\ entry'[w].node = entry[w].node
                            /\ entry'[w].handle = entry[w].handle
                            /\ entry'[w] # NoEntry <=> Exists(w)
  <2>1. /\ entry'[v] = [entry[v] EXCEPT !.use = @ + 1]
        /\ \A w \in Volumes : w # v => entry'[w] = entry[w]
    BY <1>0, <1>3 DEF TypeOK
  <2>2. /\ entry'[v] \in Entries /\ entry'[v].use = entry[v].use + 1
        /\ entry'[v].node = entry[v].node /\ entry'[v].handle = entry[v].handle
    BY <1>6, <2>1, OneMore
  <2>3. entry'[v] # NoEntry
    BY <2>2, Kinds
  <2> QED BY <1>6, <2>1, <2>2, <2>3 DEF Exists
<1>10. /\ LocksOf(v)' = LocksOf(v) \cup {n}
       /\ \A w \in Volumes : w # v => LocksOf(w)' = LocksOf(w)
       /\ n \notin LocksOf(v)
  <2>1. \A l \in Made : (\E m \in DOMAIN lists' : l \in lists'[m])
                         <=> (\E m \in DOMAIN lists : l \in lists[m])
    BY <1>7, <1>8
  <2>2. \E m \in DOMAIN lists' : n \in lists'[m]
    BY <1>4, <1>8
  <2>3. \A w : \A l : l \in LocksOf(w)' <=> l \in LocksOf(w) \/ (l = n /\ w = v)
    <3>1. ASSUME NEW w, NEW l \in Made PROVE l \in LocksOf(w)' <=> l \in LocksOf(w)
      BY <1>7, <2>1, <3>1 DEF LocksOf
    <3>2. ASSUME NEW w PROVE n \in LocksOf(w)' <=> w = v
      BY <1>5, <1>7, <2>2, <3>2 DEF LocksOf
    <3>3. ASSUME NEW w, NEW l, l \notin Made, l # n
          PROVE  l \notin LocksOf(w)' /\ l \notin LocksOf(w)
      BY <1>7, <3>3 DEF LocksOf
    <3>4. n \notin Made
      BY <1>7
    <3>5. \A w : n \notin LocksOf(w)
      BY <3>4 DEF LocksOf
    <3> QED BY <3>1, <3>2, <3>3, <3>4, <3>5
  <2>4. n \notin LocksOf(v)
    BY <1>7 DEF LocksOf
  <2>5. LocksOf(v)' = LocksOf(v) \cup {n}
    <3>1. \A l : l \in LocksOf(v)' <=> l \in LocksOf(v) \cup {n}
      BY <2>3
    <3> QED BY <3>1, Zenon
  <2>6. ASSUME NEW w \in Volumes, w # v PROVE LocksOf(w)' = LocksOf(w)
    <3>1. \A l : l \in LocksOf(w)' <=> l \in LocksOf(w)
      BY <2>3, <2>6
    <3> QED BY <3>1, Zenon
  <2> QED BY <2>4, <2>5, <2>6
<1>11. holds \in SUBSET Made' /\ prog[p].holds \subseteq Made
  BY <1>0, <1>7 DEF TypeOK, n
<1>12. /\ host' \in Hosts /\ host'.unique \in Nat /\ host.unique <= host'.unique
       /\ host'.open \subseteq 1 .. host'.unique
       /\ (host'.ended <=> host.ended) /\ (host'.up <=> host.up)
  BY DEF Follows
<1>13. trouble' \in Nat
  BY SMTT(20), <1>0 DEF TypeOK
<1>14. TypeOK'
  <2>1. prog' \in [Programs -> [packet : Packets, holds : SUBSET Made']]
    <3>1. Idle \in Packets
      BY DEF Idle, Packets, NoLock
    <3>2. prog \in [Programs -> [packet : Packets, holds : SUBSET Made']]
      BY <1>0, <1>7 DEF TypeOK
    <3> QED BY <1>2, <1>11, <3>1, <3>2
  <2>2. entry' \in [Volumes -> Entries \cup {NoEntry}]
    BY <1>0, <1>3, <1>9 DEF TypeOK
  <2>3. lists' \in [DOMAIN lists' -> SUBSET Made']
    BY <1>0, <1>3, <1>7, <1>8 DEF TypeOK
  <2> QED BY <1>0, <1>2, <1>3, <1>7, <1>8, <1>12, <1>13, <2>1, <2>2, <2>3 DEF TypeOK
<1>15. NodesInv'
  <2>1. \A w \in Volumes : entry'[w].node \in DOMAIN lists' \cup {NullNode}
    BY <1>0, <1>8, <1>9 DEF NodesInv
  <2>2. \A u, w \in Volumes :
          entry'[u].node = entry'[w].node /\ entry'[u].node # NullNode => u = w
    BY <1>0, <1>9 DEF NodesInv
  <2>3. ASSUME NEW m \in DOMAIN lists', NEW l \in lists'[m]
        PROVE  objs'[l] # Freed /\ objs'[l].node = m
    <3>1. CASE l = n /\ m = nd
      BY <1>5, <1>7, <3>1
    <3>2. CASE l \in lists[m]
      BY <1>0, <1>7, <1>8, <2>3, <3>2 DEF NodesInv
    <3> QED BY <1>8, <2>3, <3>1, <3>2
  <2>4. ASSUME NEW l \in Made', objs'[l] # Freed, objs'[l].node \in DOMAIN lists'
        PROVE  l \in lists'[objs'[l].node]
    <3>1. CASE l = n
      BY <1>4, <1>5, <1>7, <1>8, <3>1
    <3>2. CASE l \in Made
      BY <1>0, <1>7, <1>8, <2>4, <3>2 DEF NodesInv
    <3> QED BY <1>7, <3>1, <3>2
  <2>5. ASSUME NEW w \in Volumes, NEW l \in Linked(w)' PROVE objs'[l].vol = w
    <3>1. entry[w].node # NullNode /\ l \in lists'[entry[w].node]
          /\ entry[w].node \in DOMAIN lists
      BY <1>0, <1>9, <2>5 DEF Linked, NodesInv
    <3>2. CASE l \in lists[entry[w].node]
      BY <1>0, <1>7, <1>8, <3>1, <3>2 DEF Linked, NodesInv
    <3>3. CASE l = n /\ entry[w].node = nd
      <4>1. w = v
        BY <1>0, <3>1, <3>3 DEF NodesInv, nd
      <4> QED BY <1>5, <1>7, <3>3, <4>1
    <3> QED BY <1>8, <3>1, <3>2, <3>3
  <2>6. nd <= nodes
    BY <1>0, <1>4 DEF TypeOK
  <2>7. \A l \in Made' : objs'[l].node <= nodes'
    BY <1>0, <1>3, <1>5, <1>7, <2>6 DEF NodesInv
  <2> QED BY <2>1, <2>2, <2>3, <2>4, <2>5, <2>7 DEF NodesInv
<1>16. UseCounts'
  <2>1. entry'[v].use = Cardinality(LocksOf(v)')
    <3>1. entry[v].use = Cardinality(LocksOf(v))
      BY <1>0, <1>6 DEF UseCounts
    <3>2. Cardinality(LocksOf(v) \cup {n}) = Cardinality(LocksOf(v)) + 1
      BY <1>0, <1>10, FiniteLocks, FS_AddElement
    <3> QED BY <1>9, <1>10, <3>1, <3>2
  <2>2. \A w \in Volumes : w # v /\ Exists(w) => entry'[w].use = Cardinality(LocksOf(w)')
    BY <1>0, <1>9, <1>10 DEF UseCounts
  <2> QED BY <1>9, <2>1, <2>2 DEF UseCounts, Exists
<1>17. AbsentInv'
  <2>1. ASSUME NEW w \in Volumes, entry'[w] = NoEntry
        PROVE  LocksOf(w)' = {} /\ port'[w] = <<>>
    <3>1. ~ Exists(w) /\ w # v
      BY <1>6, <1>9, <2>1 DEF Exists
    <3>2. LocksOf(w) = {}
      BY <1>0, <1>2, <3>1 DEF AbsentInv
    <3> QED BY <1>2, <1>10, <3>1, <3>2
  <2> QED BY <1>2, <2>1 DEF AbsentInv, Exists
<1>18. \A q \in Programs : Owns(q) \subseteq Made
  BY <1>2, OwnedCounted
<1>19. Owns(p) = prog[p].holds
  BY <1>1, Asker
<1>20. OwnersInv'
  <2>1. ASSUME NEW q \in Programs
        PROVE  /\ prog'[q].packet.op \in {"none", "volume"} => prog'[q].packet.lock = NoLock
               /\ prog'[q].packet.op = "use" => prog'[q].packet.lock \in prog'[q].holds
               /\ prog'[q].packet.op = "release"
                     => prog'[q].packet.lock \in Made' \ prog'[q].holds
    <3>1. CASE q = p
      BY <1>2, <3>1 DEF Idle
    <3>2. CASE q # p
      BY <1>0, <1>2, <1>7, <3>2 DEF OwnersInv
    <3> QED BY <3>1, <3>2
  <2>2. \A q \in Programs \ {p} : n \notin Owns(q) /\ Owns(q) \cap Owns(p) = {}
    BY <1>0, <1>7, <1>18 DEF OwnersInv
  <2>3. Owns(p)' \subseteq Owns(p) \cup {n}
    BY <1>2, <1>19 DEF n
  <2>4. \A q, r \in Programs : q # r => Owns(q)' \cap Owns(r)' = {}
    BY <1>0, <1>2, <2>2, <2>3 DEF OwnersInv
  <2> QED BY <2>1, <2>4 DEF OwnersInv
<1>21. ASSUME NEW q \in Programs, NEW l \in Owns(q)'
       PROVE  (l = n /\ q = p) \/ l \in Owns(q)
  BY <1>2, <1>19 DEF n
<1>22. HeldAlive'
  <2> SUFFICES ASSUME NEW q \in Programs, NEW l \in Owns(q)'
               PROVE  objs'[l] # Freed /\ objs'[l].node \in DOMAIN lists'
                      /\ entry'[objs'[l].vol] # NoEntry
    BY DEF HeldAlive, Alive, Exists
  <2>1. CASE l = n
    BY <1>4, <1>5, <1>7, <1>8, <1>9, <2>1, Kinds
  <2>2. CASE l \in Owns(q)
    <3>1. /\ l \in Made /\ objs[l] \in Locks /\ objs[l].vol \in Volumes
          /\ Exists(objs[l].vol) /\ objs[l].node \in DOMAIN lists
      BY <1>2, <2>2, OwnedCounted
    <3> QED BY <1>7, <1>8, <1>9, <3>1, Kinds
  <2> QED BY <1>21, <2>1, <2>2
<1>23. HandlesInv'
  <2>2. ASSUME ~ host.ended, NEW l \in Made' PROVE objs'[l].key <= host'.unique
    <3>1. CASE l = n
      BY <1>5, <1>7, <2>2, <3>1
    <3>2. CASE l \in Made
      BY <1>0, <1>7, <1>12, <2>2, <3>2, KeysStay
    <3> QED BY <1>7, <3>1, <3>2
  <2>3. trouble' = 0 => trouble = 0
    BY <1>0 DEF TypeOK
  <2>4. trouble' = 0 => \A w \in Volumes : entry'[w] # NoEntry => entry'[w].node # NullNode
    BY <1>0, <1>9, <2>3 DEF HandlesInv
  <2> QED BY <1>0, <1>12, <2>2, <2>4 DEF HandlesInv, Exists
<1>24. HandlesOwned'
  <2> SUFFICES ASSUME trouble' = 0, ~ host'.ended, NEW g \in Known(host')
               PROVE  \/ \E w \in Volumes : g = entry'[w].handle
                      \/ \E q \in Programs : \E l \in Owns(q)' : g = objs'[l].handle
    BY OwnedFormNext, ZenonT(40) DEF Known
  <2>1. trouble = 0 /\ ~ host.ended /\ Owns(p)' = Owns(p) \cup {n}
    BY SMTT(20), <1>0, <1>2, <1>12, <1>19 DEF TypeOK, n
  <2>2. CASE g = h
    BY <1>5, <1>7, <2>1, <2>2
  <2>3. CASE g \in Known(host)
    <3>1. \/ \E w \in Volumes : g = entry[w].handle
          \/ \E q \in Programs : \E l \in Owns(q) : g = objs[l].handle
      BY <1>0, <1>2, <2>1, <2>3, OwnedForm DEF Known
    <3>2. CASE \E w \in Volumes : g = entry[w].handle
      BY <1>9, <3>2
    <3>3. CASE \E q \in Programs : \E l \in Owns(q) : g = objs[l].handle
      <4>1. PICK q \in Programs : \E l \in Owns(q) : g = objs[l].handle
        BY <3>3
      <4>2. PICK l \in Owns(q) : g = objs[l].handle
        BY <4>1
      <4>3. l \in Owns(q)'
        BY <1>2, <2>1
      <4>4. objs'[l].handle = g
        BY <1>7, <1>18, <4>2
      <4> QED BY <4>3, <4>4
    <3> QED BY <3>1, <3>2, <3>3
  <2> QED BY <2>2, <2>3
<1> QED BY <1>14, <1>15, <1>16, <1>17, <1>20, <1>22, <1>23, <1>24 DEF IInv

\* A lock or a file is given back: it is taken out of the list of its volume's
\* node, or stays in that of a node the volume has lost.
LEMMA ReleaseInv == IInv /\ ActionRelease => IInv'
<1> SUFFICES ASSUME IInv, NEW v \in Volumes, NEW p \in Programs,
                    Serving(v, p, {"release"}), running' = running,
                    host' \in ClosesHandle(objs[prog[p].packet.lock].handle),
                    FreeLock(v, prog[p].packet.lock),
                    Reply(p, prog[p].holds), trouble' = trouble
             PROVE  IInv'
  BY DEF ActionRelease, NoTrouble
<1>0. TypeOK /\ NodesInv /\ UseCounts /\ AbsentInv /\ OwnersInv /\ HandlesInv
      /\ HeldAlive /\ HandlesOwned
  BY DEF IInv
<1> DEFINE l == prog[p].packet.lock
           holds == prog[p].holds
<1>1. Serving(v, p, {"volume", "use", "release"}) /\ prog[p].packet.op = "release"
  BY DEF Serving
<1>2. l \in Made /\ l \notin holds /\ l # NoLock
  <2>1. l \in Made /\ l \notin holds
    BY <1>0, <1>1 DEF OwnersInv
  <2>2. 0 \notin Made
    BY DEF Made
  <2> QED BY <2>1, <2>2 DEF NoLock
<1>3. Owns(p) = holds \cup {l} /\ holds \subseteq Made
  BY <1>0, <1>2 DEF Owns, TypeOK
<1>4. Reply(p, holds) /\ host' \in Closed(host, {objs[l].handle})
      /\ FreeLock(v, l)
  BY DEF ClosesHandle
<1> HIDE DEF l, holds
<1>5. /\ pc = "serve"
      /\ UNCHANGED <<pc, todo, shutdown, inuse, fails, signal, break, sent, events>>
      /\ port' \in [Volumes -> Seq(Programs)] /\ mask' \subseteq Volumes
      /\ \A w \in Volumes : port'[w] # <<>> => Exists(w)
      /\ prog' = [prog EXCEPT ![p] = [packet |-> Idle, holds |-> holds]]
      /\ prog'[p].packet = Idle /\ prog'[p].holds = holds /\ Owns(p)' = holds
      /\ \A q \in Programs \ {p} : prog'[q] = prog[q] /\ Owns(q)' = Owns(q)
  BY <1>1, <1>4, Served
<1>6. /\ \A q \in Programs : Owns(q)' \subseteq Owns(q) /\ l \notin Owns(q)'
      /\ \A q \in Programs : \A k \in Owns(q) : k # l => k \in Owns(q)'
  <2>1. \A q \in Programs \ {p} : Owns(q)' = Owns(q) /\ l \notin Owns(q)
    BY <1>0, <1>3, <1>5 DEF OwnersInv
  <2> QED BY <1>2, <1>3, <1>5, <2>1
<1>7. /\ host' \in Hosts /\ host'.unique = host.unique /\ host.unique \in Nat
      /\ Known(host') \subseteq Known(host) \ {objs[l].handle}
      /\ host'.open \subseteq 1 .. host'.unique
      /\ (host'.ended <=> host.ended) /\ (host'.up <=> host.up)
  BY <1>0, <1>4, HostType, Closing DEF Follows
<1>8. prog' \in [Programs -> [packet : Packets, holds : SUBSET Made]]
  <2>1. Idle \in Packets
    BY DEF Idle, Packets, NoLock
  <2> QED BY <1>0, <1>3, <1>5, <2>1 DEF TypeOK
<1>9. Made' = Made => OwnersInv'
  <2> SUFFICES ASSUME Made' = Made PROVE OwnersInv'
    OBVIOUS
  <2>1. ASSUME NEW q \in Programs
        PROVE  /\ prog'[q].packet.op \in {"none", "volume"} => prog'[q].packet.lock = NoLock
               /\ prog'[q].packet.op = "use" => prog'[q].packet.lock \in prog'[q].holds
               /\ prog'[q].packet.op = "release"
                     => prog'[q].packet.lock \in Made' \ prog'[q].holds
    <3>1. CASE q = p
      BY <1>5, <3>1 DEF Idle
    <3>2. CASE q # p
      BY <1>0, <1>5, <3>2 DEF OwnersInv
    <3> QED BY <3>1, <3>2
  <2>2. ASSUME NEW q \in Programs, NEW r \in Programs, q # r
        PROVE  Owns(q)' \cap Owns(r)' = {}
    <3>1. Owns(q) \cap Owns(r) = {}
      BY <1>0, <2>2 DEF OwnersInv
    <3>2. Owns(q)' \subseteq Owns(q) /\ Owns(r)' \subseteq Owns(r)
      BY <1>6
    <3> QED BY <3>1, <3>2, Zenon
  <2> QED BY <2>1, <2>2 DEF OwnersInv
<1>10. CASE l \notin Linked(v)
  <2>1. /\ UNCHANGED <<volVars, objs>> /\ UNCHANGED <<entry, lists, nodes, objs>>
        /\ Made' = Made
    BY <1>4, <1>10, Zenon DEF FreeLock, volVars, Made
  <2>2. TypeOK'
    <3>1. /\ pc' = pc /\ todo' = todo /\ shutdown' = shutdown /\ inuse' = inuse
          /\ fails' = fails /\ signal' = signal /\ break' = break
          /\ sent' = sent /\ events' = events
      BY <1>5
    <3>2. entry' = entry /\ lists' = lists /\ nodes' = nodes /\ objs' = objs
      BY <2>1
    <3> QED BY <1>0, <1>5, <1>7, <1>8, <2>1, <3>1, <3>2 DEF TypeOK
  <2>3. ASSUME NEW h \in Known(host')
        PROVE  /\ h \in Known(host)
               /\ \A q \in Programs : \A k \in Owns(q) : h = objs[k].handle => k \in Owns(q)'
    <3>1. h \in Known(host) /\ h # objs[l].handle
      BY <1>7, <2>3
    <3>2. \A q \in Programs : \A k \in Owns(q) : h = objs[k].handle => k # l
      BY <3>1
    <3> QED BY <1>6, <3>1, <3>2
  <2>4. host'.open \subseteq 1 .. host'.unique
    BY <1>7, Zenon
  <2>5. ~ host'.ended => ~ host.ended /\ host'.up /\ host.unique <= host'.unique
    <3>1. ~ host.ended => host.up
      BY <1>0 DEF HandlesInv
    <3>2. host'.unique = host.unique /\ host.unique \in Nat
      BY <1>7, Zenon
    <3>3. host.unique <= host'.unique
      BY <3>2
    <3> QED BY <1>7, <3>1, <3>3, Zenon
  <2>6. pc # "done" /\ pc' # "done" /\ pc' # "drain"
    BY <1>5
  <2> QED BY <1>5, <1>6, <1>9, <2>1, <2>2, <2>3, <2>4, <2>5, <2>6, KeepInv
<1>11. CASE l \in Linked(v)
  <2> DEFINE nd == entry[v].node
  <2>1. /\ lists' = [lists EXCEPT ![nd] = @ \ {l}]
        /\ entry' = [entry EXCEPT ![v].use = @ - 1]
        /\ objs' = [objs EXCEPT ![l] = Freed]
        /\ nodes' = nodes
    BY <1>4, <1>11 DEF FreeLock
  <2>2. nd # NullNode /\ nd \in DOMAIN lists /\ l \in lists[nd] /\ l \in LocksOf(v)
        /\ Exists(v) /\ entry[v] \in Entries /\ objs[l].node = nd
    <3>1. nd # NullNode /\ l \in lists[nd]
      BY <1>11 DEF Linked
    <3>2. Exists(v)
      BY <3>1, Kinds DEF Exists
    <3>3. nd \in DOMAIN lists
      BY <1>0, <3>1 DEF NodesInv
    <3> QED BY <1>0, <1>11, <3>1, <3>2, <3>3, EntryType, LinkedLocks DEF NodesInv
  <2> HIDE DEF nd
  <2>3. /\ Made' = Made /\ objs' \in Seq(Locks \cup {Freed}) /\ objs'[l] = Freed
        /\ \A k \in Made : k # l => objs'[k] = objs[k]
    BY <1>0, <1>2, <2>1 DEF TypeOK, Made
  <2>4. /\ DOMAIN lists' = DOMAIN lists
        /\ \A m \in DOMAIN lists : lists'[m] = IF m = nd THEN lists[m] \ {l} ELSE lists[m]
        /\ \A m \in DOMAIN lists : lists[m] \subseteq Made
        /\ \A m \in DOMAIN lists : l \in lists[m] => m = nd
    BY <1>0, <2>1, <2>2 DEF TypeOK, NodesInv
  <2>5. entry[v].use = Cardinality(LocksOf(v)) /\ entry[v].use \in Nat \ {0}
    <3>1. entry[v].use = Cardinality(LocksOf(v))
      BY <1>0, <2>2 DEF UseCounts
    <3>2. Cardinality(LocksOf(v)) # 0 /\ Cardinality(LocksOf(v)) \in Nat
      BY <1>0, <2>2, FiniteLocks, FS_EmptySet
    <3> QED BY <3>1, <3>2
  <2>6. /\ entry'[v].use = entry[v].use - 1 /\ entry'[v] \in Entries
        /\ \A w \in Volumes : /\ w # v => entry'[w] = entry[w]
                              /\ entry'[w].node = entry[w].node
                              /\ entry'[w].handle = entry[w].handle
                              /\ entry'[w] # NoEntry <=> Exists(w)
    <3>1. /\ entry'[v] = [entry[v] EXCEPT !.use = @ - 1]
          /\ \A w \in Volumes : w # v => entry'[w] = entry[w]
      BY <1>0, <2>1 DEF TypeOK
    <3>2. entry[v].use - 1 \in Nat
      BY <2>5
    <3>3. entry'[v] \in Entries
      BY <2>2, <3>1, <3>2 DEF Entries
    <3>4. entry'[v].use = entry[v].use - 1
      BY <2>2, <3>1 DEF Entries
    <3>5. entry'[v].node = entry[v].node
      BY <2>2, <3>1 DEF Entries
    <3>6. entry'[v].handle = entry[v].handle
      BY <2>2, <3>1 DEF Entries
    <3>7. entry'[v] # NoEntry
      BY <3>3, Kinds
    <3> QED BY <2>2, <3>1, <3>3, <3>4, <3>5, <3>6, <3>7 DEF Exists
  <2>7. /\ LocksOf(v)' = LocksOf(v) \ {l}
        /\ \A w \in Volumes : w # v => LocksOf(w)' = LocksOf(w)
    <3>1. \A k \in Made : k # l =>
            ((\E m \in DOMAIN lists' : k \in lists'[m])
               <=> (\E m \in DOMAIN lists : k \in lists[m]))
      BY <2>4
    <3>2. objs[l].vol = v
      BY <2>2 DEF LocksOf
    <3>3. \A w : l \notin LocksOf(w)'
      BY <2>3 DEF LocksOf
    <3>4. ASSUME NEW w \in Volumes, NEW k, k # l
          PROVE  k \in LocksOf(w)' <=> k \in LocksOf(w)
      BY <2>3, <3>1, <3>4 DEF LocksOf
    <3>5. \A w \in Volumes : w # v => l \notin LocksOf(w)
      BY <3>2 DEF LocksOf
    <3>6. \A k : k \in LocksOf(v)' <=> k \in LocksOf(v) \ {l}
      BY <3>3, <3>4
    <3>7. ASSUME NEW w \in Volumes, w # v PROVE \A k : k \in LocksOf(w)' <=> k \in LocksOf(w)
      BY <3>3, <3>4, <3>5, <3>7
    <3>8. LocksOf(v)' = LocksOf(v) \ {l}
      BY <3>6, Zenon
    <3>9. ASSUME NEW w \in Volumes, w # v PROVE LocksOf(w)' = LocksOf(w)
      <4>1. \A k : k \in LocksOf(w)' <=> k \in LocksOf(w)
        BY SMTT(20), <3>7, <3>9
      <4> QED BY <4>1, Zenon
    <3> QED BY <3>8, <3>9
  <2>8. TypeOK'
    <3>1. entry' \in [Volumes -> Entries \cup {NoEntry}]
      BY <1>0, <2>1, <2>6 DEF TypeOK
    <3>2. lists' \in [DOMAIN lists' -> SUBSET Made']
      BY <1>0, <2>1, <2>3, <2>4 DEF TypeOK
    <3> QED BY <1>0, <1>5, <1>7, <1>8, <2>1, <2>3, <2>4, <3>1, <3>2 DEF TypeOK
  <2>9. NodesInv'
    <3>1. \A w \in Volumes : entry'[w].node \in DOMAIN lists' \cup {NullNode}
      BY <1>0, <2>4, <2>6 DEF NodesInv
    <3>2. \A u, w \in Volumes :
            entry'[u].node = entry'[w].node /\ entry'[u].node # NullNode => u = w
      BY <1>0, <2>6 DEF NodesInv
    <3>3. \A m \in DOMAIN lists' : \A k \in lists'[m] : k # l /\ k \in lists[m] /\ k \in Made
      BY <2>4
    <3>4. \A m \in DOMAIN lists' : \A k \in lists'[m] : objs'[k] # Freed /\ objs'[k].node = m
      BY <1>0, <2>3, <2>4, <3>3 DEF NodesInv
    <3>5. \A k \in Made' : objs'[k] # Freed /\ objs'[k].node \in DOMAIN lists'
                              => k \in lists'[objs'[k].node]
      BY <1>0, <2>3, <2>4 DEF NodesInv
    <3>6. ASSUME NEW w \in Volumes, NEW k \in Linked(w)' PROVE objs'[k].vol = w
      <4>1. entry[w].node # NullNode /\ k \in lists'[entry[w].node]
            /\ entry[w].node \in DOMAIN lists
        BY <1>0, <2>6, <3>6 DEF Linked, NodesInv
      <4>2. k \in Linked(w) /\ k # l /\ k \in Made
        BY <2>4, <3>3, <4>1 DEF Linked
      <4> QED BY <1>0, <2>3, <4>2 DEF NodesInv
    <3>7. 0 <= nodes /\ Freed.node = 0
      BY <1>0 DEF TypeOK, Freed
    <3>8. \A k \in Made' : objs'[k].node <= nodes'
      BY <1>0, <2>1, <2>3, <3>7 DEF NodesInv
    <3> QED BY <3>1, <3>2, <3>4, <3>5, <3>6, <3>8 DEF NodesInv
  <2>10. UseCounts'
    <3>1. Cardinality(LocksOf(v) \ {l}) = Cardinality(LocksOf(v)) - 1
      BY <1>0, <2>2, FiniteLocks, FS_RemoveElement
    <3>2. \A w \in Volumes : w # v /\ Exists(w) => entry'[w].use = Cardinality(LocksOf(w)')
      BY <1>0, <2>6, <2>7 DEF UseCounts
    <3>3. entry'[v].use = Cardinality(LocksOf(v)')
      BY <2>5, <2>6, <2>7, <3>1
    <3> QED BY <2>6, <3>2, <3>3 DEF UseCounts, Exists
  <2>11. AbsentInv'
    BY <1>0, <1>5, <2>2, <2>6, <2>7 DEF AbsentInv, Exists
  <2>12. ASSUME NEW q \in Programs, NEW k \in Owns(q)'
         PROVE  /\ k # l /\ k \in Made /\ objs[k] \in Locks /\ objs[k].vol \in Volumes
                /\ Exists(objs[k].vol) /\ objs[k].node \in DOMAIN lists
    BY <1>5, <1>6, <2>12, OwnedCounted
  <2>13. HeldAlive'
    <3> SUFFICES ASSUME NEW q \in Programs, NEW k \in Owns(q)'
                 PROVE  objs'[k] # Freed /\ objs'[k].node \in DOMAIN lists'
                        /\ entry'[objs'[k].vol] # NoEntry
      BY SMTT(20) DEF HeldAlive, Alive, Exists
    <3> QED BY <2>3, <2>4, <2>6, <2>12, Kinds
  <2>14. HandlesInv'
    <3>1. ASSUME ~ host.ended, NEW k \in Made PROVE objs'[k].key <= host.unique
      <4>1. CASE k = l
        <5>1. objs'[k] = Freed
          BY <2>3, <4>1, Zenon
        <5>2. Freed.key = -1
          BY DEF Freed
        <5>3. host.unique \in Nat
          BY <1>7
        <5> QED BY <5>1, <5>2, <5>3
      <4>2. CASE k # l
        BY <1>0, <2>3, <3>1, <4>2 DEF HandlesInv
      <4> QED BY SMTT(20), <4>1, <4>2
    <3>2. trouble' = 0 => \A w \in Volumes : entry'[w] # NoEntry => entry'[w].node # NullNode
      BY <1>0, <2>6 DEF HandlesInv
    <3>3. host'.open \subseteq 1 .. host'.unique
      BY <1>7, Zenon
    <3> QED BY <1>0, <1>7, <2>3, <3>1, <3>2, <3>3 DEF HandlesInv, Exists
  <2>15. HandlesOwned'
    <3> SUFFICES ASSUME trouble' = 0, ~ host'.ended, NEW h \in Known(host')
                 PROVE  \/ \E w \in Volumes : h = entry'[w].handle
                        \/ \E q \in Programs : \E k \in Owns(q)' : h = objs'[k].handle
      BY OwnedFormNext, ZenonT(40) DEF Known
    <3>1. \/ \E w \in Volumes : h = entry[w].handle
          \/ \E q \in Programs : \E k \in Owns(q) : h = objs[k].handle
      BY <1>0, <1>5, <1>7, OwnedForm DEF Known
    <3>2. CASE \E w \in Volumes : h = entry[w].handle
      BY <2>6, <3>2
    <3>3. CASE \E q \in Programs : \E k \in Owns(q) : h = objs[k].handle
      <4>1. PICK q \in Programs : \E k \in Owns(q) : h = objs[k].handle
        BY <3>3
      <4>2. PICK k \in Owns(q) : h = objs[k].handle
        BY SMTT(20), <4>1
      <4>3. k # l
        BY <1>7, <4>2
      <4>4. k \in Owns(q)'
        BY <1>6, <4>3
      <4>5. objs'[k].handle = h
        BY <2>3, <2>12, <4>2, <4>3, <4>4
      <4> QED BY <4>4, <4>5
    <3> QED BY <3>1, <3>2, <3>3
  <2> QED BY <1>9, <2>3, <2>8, <2>9, <2>10, <2>11, <2>13, <2>14, <2>15 DEF IInv
<1> QED BY <1>10, <1>11

\* The packets that change nothing here, or only at the host.
LEMMA QuietPacketInv ==
  IInv /\ (Reject \/ ActionUse \/ ActionExamineNext \/ ActionDie) => IInv'
<1> SUFFICES ASSUME IInv, Reject \/ ActionUse \/ ActionExamineNext \/ ActionDie
             PROVE  IInv'
  OBVIOUS
<1>0. TypeOK /\ HandlesInv
  BY DEF IInv
<1>1. PICK v \in Volumes, p \in Programs :
        /\ Serving(v, p, {"volume", "use"}) /\ Reply(p, prog[p].holds) /\ NoNewLock
        /\ trouble' = trouble /\ running' \in BOOLEAN
        /\ Follows(host, host') /\ Known(host') \subseteq Known(host)
  <2>5. /\ host \in Hosts /\ host.open \subseteq 1 .. host.unique /\ host.unique \in Nat
        /\ host \in Unopened(host)
    BY <1>0, HostType
  <2>6. ASSUME host' = host PROVE Follows(host, host') /\ Known(host') \subseteq Known(host)
    BY <2>5, <2>6 DEF Follows
  <2>1. CASE Reject
    <3>1. host' = host
      BY <2>1 DEF Reject
    <3> QED BY <1>0, <2>1, <2>6, <3>1 DEF Reject, NoTrouble, TypeOK
  <2>2. CASE ActionUse
    <3>1. PICK v \in Volumes, p \in Programs :
            /\ Serving(v, p, {"volume", "use"}) /\ Allowed
            /\ Reply(p, prog[p].holds)
            /\ \E h \in Unopened(host) : host' \in Unopened(h)
            /\ NoNewLock /\ NoTrouble
      BY <2>2 DEF ActionUse
    <3>2. PICK h \in Unopened(host) : host' \in Unopened(h)
      BY <3>1
    <3>3. Follows(host, h) /\ Known(h) \subseteq Known(host)
      BY <2>5, Unopening
    <3>4. h \in Hosts /\ h.open \subseteq 1 .. h.unique
      BY <3>3 DEF Follows
    <3>5. Follows(h, host') /\ Known(host') \subseteq Known(h)
      BY <3>2, <3>4, Unopening
    <3>6. Follows(host, host')
      BY <2>5, <3>3, <3>5, Following
    <3> QED BY <1>0, <3>1, <3>3, <3>5, <3>6 DEF Allowed, NoTrouble, TypeOK
  <2>3. CASE ActionExamineNext
    <3>1. PICK v \in Volumes, p \in Programs :
            /\ Serving(v, p, {"use"}) /\ Allowed /\ Reply(p, prog[p].holds)
            /\ NoNewLock /\ NoTrouble
            /\ host' \in Closed(host, {objs[prog[p].packet.lock].key})
      BY <2>3 DEF ActionExamineNext
    <3>2. Serving(v, p, {"volume", "use"})
      BY <3>1 DEF Serving
    <3>3. Follows(host, host') /\ Known(host') \subseteq Known(host)
      BY <2>5, <3>1, Closing
    <3> QED BY <1>0, <3>1, <3>2, <3>3 DEF Allowed, NoTrouble, TypeOK
  <2>4. CASE ActionDie
    <3>1. PICK v \in Volumes, p \in Programs :
            /\ Serving(v, p, {"volume"}) /\ running' = FALSE /\ Reply(p, prog[p].holds)
            /\ NoNewLock /\ NoTrouble /\ UNCHANGED host
      BY <2>4 DEF ActionDie
    <3>2. Serving(v, p, {"volume", "use"})
      BY <3>1 DEF Serving
    <3> QED BY <2>6, <3>1, <3>2 DEF NoTrouble
  <2> QED BY <2>1, <2>2, <2>3, <2>4
<1>3. trouble \in Nat
  BY <1>0 DEF TypeOK
<1>6. trouble' \in Nat /\ trouble' >= trouble
  BY <1>1, <1>3
<1> QED BY <1>1, <1>6, AnswerInv

\* While every handle is fresh a lock of a new key is not refused, if the volume
\* has its node.
LEMMA FreshKey ==
  ASSUME IInv, NEW v \in Volumes, NEW access, ~ host.ended, entry[v].node # NullNode,
         NEW key \in Nat, host.unique < key
  PROVE  ~ Refused(v, key, access)
<1>0. TypeOK /\ NodesInv /\ HandlesInv
  BY DEF IInv
<1>1. ASSUME NEW l \in Linked(v) PROVE objs[l].key # key
  <2>1. l \in Made
    BY <1>0, LinkedLocks DEF LocksOf
  <2>2. objs[l].key <= host.unique /\ objs[l].key \in Int /\ host.unique \in Nat
    BY SMTT(20), <1>0, <2>1 DEF HandlesInv, TypeOK, Made, Locks, Freed, Hosts
  <2> QED BY <2>2
<1>2. {l \in Linked(v) : objs[l].key = key} = {}
  BY <1>1
<1> QED BY <1>2 DEF Refused, Mode0, Exclusive

\* The packets that make a lock, whatever becomes of them.
LEMMA LockPacketInv ==
  IInv /\ (ActionLock \/ ActionFindInput \/ ActionFindOutput) => IInv'
<1> SUFFICES ASSUME IInv, ActionLock \/ ActionFindInput \/ ActionFindOutput
             PROVE  IInv'
  OBVIOUS
<1>0. TypeOK /\ NodesInv /\ HandlesInv /\ AbsentInv
  BY DEF IInv
<1>1. /\ host \in Hosts /\ host.open \subseteq 1 .. host.unique /\ host.unique \in Nat
      /\ host \in Unopened(host) /\ trouble \in Nat
  BY <1>0, HostType DEF TypeOK
<1>2. ASSUME NEW v \in Volumes, NEW l \in Linked(v)
      PROVE  objs[l].key \in Nat /\ (~ host.ended => objs[l].key <= host.unique)
  <2>1. l \in Made /\ objs[l] # Freed
    BY <1>0, LinkedLocks DEF LocksOf
  <2>2. objs[l] \in Locks
    BY <1>0, <2>1, LockType
  <2>3. ~ host.ended => objs[l].key <= host.unique
    BY <1>0, <2>1 DEF HandlesInv
  <2> QED BY <2>2, <2>3 DEF Locks
\* The handle got, after a first try without an answer or not.
<1>7. ASSUME NEW before \in Unopened(host), NEW h, h = before.unique + 1
      PROVE  /\ h \in Nat /\ host.unique < h
             /\ Opened(before) \in Hosts /\ Opened(before).open \subseteq 1 .. Opened(before).unique
             /\ Follows(host, Opened(before)) /\ Opened(before).unique = h
             /\ Known(Opened(before)) \subseteq Known(host) \cup {h}
  <2>1. Follows(host, before) /\ Known(before) \subseteq Known(host)
    BY <1>1, Unopening
  <2>2. /\ before \in Hosts /\ before.open \subseteq 1 .. before.unique
        /\ before.unique \in Nat /\ host.unique <= before.unique
    BY <2>1 DEF Follows
  <2>3. /\ Follows(before, Opened(before)) /\ Opened(before).unique = before.unique + 1
        /\ Known(Opened(before)) \subseteq Known(before) \cup {before.unique + 1}
    BY <2>2, Opening
  <2>4. Follows(host, Opened(before))
    BY <1>1, <2>1, <2>3, Following
  <2>5. Opened(before) \in Hosts /\ Opened(before).open \subseteq 1 .. Opened(before).unique
    BY <2>3 DEF Follows
  <2>6. h \in Nat /\ host.unique < h
    BY <1>1, <1>7, <2>2
  <2> QED BY <1>7, <2>1, <2>3, <2>4, <2>5, <2>6
<1>8. ASSUME NEW before \in Unopened(host), NEW h, h = before.unique + 1,
             host' \in Closed(Opened(before), {h})
      PROVE  /\ Follows(host, host') /\ host'.unique = h
             /\ Known(host') \subseteq Known(host)
  <2>1. /\ Opened(before) \in Hosts /\ Opened(before).open \subseteq 1 .. Opened(before).unique
        /\ Follows(host, Opened(before)) /\ Opened(before).unique = h
        /\ Known(Opened(before)) \subseteq Known(host) \cup {h}
    BY <1>7, <1>8
  <2>2. /\ Follows(Opened(before), host') /\ host'.unique = Opened(before).unique
        /\ Known(host') \subseteq Known(Opened(before)) \ {h}
    BY <1>8, <2>1, Closing
  <2>3. Follows(host, host')
    BY <1>1, <2>1, <2>2, Following
  <2> QED BY <2>1, <2>2, <2>3
<1>3. PICK v \in Volumes, p \in Programs, key \in Nat, h \in Nat,
           access \in {Shared, Exclusive, Mode0} :
        /\ Serving(v, p, {"volume"}) /\ running' = running
        /\ Follows(host, host')
        /\ ~ host.ended => key <= host'.unique
        /\ \/ /\ ~ Refused(v, key, access) /\ NewLock(v, key, access, h)
              /\ Known(host') \subseteq Known(host) \cup {h}
              /\ \/ /\ Reply(p, prog[p].holds \cup {Len(objs) + 1}) /\ trouble' = trouble
                 \/ /\ Reply(p, prog[p].holds) /\ trouble' = trouble + 1
           \/ /\ NoNewLock /\ Reply(p, prog[p].holds)
              /\ \/ trouble' = trouble + 1
                 \/ Refused(v, key, access) /\ trouble' = trouble
              /\ \/ Known(host') \subseteq Known(host)
                 \/ host.unique < key
  <2> USE DEF Allowed, NoTrouble, Trouble
  <2>1. CASE ActionLock
    <3>1. PICK v \in Volumes, p \in Programs, access \in {Shared, Exclusive, Mode0},
               before \in Unopened(host) :
            LET h == before.unique + 1
            IN /\ Serving(v, p, {"volume"}) /\ Allowed /\ host.up /\ host' = Opened(before)
               /\ \/ /\ ~ Refused(v, h, access) /\ NewLock(v, h, access, h)
                     /\ Reply(p, prog[p].holds \cup {Len(objs) + 1}) /\ NoTrouble
                  \/ /\ \/ Refused(v, h, access) /\ NoTrouble
                        \/ ~ Refused(v, h, access) /\ Trouble
                     /\ NoNewLock /\ Reply(p, prog[p].holds)
      BY <2>1, Zenon DEF ActionLock
    <3> DEFINE h == before.unique + 1
    <3>2. /\ Serving(v, p, {"volume"}) /\ Allowed /\ host' = Opened(before)
          /\ \/ /\ ~ Refused(v, h, access) /\ NewLock(v, h, access, h)
                /\ Reply(p, prog[p].holds \cup {Len(objs) + 1}) /\ NoTrouble
             \/ /\ \/ Refused(v, h, access) /\ NoTrouble
                   \/ ~ Refused(v, h, access) /\ Trouble
                /\ NoNewLock /\ Reply(p, prog[p].holds)
      BY <3>1
    <3>3. h = before.unique + 1
      OBVIOUS
    <3> HIDE DEF h
    <3>4. /\ h \in Nat /\ host.unique < h /\ Follows(host, host') /\ host'.unique = h
          /\ Known(host') \subseteq Known(host) \cup {h} /\ h <= host'.unique
      BY <1>7, <3>2, <3>3
    <3> QED BY <3>2, <3>4
  <2>2. CASE ActionFindInput
    <3>1. PICK v \in Volumes, p \in Programs, before \in Unopened(host) :
            \E h \in {before.unique + 1} :
            /\ Serving(v, p, {"volume"}) /\ Allowed
            /\ \/ /\ ~ Refused(v, h, Shared) /\ NewLock(v, h, Shared, h) /\ NoTrouble
                  /\ host' = Opened(before)
                  /\ Reply(p, prog[p].holds \cup {Len(objs) + 1})
               \/ /\ ~ Refused(v, h, Shared) /\ NewLock(v, h, Shared, h) /\ Trouble
                  /\ host' \in Closed(Opened(before), {h})
                  /\ Reply(p, prog[p].holds)
               \/ /\ \/ Refused(v, h, Shared) /\ NoTrouble
                     \/ ~ Refused(v, h, Shared) /\ Trouble
                  /\ NoNewLock /\ Reply(p, prog[p].holds)
                  /\ host' \in Closed(Opened(before), {h})
      BY <2>2 DEF ActionFindInput
    <3>2. PICK h \in {before.unique + 1} :
            /\ Serving(v, p, {"volume"}) /\ Allowed
            /\ \/ /\ ~ Refused(v, h, Shared) /\ NewLock(v, h, Shared, h) /\ NoTrouble
                  /\ host' = Opened(before)
                  /\ Reply(p, prog[p].holds \cup {Len(objs) + 1})
               \/ /\ ~ Refused(v, h, Shared) /\ NewLock(v, h, Shared, h) /\ Trouble
                  /\ host' \in Closed(Opened(before), {h})
                  /\ Reply(p, prog[p].holds)
               \/ /\ \/ Refused(v, h, Shared) /\ NoTrouble
                     \/ ~ Refused(v, h, Shared) /\ Trouble
                  /\ NoNewLock /\ Reply(p, prog[p].holds)
                  /\ host' \in Closed(Opened(before), {h})
      BY <3>1
    <3>3. h \in Nat /\ Shared \in {Shared, Exclusive, Mode0}
      BY <1>7
    <3>4. /\ Follows(host, host') /\ host'.unique = h /\ h <= host'.unique
          /\ Known(host') \subseteq Known(host) \cup {h}
      <4>1. CASE host' = Opened(before)
        BY <1>7, <4>1
      <4>2. CASE host' \in Closed(Opened(before), {h})
        BY <1>8, <3>3, <4>2
      <4> QED BY <3>2, <4>1, <4>2
    <3>5. host' \in Closed(Opened(before), {h}) => Known(host') \subseteq Known(host)
      BY <1>8
    <3> QED BY <3>2, <3>3, <3>4, <3>5
  <2>3. CASE ActionFindOutput
    <3>1. PICK v \in Volumes, p \in Programs :
            \E junk \in {0} \cup {objs[l].key : l \in Linked(v)} :
            \E h \in {host.unique + 1} :
            /\ Serving(v, p, {"volume"}) /\ Allowed
            /\ \/ /\ ~ Refused(v, junk, Exclusive) /\ NewLock(v, junk, Exclusive, h)
                  /\ NoTrouble /\ host' = Opened(host)
                  /\ Reply(p, prog[p].holds \cup {Len(objs) + 1})
               \/ /\ \/ Refused(v, junk, Exclusive) /\ NoTrouble /\ host' = host
                     \/ ~ Refused(v, junk, Exclusive) /\ Trouble /\ host' \in Unopened(host)
                  /\ NoNewLock /\ Reply(p, prog[p].holds)
      BY <2>3 DEF ActionFindOutput
    <3>2. PICK junk \in {0} \cup {objs[l].key : l \in Linked(v)} :
            \E h \in {host.unique + 1} :
            /\ Serving(v, p, {"volume"}) /\ Allowed
            /\ \/ /\ ~ Refused(v, junk, Exclusive) /\ NewLock(v, junk, Exclusive, h)
                  /\ NoTrouble /\ host' = Opened(host)
                  /\ Reply(p, prog[p].holds \cup {Len(objs) + 1})
               \/ /\ \/ Refused(v, junk, Exclusive) /\ NoTrouble /\ host' = host
                     \/ ~ Refused(v, junk, Exclusive) /\ Trouble /\ host' \in Unopened(host)
                  /\ NoNewLock /\ Reply(p, prog[p].holds)
      BY <3>1
    <3>3. PICK h \in {host.unique + 1} :
            /\ Serving(v, p, {"volume"}) /\ Allowed
            /\ \/ /\ ~ Refused(v, junk, Exclusive) /\ NewLock(v, junk, Exclusive, h)
                  /\ NoTrouble /\ host' = Opened(host)
                  /\ Reply(p, prog[p].holds \cup {Len(objs) + 1})
               \/ /\ \/ Refused(v, junk, Exclusive) /\ NoTrouble /\ host' = host
                     \/ ~ Refused(v, junk, Exclusive) /\ Trouble /\ host' \in Unopened(host)
                  /\ NoNewLock /\ Reply(p, prog[p].holds)
      BY <3>2
    <3>4. h \in Nat /\ Exclusive \in {Shared, Exclusive, Mode0}
      BY <1>1
    <3>5. junk \in Nat /\ (~ host.ended => junk <= host.unique)
      BY <1>1, <1>2
    <3>6. /\ Follows(host, host') /\ Known(host') \subseteq Known(host) \cup {h}
          /\ host' \in Unopened(host) => Known(host') \subseteq Known(host)
      <4>1. CASE host' = Opened(host)
        BY <1>1, <1>7, <4>1, Unopening
      <4>2. CASE host' \in Unopened(host)
        BY <1>1, <4>2, Unopening
      <4> QED BY <1>1, <3>3, <4>1, <4>2
    <3>7. host.unique <= host'.unique /\ host'.unique \in Nat
      BY <3>6 DEF Follows
    <3>8. ~ host.ended => junk <= host'.unique
      BY <1>1, <3>5, <3>7
    <3> QED BY <1>1, <3>3, <3>4, <3>5, <3>6, <3>8
  <2> QED BY <2>1, <2>2, <2>3
<1>4. Exists(v)
  BY <1>0, <1>3 DEF Serving, AbsentInv
<1>5. CASE ~ Refused(v, key, access) /\ NewLock(v, key, access, h)
  <2>1. /\ Known(host') \subseteq Known(host) \cup {h}
        /\ \E holds :
             /\ Reply(p, holds)
             /\ \/ holds = prog[p].holds \cup {Len(objs) + 1} /\ trouble' = trouble
                \/ holds = prog[p].holds /\ trouble' = trouble + 1
    <3>1. NewLock(v, key, access, h) => ~ NoNewLock
      <4> SUFFICES ASSUME NewLock(v, key, access, h), NoNewLock PROVE FALSE
        OBVIOUS
      <4>1. Len(objs') = Len(objs) + 1 /\ objs' = objs
        BY <1>0 DEF NewLock, NoNewLock, TypeOK
      <4>2. Len(objs) \in Nat
        BY <1>0 DEF TypeOK
      <4> QED BY <4>1, <4>2
    <3> QED BY <1>3, <1>5, <3>1
  <2>2. entry[v].node # NullNode
    BY <1>5 DEF Refused
  <2>3. running' \in BOOLEAN
    BY <1>0, <1>3 DEF TypeOK
  <2> QED BY <1>3, <1>5, <2>1, <2>2, <2>3, GrantInv
<1>6. CASE NoNewLock /\ Reply(p, prog[p].holds)
           /\ \/ trouble' = trouble + 1
              \/ Refused(v, key, access) /\ trouble' = trouble
           /\ \/ Known(host') \subseteq Known(host)
              \/ host.unique < key
  <2>1. trouble' \in Nat /\ trouble' >= trouble
    BY <1>1, <1>6
  <2>2. ASSUME trouble' = 0 PROVE Known(host') \subseteq Known(host) \/ host.ended
    <3>1. trouble = 0 /\ Refused(v, key, access)
      BY <1>1, <1>6, <2>2
    <3>2. entry[v].node # NullNode
      BY <1>0, <1>4, <3>1 DEF HandlesInv
    <3>3. ~ host.ended => ~ (host.unique < key)
      BY <3>1, <3>2, FreshKey
    <3> QED BY <1>6, <3>3
  <2>3. running' \in BOOLEAN /\ Serving(v, p, {"volume", "use"})
    BY <1>0, <1>3 DEF TypeOK, Serving
  <2> QED BY <1>3, <1>6, <2>1, <2>2, <2>3, AnswerInv
<1> QED BY <1>3, <1>5, <1>6

-------------------------------------------------------------------------------
(* Volumes that come, and the end.                                         *)

\* A volume is seen: it keeps its node, gets a new one, or has none for want of
\* memory. A volume that was not in the list gets its entry and a handle.
LEMMA SeenInv ==
  ASSUME IInv, NEW v \in Volumes, NEW e \in Entries, pc = "scan",
         entry' = [entry EXCEPT ![v] = e],
         UNCHANGED <<pc, running, shutdown, mask, inuse, fails, objs, port, signal,
                     break, prog, sent, events>>,
         todo' \subseteq Volumes,
         \/ /\ Exists(v) /\ e.node = entry[v].node
            /\ e.node # NullNode \/ trouble > 0
            /\ UNCHANGED <<lists, nodes, trouble>>
         \/ /\ e.node = nodes + 1 /\ nodes' = nodes + 1 /\ trouble' = trouble
            /\ lists' = [n \in DOMAIN lists \cup {nodes + 1} |->
                           IF n = nodes + 1 THEN {} ELSE lists[n]]
         \/ /\ e.node = NullNode /\ UNCHANGED <<lists, nodes>> /\ trouble' = trouble + 1,
         \/ /\ Exists(v) /\ e.use = entry[v].use /\ e.handle = entry[v].handle
            /\ host' = host
         \/ /\ ~ Exists(v) /\ e.use = 0 /\ e.handle = host.unique + 1
            /\ host' = Opened(host)
  PROVE  IInv'
<1>0. TypeOK /\ NodesInv /\ UseCounts /\ AbsentInv /\ OwnersInv /\ HandlesInv
      /\ HeldAlive /\ HandlesOwned
  BY DEF IInv
<1>1. Made' = Made /\ \A p \in Programs : Owns(p)' = Owns(p)
  BY DEF Made, Owns
<1>2. /\ entry'[v] = e /\ e # NoEntry
      /\ \A w \in Volumes : w # v => entry'[w] = entry[w]
      /\ \A w \in Volumes : entry'[w] # NoEntry <=> w = v \/ Exists(w)
  BY <1>0, Kinds DEF TypeOK, Exists
<1>3. /\ DOMAIN lists \subseteq DOMAIN lists' /\ nodes' \in Nat /\ nodes <= nodes'
      /\ DOMAIN lists' \subseteq 1 .. nodes'
      /\ \A m \in DOMAIN lists : lists'[m] = lists[m] /\ m # nodes + 1
      /\ \A m \in DOMAIN lists' \ DOMAIN lists : lists'[m] = {} /\ m = nodes + 1
      /\ lists' \in [DOMAIN lists' -> SUBSET Made']
      /\ e.node \in DOMAIN lists' \cup {NullNode}
      /\ e.node \in {entry[v].node, nodes + 1, NullNode}
      /\ (e.node = entry[v].node /\ Exists(v)) \/ e.node = nodes + 1 \/ e.node = NullNode
  <2>1. /\ nodes \in Nat /\ DOMAIN lists \subseteq 1 .. nodes
        /\ lists \in [DOMAIN lists -> SUBSET Made]
        /\ entry[v].node \in DOMAIN lists \cup {NullNode}
    BY <1>0 DEF TypeOK, NodesInv
  <2>2. CASE /\ UNCHANGED <<lists, nodes>>
             /\ e.node = NullNode \/ (e.node = entry[v].node /\ Exists(v))
    BY <1>1, <2>1, <2>2
  <2>3. CASE /\ e.node = nodes + 1 /\ nodes' = nodes + 1
             /\ lists' = [n \in DOMAIN lists \cup {nodes + 1} |->
                           IF n = nodes + 1 THEN {} ELSE lists[n]]
    <3>1. nodes + 1 \notin DOMAIN lists
      BY <2>1
    <3>2. DOMAIN lists' = DOMAIN lists \cup {nodes + 1}
      BY <2>3
    <3>3. /\ \A m \in DOMAIN lists : lists'[m] = lists[m]
          /\ lists'[nodes + 1] = {}
      BY <2>3, <3>1
    <3>4. lists' \in [DOMAIN lists' -> SUBSET Made]
      BY <2>1, <2>3, <3>2, <3>3
    <3> QED BY <1>1, <2>1, <2>3, <3>1, <3>2, <3>3, <3>4
  <2> QED BY <2>2, <2>3
<1>4. \A w : LocksOf(w)' = LocksOf(w)
  <2>1. \A l : (\E m \in DOMAIN lists' : l \in lists'[m])
                <=> (\E m \in DOMAIN lists : l \in lists[m])
    BY <1>3
  <2> QED BY <1>1, <2>1 DEF LocksOf
<1>5. /\ host' \in Hosts /\ host'.open \subseteq 1 .. host'.unique
      /\ (host'.ended <=> host.ended) /\ (host'.up <=> host.up)
      /\ host'.unique \in Nat /\ host.unique <= host'.unique
      /\ \A h \in Known(host') : h \in Known(host) \/ h = e.handle
      /\ Exists(v) => e.handle = entry[v].handle
  <2>1. host \in Hosts /\ host.unique \in Nat /\ host.open \subseteq 1 .. host.unique
    BY <1>0 DEF TypeOK, Hosts, HandlesInv
  <2>2. CASE host' = host /\ e.handle = entry[v].handle
    BY <2>1, <2>2
  <2>3. CASE host' = Opened(host) /\ e.handle = host.unique + 1 /\ ~ Exists(v)
    BY <2>1, <2>3, Opening DEF Follows
  <2> QED BY <2>2, <2>3
<1>6. trouble' \in Nat /\ (trouble' = 0 => trouble = 0)
  BY <1>0 DEF TypeOK
<1>7. TypeOK'
  <2>1. entry' \in [Volumes -> Entries \cup {NoEntry}]
    BY <1>0 DEF TypeOK
  <2> QED BY <1>0, <1>1, <1>3, <1>5, <1>6, <2>1 DEF TypeOK
<1>8. NodesInv'
  <2>1. \A w \in Volumes : entry'[w].node \in DOMAIN lists' \cup {NullNode}
    BY <1>0, <1>2, <1>3 DEF NodesInv
  <2>2. ASSUME NEW w \in Volumes, w # v, e.node = entry[w].node, e.node # NullNode
        PROVE  FALSE
    <3>1. entry[w].node \in DOMAIN lists
      BY <1>0, <2>2 DEF NodesInv
    <3> QED BY <1>0, <1>3, <2>2, <3>1 DEF NodesInv
  <2>3. \A u, w \in Volumes :
          entry'[u].node = entry'[w].node /\ entry'[u].node # NullNode => u = w
    BY <1>0, <1>2, <2>2 DEF NodesInv
  <2>4. \A m \in DOMAIN lists' : \A l \in lists'[m] : objs'[l] # Freed /\ objs'[l].node = m
    BY <1>0, <1>3 DEF NodesInv
  <2>5. \A l \in Made' : objs'[l].node <= nodes'
    <3>1. \A l \in Made : objs[l].node \in Int
      BY SMTT(20), <1>0 DEF TypeOK, Made, Locks, Freed
    <3>2. nodes \in Nat
      BY <1>0 DEF TypeOK
    <3> QED BY <1>0, <1>1, <1>3, <3>1, <3>2 DEF NodesInv
  <2>6. \A l \in Made' : objs'[l] # Freed /\ objs'[l].node \in DOMAIN lists'
                            => l \in lists'[objs'[l].node]
    <3> SUFFICES ASSUME NEW l \in Made, objs[l] # Freed, objs[l].node \in DOMAIN lists'
                 PROVE  l \in lists'[objs[l].node]
      BY <1>1
    <3>1. objs[l].node # nodes + 1
      <4>1. objs[l].node <= nodes /\ nodes \in Nat
        BY <1>0 DEF NodesInv, TypeOK
      <4> QED BY <4>1
    <3>2. objs[l].node \in DOMAIN lists
      BY <1>3, <3>1
    <3> QED BY <1>0, <1>3, <3>2 DEF NodesInv
  <2>7. ASSUME NEW w \in Volumes, NEW l \in Linked(w)' PROVE objs'[l].vol = w
    <3>1. entry'[w].node # NullNode /\ l \in lists'[entry'[w].node]
      BY <2>7 DEF Linked
    <3>2. entry'[w].node \in DOMAIN lists
      BY <1>3, <2>1, <3>1
    <3>3. entry'[w].node = entry[w].node
      BY <1>2, <1>3, <3>1, <3>2
    <3>4. l \in Linked(w)
      BY <1>3, <3>1, <3>2, <3>3 DEF Linked
    <3> QED BY <1>0, <3>4 DEF NodesInv
  <2> QED BY <2>1, <2>3, <2>4, <2>5, <2>6, <2>7 DEF NodesInv
<1>9. UseCounts'
  <2>1. e.use = Cardinality(LocksOf(v))
    <3>1. CASE Exists(v)
      BY <1>0, <3>1 DEF UseCounts
    <3>2. CASE ~ Exists(v)
      <4>1. LocksOf(v) = {} /\ e.use = 0
        BY <1>0, <3>2 DEF AbsentInv
      <4> QED BY <4>1, FS_EmptySet
    <3> QED BY <3>1, <3>2
  <2>2. \A w \in Volumes : w # v /\ Exists(w) => entry'[w].use = Cardinality(LocksOf(w)')
    BY <1>0, <1>2, <1>4 DEF UseCounts
  <2> QED BY <1>2, <1>4, <2>1, <2>2 DEF UseCounts, Exists
<1>10. AbsentInv'
  BY <1>0, <1>2, <1>4 DEF AbsentInv, Exists
<1>11. OwnersInv'
  BY <1>0, <1>1 DEF OwnersInv
<1>12. HeldAlive'
  <2> SUFFICES ASSUME NEW p \in Programs, NEW l \in Owns(p)
               PROVE  objs[l] # Freed /\ objs[l].node \in DOMAIN lists'
                      /\ entry'[objs[l].vol] # NoEntry
    BY <1>1 DEF HeldAlive, Alive, Exists
  <2>1. /\ objs[l] \in Locks /\ objs[l].vol \in Volumes
        /\ Exists(objs[l].vol) /\ objs[l].node \in DOMAIN lists
    BY OwnedCounted
  <2> QED BY <1>2, <1>3, <2>1, Kinds
<1>13. HandlesInv'
  <2>1. ASSUME ~ host.ended, NEW l \in Made PROVE objs[l].key <= host'.unique
    BY <1>0, <1>5, <2>1, KeysStay
  <2>2. trouble' = 0 => e.node # NullNode
    <3>1. nodes + 1 # NullNode /\ trouble \in Nat
      BY <1>0 DEF TypeOK, NullNode
    <3> QED BY <3>1
  <2>3. trouble' = 0 => \A w \in Volumes : entry'[w] # NoEntry => entry'[w].node # NullNode
    BY <1>0, <1>2, <1>6, <2>2 DEF HandlesInv
  <2> QED BY <1>0, <1>1, <1>5, <2>1, <2>3 DEF HandlesInv, Exists
<1>14. HandlesOwned'
  <2> SUFFICES ASSUME trouble' = 0, ~ host'.ended, NEW h \in Known(host')
               PROVE  \/ \E w \in Volumes : h = entry'[w].handle
                      \/ \E p \in Programs : \E l \in Owns(p) : h = objs[l].handle
    BY <1>1, OwnedFormNext DEF Known
  <2>1. CASE h = e.handle
    BY <1>2, <2>1
  <2>2. CASE h \in Known(host)
    <3>1. \/ \E w \in Volumes : h = entry[w].handle
          \/ \E p \in Programs : \E l \in Owns(p) : h = objs[l].handle
      BY <1>0, <1>5, <1>6, <2>2, OwnedForm DEF Known
    <3>2. ASSUME NEW w \in Volumes, h = entry[w].handle PROVE entry'[w].handle = h
      <4>1. CASE w # v
        BY <1>2, <3>2, <4>1
      <4>2. CASE w = v /\ Exists(v)
        BY <1>2, <1>5, <3>2, <4>2
      <4>3. CASE w = v /\ ~ Exists(v)
        <5>1. h = 0
          BY <1>0, <3>2, <4>3, EntryType, Kinds
        <5> QED BY <1>0, <2>2, <5>1 DEF HandlesInv, Known
      <4> QED BY <4>1, <4>2, <4>3
    <3> QED BY <3>1, <3>2
  <2> QED BY <1>5, <2>1, <2>2
<1> QED BY <1>7, <1>8, <1>9, <1>10, <1>11, <1>12, <1>13, <1>14 DEF IInv

LEMMA ScanInv == IInv /\ (ScanKnown \/ ScanNew) => IInv'
<1> SUFFICES ASSUME IInv, ScanKnown \/ ScanNew PROVE IInv'
  OBVIOUS
<1>0. TypeOK /\ HandlesInv
  BY DEF IInv
<1>1. ASSUME NEW v \in Volumes, NEW e \in Entries, NewNode(v, e)
      PROVE  \E f \in Entries :
               /\ entry' = [entry EXCEPT ![v] = f] /\ f.use = e.use /\ f.handle = e.handle
               /\ \/ /\ f.node = nodes + 1 /\ nodes' = nodes + 1 /\ trouble' = trouble
                     /\ lists' = [n \in DOMAIN lists \cup {nodes + 1} |->
                                    IF n = nodes + 1 THEN {} ELSE lists[n]]
                  \/ /\ f.node = NullNode /\ UNCHANGED <<lists, nodes>>
                     /\ trouble' = trouble + 1
  <2>1. CASE /\ trouble' = trouble /\ nodes' = nodes + 1
             /\ lists' = [n \in DOMAIN lists \cup {nodes + 1} |->
                             IF n = nodes + 1 THEN {} ELSE lists[n]]
             /\ entry' = [entry EXCEPT ![v] = [e EXCEPT !.node = nodes + 1]]
    <3> DEFINE f == [e EXCEPT !.node = nodes + 1]
    <3>1. nodes + 1 \in Nat
      BY <1>0 DEF TypeOK
    <3>2. f \in Entries
      BY <3>1 DEF Entries
    <3>3. f.use = e.use /\ f.handle = e.handle /\ f.node = nodes + 1
      BY DEF Entries
    <3> HIDE DEF f
    <3> QED BY <2>1, <3>2, <3>3 DEF f
  <2>2. CASE /\ trouble' = trouble + 1 /\ UNCHANGED <<lists, nodes>>
             /\ entry' = [entry EXCEPT ![v] = [e EXCEPT !.node = NullNode]]
    <3> DEFINE f == [e EXCEPT !.node = NullNode]
    <3>1. f \in Entries
      BY DEF Entries, NullNode
    <3>2. f.use = e.use /\ f.handle = e.handle /\ f.node = NullNode
      BY DEF Entries
    <3> HIDE DEF f
    <3> QED BY <2>2, <3>1, <3>2 DEF f
  <2> QED BY <1>1, <2>1, <2>2 DEF NewNode, NoTrouble, Trouble
<1>2. CASE ScanKnown
  <2>1. PICK v \in todo :
          /\ pc = "scan" /\ Exists(v)
          /\ LET e == [entry[v] EXCEPT !.seen = TRUE, !.inDos = TRUE]
             IN IF entry[v].inDos
                THEN entry' = [entry EXCEPT ![v] = e] /\ UNCHANGED <<lists, nodes, trouble>>
                ELSE NewNode(v, e)
          /\ todo' = todo \ {v} /\ UNCHANGED <<pc, host>> /\ ScanUnchanged
    BY <1>2 DEF ScanKnown
  <2> DEFINE e == [entry[v] EXCEPT !.seen = TRUE, !.inDos = TRUE]
  <2>2. v \in Volumes /\ entry[v] \in Entries
    BY <1>0, <2>1, EntryType DEF TypeOK
  <2>3. e \in Entries
    BY <2>2 DEF Entries
  <2>4. e.use = entry[v].use /\ e.handle = entry[v].handle /\ e.node = entry[v].node
    BY <2>2 DEF Entries
  <2>5. /\ todo' \subseteq Volumes
        /\ UNCHANGED <<pc, running, shutdown, mask, inuse, fails, objs, port, signal,
                      break, prog, sent, events>>
    BY <1>0, <2>1 DEF ScanUnchanged, TypeOK
  <2>6. (entry' = [entry EXCEPT ![v] = e] /\ UNCHANGED <<lists, nodes, trouble>>)
        \/ NewNode(v, e)
    BY <2>1
  <2> HIDE DEF e
  <2>7. CASE entry' = [entry EXCEPT ![v] = e] /\ UNCHANGED <<lists, nodes, trouble>>
    <3>1. e.node # NullNode \/ trouble > 0
      BY <1>0, <2>1, <2>2, <2>4 DEF HandlesInv, TypeOK
    <3> QED BY <2>1, <2>2, <2>3, <2>4, <2>5, <2>7, <3>1, SeenInv
  <2>8. CASE NewNode(v, e)
    <3>1. PICK f \in Entries :
               /\ entry' = [entry EXCEPT ![v] = f] /\ f.use = e.use /\ f.handle = e.handle
               /\ \/ /\ f.node = nodes + 1 /\ nodes' = nodes + 1 /\ trouble' = trouble
                     /\ lists' = [n \in DOMAIN lists \cup {nodes + 1} |->
                                    IF n = nodes + 1 THEN {} ELSE lists[n]]
                  \/ /\ f.node = NullNode /\ UNCHANGED <<lists, nodes>>
                     /\ trouble' = trouble + 1
      BY <1>1, <2>2, <2>3, <2>8
    <3> QED BY <2>1, <2>2, <2>4, <2>5, <3>1, SeenInv
  <2> QED BY <2>6, <2>7, <2>8
<1>3. CASE ScanNew
  <2>1. PICK v \in todo :
          /\ pc = "scan" /\ ~ Exists(v) /\ host' = Opened(host)
          /\ NewNode(v, [use |-> 0, seen |-> TRUE, inDos |-> TRUE, node |-> 0,
                          handle |-> host.unique + 1])
          /\ todo' = todo \ {v} /\ UNCHANGED pc /\ ScanUnchanged
    BY <1>3 DEF ScanNew
  <2> DEFINE e == [use |-> 0, seen |-> TRUE, inDos |-> TRUE, node |-> 0,
                   handle |-> host.unique + 1]
  <2>2. v \in Volumes /\ host.unique + 1 \in Nat
    BY <1>0, <2>1 DEF TypeOK, Hosts
  <2>3. e \in Entries /\ e.use = 0 /\ e.handle = host.unique + 1
    BY <2>2 DEF Entries
  <2>4. /\ todo' \subseteq Volumes
        /\ UNCHANGED <<pc, running, shutdown, mask, inuse, fails, objs, port, signal,
                      break, prog, sent, events>>
    BY <1>0, <2>1 DEF ScanUnchanged, TypeOK
  <2>5. NewNode(v, e)
    BY <2>1
  <2> HIDE DEF e
  <2>6. PICK f \in Entries :
             /\ entry' = [entry EXCEPT ![v] = f] /\ f.use = e.use /\ f.handle = e.handle
             /\ \/ /\ f.node = nodes + 1 /\ nodes' = nodes + 1 /\ trouble' = trouble
                   /\ lists' = [n \in DOMAIN lists \cup {nodes + 1} |->
                                  IF n = nodes + 1 THEN {} ELSE lists[n]]
                \/ /\ f.node = NullNode /\ UNCHANGED <<lists, nodes>>
                   /\ trouble' = trouble + 1
    BY <1>1, <2>2, <2>3, <2>5
  <2> QED BY <2>1, <2>2, <2>3, <2>4, <2>6, SeenInv
<1> QED BY <1>2, <1>3

\* Every look at the volumes ends with dropping those that are gone.
LEMMA RefreshInv ==
  IInv /\ (RefreshDown \/ RefreshFails \/ ScanEnd \/ Drain) => IInv'
<1> SUFFICES ASSUME IInv, RefreshDown \/ RefreshFails \/ ScanEnd \/ Drain
             PROVE  IInv'
  OBVIOUS
<1>0. TypeOK /\ AbsentInv /\ OwnersInv /\ HandlesInv
  BY DEF IInv
<1>3. /\ host \in Hosts /\ host.open \subseteq 1 .. host.unique /\ host.unique \in Nat
      /\ host \in Unopened(host)
  BY <1>0, HostType
<1>1. CASE RefreshFails /\ ~ (fails >= 1)
  <2>1. /\ pc = "refresh" /\ pc' = "serve" /\ fails' = 1 /\ events' = events + 1
        /\ UNCHANGED <<mask, inuse, entry, lists, nodes, objs, port, signal, break,
                      prog, todo, sent, trouble, running, shutdown>>
        /\ host' \in Unopened(host)
    BY <1>1 DEF RefreshFails, Goto, volVars
  <2>7. Follows(host, host') /\ Known(host') \subseteq Known(host)
    BY <1>3, <2>1, Unopening
  <2>8. /\ host' \in Hosts /\ host'.open \subseteq 1 .. host'.unique
        /\ ~ host'.ended => ~ host.ended /\ host'.up /\ host.unique <= host'.unique
    BY <1>0, <2>7 DEF Follows, HandlesInv
  <2>2. Made' = Made /\ \A p \in Programs : Owns(p)' = Owns(p)
    BY <2>1 DEF Made, Owns
  <2>3. TypeOK'
    BY <1>0, <2>1, <2>2, <2>8 DEF TypeOK
  <2>4. OwnersInv'
    BY <1>0, <2>1, <2>2 DEF OwnersInv
  <2>5. \A v \in Volumes : port'[v] # <<>> => Exists(v)
    BY <1>0, <2>1 DEF AbsentInv
  <2>6. UNCHANGED <<volVars, objs>>
    BY <2>1 DEF volVars
  <2> QED BY <2>1, <2>2, <2>3, <2>4, <2>5, <2>6, <2>7, <2>8, KeepInv
<1>2. CASE RefreshDown \/ (RefreshFails /\ fails >= 1) \/ ScanEnd \/ Drain
  <2>1. /\ \E h \in Unopened(host) : volume_flush(h)
        /\ pc # "done" /\ pc' = "serve"
        /\ trouble' = trouble /\ sent' = sent /\ todo' \subseteq Volumes
        /\ running' \in BOOLEAN /\ shutdown' \in 0 .. ShutdownTicks
        /\ fails' \in 0 .. 1 /\ events' \in Nat
    <3>1. CASE RefreshDown
      BY <1>0, <1>3, <3>1 DEF RefreshDown, Goto, bounds, TypeOK
    <3>2. CASE RefreshFails /\ fails >= 1
      BY <1>0, <3>2 DEF RefreshFails, Goto, TypeOK
    <3>3. CASE ScanEnd
      BY <1>0, <3>3 DEF ScanEnd, Goto, bounds, TypeOK
    <3>4. CASE Drain
      <4>1. shutdown > 0
        BY <1>0, <3>4 DEF Drain, AbsentInv
      <4> QED BY <1>0, <1>3, <3>4, <4>1 DEF Drain, bounds, TypeOK
    <3> QED BY <1>2, <3>1, <3>2, <3>3, <3>4
  <2> QED BY <2>1, FlushInv
<1> QED BY <1>1, <1>2

\* The handler ends and drops everything.
LEMMA ExitInv == IInv /\ Exit => IInv'
<1> SUFFICES ASSUME IInv, Exit PROVE IInv'
  OBVIOUS
<1>0. TypeOK /\ NodesInv /\ OwnersInv /\ HandlesInv
  BY DEF IInv
<1> DEFINE gone == {entry[v].node : v \in Volumes}
<1>1. /\ pc' = "done" /\ entry' = [v \in Volumes |-> NoEntry]
      /\ lists' = [n \in DOMAIN lists \ gone |-> lists[n]]
      /\ port' = [v \in Volumes |-> <<>>] /\ signal' = {}
      /\ host' \in Closed(host, {entry[v].handle : v \in Volumes})
      /\ inuse' = 0
      /\ UNCHANGED <<running, mask, todo, shutdown, fails, nodes, objs, break, prog,
                    sent, events, trouble>>
  BY DEF Exit, bounds
<1> HIDE DEF gone
<1>2. /\ Made' = Made /\ DOMAIN lists' \subseteq DOMAIN lists
      /\ lists' \in [DOMAIN lists' -> SUBSET Made]
      /\ \A n \in DOMAIN lists' : lists'[n] = lists[n]
  BY <1>0, <1>1 DEF Made, TypeOK
<1>3. \A v \in Volumes : entry'[v] = NoEntry
  BY <1>1
<1>4. /\ host' \in Hosts /\ host'.unique = host.unique
      /\ host'.open \subseteq 1 .. host'.unique
      /\ (host'.ended <=> host.ended) /\ (host'.up <=> host.up)
  BY <1>0, <1>1, HostType, Closing DEF Follows
<1>5. TypeOK'
  <2>1. entry' \in [Volumes -> Entries \cup {NoEntry}]
    BY <1>1
  <2>2. port' \in [Volumes -> Seq(Programs)]
    <3>1. <<>> \in Seq(Programs)
      OBVIOUS
    <3> QED BY <1>1, <3>1
  <2>3. inuse' \in 0 .. Cardinality(Volumes)
    BY <1>1, FS_CardinalityType
  <2> QED BY <1>0, <1>1, <1>2, <1>4, <2>1, <2>2, <2>3 DEF TypeOK
<1>6. NodesInv'
  <2>1. \A v \in Volumes : Linked(v)' = {}
    BY <1>3, Kinds DEF Linked
  <2>2. \A n \in DOMAIN lists' : \A l \in lists'[n] : objs'[l] # Freed /\ objs'[l].node = n
    BY <1>0, <1>1, <1>2 DEF NodesInv
  <2>3. \A l \in Made' : objs'[l] # Freed /\ objs'[l].node \in DOMAIN lists'
                            => l \in lists'[objs'[l].node]
    BY <1>0, <1>1, <1>2 DEF NodesInv
  <2>4. \A l \in Made' : objs'[l].node <= nodes'
    BY <1>0, <1>1, <1>2 DEF NodesInv
  <2> QED BY <1>3, <2>1, <2>2, <2>3, <2>4, Kinds DEF NodesInv
<1>7. UseCounts' /\ AbsentInv' /\ HeldAlive' /\ HandlesOwned'
  BY <1>1, <1>3 DEF UseCounts, AbsentInv, HeldAlive, HandlesOwned, Exists
<1>8. OwnersInv'
  BY <1>0, <1>1, <1>2 DEF OwnersInv, Owns
<1>9. HandlesInv'
  BY <1>0, <1>1, <1>2, <1>3, <1>4 DEF HandlesInv, Exists
<1> QED BY <1>5, <1>6, <1>7, <1>8, <1>9 DEF IInv

LEMMA InitInv == Init => IInv
<1> SUFFICES ASSUME Init PROVE IInv
  OBVIOUS
<1>1. /\ \A v \in Volumes : entry[v] = NoEntry /\ port[v] = <<>>
      /\ DOMAIN lists = {} /\ nodes = 0 /\ Len(objs) = 0 /\ Made = {}
      /\ \A p \in Programs : prog[p].packet = Idle /\ prog[p].holds = {}
      /\ host.open = {} /\ host.up /\ host.unique = 0 /\ pc = "refresh"
  BY DEF Init, Made
<1>2. TypeOK
  <2>1. host \in Hosts
    BY DEF Init, Hosts
  <2>2. prog \in [Programs -> [packet : Packets, holds : SUBSET Made]]
    BY DEF Init, Packets, Idle, NoLock
  <2>3. port \in [Volumes -> Seq(Programs)]
    BY DEF Init
  <2>4. entry \in [Volumes -> Entries \cup {NoEntry}]
    BY DEF Init
  <2>5. objs \in Seq(Locks \cup {Freed}) /\ lists \in [DOMAIN lists -> SUBSET Made]
    BY DEF Init
  <2>6. inuse \in 0 .. Cardinality(Volumes)
    BY FS_CardinalityType DEF Init
  <2>7. sent \in [Programs -> Nat]
    BY DEF Init
  <2>8. running \in BOOLEAN /\ break \in BOOLEAN
    BY DEF Init
  <2>9. shutdown \in 0 .. ShutdownTicks /\ todo \subseteq Volumes /\ mask \subseteq Volumes
        /\ signal \subseteq Volumes /\ fails \in 0 .. 1 /\ events \in Nat /\ trouble \in Nat
    BY DEF Init
  <2> QED BY <1>1, <2>1, <2>2, <2>3, <2>4, <2>5, <2>6, <2>7, <2>8, <2>9 DEF TypeOK
<1>3. NodesInv
  <2>1. \A v \in Volumes : Linked(v) = {}
    BY <1>1, Kinds DEF Linked
  <2> QED BY <1>1, <2>1, Kinds DEF NodesInv
<1>4. UseCounts /\ AbsentInv
  BY <1>1 DEF UseCounts, AbsentInv, Exists, LocksOf
<1>5. \A p \in Programs : Owns(p) = {}
  BY <1>1 DEF Owns, Idle
<1>6. OwnersInv
  BY <1>1, <1>5 DEF OwnersInv, Idle
<1>7. HeldAlive /\ HandlesInv /\ HandlesOwned
  BY <1>1, <1>5 DEF HeldAlive, HandlesInv, HandlesOwned, Exists
<1> QED BY <1>2, <1>3, <1>4, <1>6, <1>7 DEF IInv

LEMMA NextInv == IInv /\ [Next]_vars => IInv'
<1> SUFFICES ASSUME IInv, [Next]_vars PROVE IInv'
  OBVIOUS
<1>1. CASE UNCHANGED vars
  <2>1. /\ UNCHANGED <<running, pc, mask, todo, shutdown, inuse, fails, entry, lists,
                      nodes, objs, port, signal, break, prog, host, sent, events, trouble>>
        /\ UNCHANGED <<volVars, objs>>
    BY <1>1 DEF vars, handlerVars, volVars, bounds
  <2>2. Made' = Made /\ (\A v : LocksOf(v)' = LocksOf(v)) /\ NodesInv' /\ UseCounts'
    BY <2>1, SameNodes DEF IInv
  <2>3. TypeOK'
    BY <2>1, <2>2 DEF IInv, TypeOK
  <2>4. \A p \in Programs : Owns(p)' = Owns(p)
    BY <2>1 DEF Owns
  <2>5. AbsentInv'
    BY <2>1, <2>2 DEF IInv, AbsentInv, Exists
  <2>6. OwnersInv'
    BY <2>1, <2>2, <2>4 DEF IInv, OwnersInv
  <2>7. HeldAlive'
    BY <2>1, <2>2, <2>4 DEF IInv, HeldAlive, Alive, Exists
  <2>8. HandlesInv'
    BY <2>1, <2>2 DEF IInv, HandlesInv, Exists
  <2>9. HandlesOwned'
    <3>1. HandlesOwned
      BY DEF IInv
    <3> QED BY <2>1, <2>4, <3>1, OwnedForm, OwnedFormNext
  <2> QED BY <2>2, <2>3, <2>5, <2>6, <2>7, <2>8, <2>9 DEF IInv
<1>2. CASE Handler
  BY <1>2, LoopInv, RefreshInv, ScanInv, ExitInv, QuietPacketInv, LockPacketInv,
     ReleaseInv DEF Handler, Packet
<1>3. CASE Others
  BY <1>3, SendInv, HostInv DEF Others
<1> QED BY <1>1, <1>2, <1>3 DEF Next

-------------------------------------------------------------------------------
(* Theorems.                                                               *)

\* The inductive invariant of the handler holds in every state.
THEOREM Invariance == Spec => []IInv
BY InitInv, NextInv, PTL DEF Spec

\* Every variable keeps to its range; gvolumes_inuse counts no more volumes than
\* there are, and a list of locks holds locks that were made.
THEOREM TypeCorrect == Spec => []TypeOK
<1>1. IInv => TypeOK
  BY DEF IInv
<1> QED BY <1>1, Invariance, PTL

\* vl_use_count is the number of locks in the lists of the nodes the volume has
\* had, through every error path.
THEOREM UseCountsLocks == Spec => []UseCounts
<1>1. IInv => UseCounts
  BY DEF IInv
<1> QED BY <1>1, Invariance, PTL

\* No volume, node or lock that a program still uses is taken away.
THEOREM WhatIsHeldIsAlive == Spec => []HeldAlive
<1>1. IInv => HeldAlive
  BY DEF IInv
<1> QED BY <1>1, Invariance, PTL

\* Without trouble, every handle open on the host is that of a volume, or of a
\* lock or a file of a program, or was left by a call without an answer.
THEOREM NoHandleIsLost == Spec => []HandlesOwned
<1>1. IInv => HandlesOwned
  BY DEF IInv
<1> QED BY <1>1, Invariance, PTL
===============================================================================
