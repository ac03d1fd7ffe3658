----------------------------- MODULE FsHandler ------------------------------
(***************************************************************************)
(* smashfs, the AmigaDOS file system handler that shows the volumes of the *)
(* USB host: the list of volumes and their nodes in the DOS list           *)
(* (amiga/fs_vol.c), the locks and file handles it gives to programs       *)
(* (amiga/fs_packet.c) and its main loop (amiga/fs_hand.c).                *)
(*                                                                         *)
(* The handler is one task: it waits for its timer, for a break and for    *)
(* packets, looks through the host's volumes when the timer says so, then  *)
(* handles the packets of the ports whose signal it saw. Programs put      *)
(* packets into the ports at any time and wait for the answer. Calls of    *)
(* the file service succeed or fail as the host likes; FileSession is      *)
(* about what happens inside one. A call may also get no answer: then it   *)
(* is carried out or not, and if it is, before the host comes to the next  *)
(* one, as it takes messages in the order they were sent.                  *)
(*                                                                         *)
(* Packets that change none of this state (read, write, seek, examine,     *)
(* rename, ...) are one, ActionUse.                                        *)
(***************************************************************************)
EXTENDS Integers, Sequences, FiniteSets, FiniteSetsExt

CONSTANTS
    Volumes,
    Programs,
    ShutdownTicks,  \* the 15 seconds granted to programs at the end
    MaxPackets,     \* bound: packets each program sends
    MaxEvents,      \* bound: what happens to the host and its volumes, breaks,
                    \* allocations that fail and handles that are left open
                    \* by calls without an answer, together
    LostCost        \* bound: how many events such a handle counts for

ASSUME HandlerAssumption ==
    /\ IsFiniteSet(Volumes)
    /\ ShutdownTicks \in Nat /\ MaxEvents \in Nat /\ LostCost \in Nat
    /\ MaxPackets \in [Programs -> Nat]

VARIABLES
    running,    \* grunning
    pc,         \* where the main loop is
    mask,       \* the volumes whose signal Wait has returned
    todo,       \* volumes of the directory "::" still to be looked at
    shutdown,   \* shutdown_timer
    inuse,      \* gvolumes_inuse
    fails,      \* fopen_fails, up to 2
    entry,      \* vollist: per volume a record, or NoEntry
    lists,      \* the volume nodes in memory -> the locks in their list
    nodes,      \* number of volume nodes ever made
    objs,       \* the locks ever made, with the file they are for, or Freed
    port,       \* the packets in each volume's message port
    signal,     \* the volumes whose port has signalled
    break,      \* Control-C has been signalled
    prog,       \* per program the packet it waits for, and what it holds
    host,       \* the file server: up, has it ended, volumes, our handles,
                \* and those a call without an answer has left open
    sent, events, trouble

handlerVars == <<running, pc, mask, todo, shutdown, inuse, fails>>
volVars == <<entry, lists, nodes>>
bounds == <<sent, events, trouble>>
vars == <<handlerVars, volVars, objs, port, signal, break, prog, host, bounds>>
-----------------------------------------------------------------------------
NoEntry == [use |-> -1, seen |-> FALSE, inDos |-> FALSE, node |-> 0, handle |-> 0]
NullNode == 0           \* vl_volnode = NULL
NoLock == 0             \* the NULL lock: the volume itself

Shared == "shared"      Exclusive == "exclusive"    Mode0 == "0"

Freed == [vol |-> "none", node |-> 0, key |-> -1, access |-> Mode0, handle |-> -1]

Exists(v) == entry[v] # NoEntry
Listed(v) == Exists(v) /\ entry[v].inDos

Room(n) == events + trouble + LostCost * Cardinality(host.lost) + n <= MaxEvents
MayHappen == Room(1)
MayBeLost == Room(LostCost)
Trouble == MayHappen /\ trouble' = trouble + 1
NoTrouble == UNCHANGED trouble

\* Handles count up, from the start again when the file server is restarted.
\* h is the file server before the call.
Opened(h) == [h EXCEPT !.unique = @ + 1, !.open = @ \cup {h.unique + 1}]

\* An open that fails: without an answer, it may have been carried out.
Unopened(h) ==
    {h} \cup {[Opened(h) EXCEPT !.lost = @ \cup {h.unique + 1}] :
                 x \in {y \in {h} : y.up /\ MayBeLost}}

\* The handles in hs are closed, apart from those whose close is not carried
\* out: nobody looks at the result.
Closed(h, hs) ==
    {[h EXCEPT !.open = (@ \ hs) \cup left, !.lost = @ \cup left] :
        left \in {l \in SUBSET (hs \cap h.open) : l # {} => MayBeLost}}

\* volnode_init for the volume node; the device node has the same fate.
NewNode(v, e) ==
    \/ /\ NoTrouble /\ nodes' = nodes + 1
       /\ lists' = [n \in DOMAIN lists \cup {nodes + 1} |->
                        IF n = nodes + 1 THEN {} ELSE lists[n]]
       /\ entry' = [entry EXCEPT ![v] = [e EXCEPT !.node = nodes + 1]]
    \/ /\ Trouble
       /\ entry' = [entry EXCEPT ![v] = [e EXCEPT !.node = NullNode]]
       /\ UNCHANGED <<lists, nodes>>
-----------------------------------------------------------------------------
\* volume_flush

Gone(v) == Exists(v) /\ ~entry[v].seen
\* Faulty: a volume that is gone is removed although it is in use.
RemovableAny(v) == Gone(v)
Removable(v) == Gone(v) /\ entry[v].use = 0
\* Faulty: gvolumes_inuse is not reset.
InuseSum(n) == inuse + n
InuseNow(n) == n

\* Removes the volumes that were not seen, from the DOS list at least. With
\* DeletePort the packets in the port are lost. h is the file server before.
volume_flush(h) ==
    LET removed == {v \in Volumes : Removable(v)}
        kept == {v \in Volumes : Exists(v)} \ removed
    IN /\ entry' = [v \in Volumes |->
              IF v \in removed THEN NoEntry
              ELSE IF v \in kept
                   THEN [entry[v] EXCEPT !.seen = FALSE,
                                         !.inDos = entry[v].seen /\ @]
                   ELSE entry[v]]
       /\ lists' = [n \in DOMAIN lists \ {entry[v].node : v \in removed} |-> lists[n]]
       /\ port' = [v \in Volumes |-> IF v \in removed THEN <<>> ELSE port[v]]
       /\ signal' = signal \ removed
       /\ mask' = mask \ removed
       /\ host' \in Closed(h, {entry[v].handle : v \in removed})
       /\ inuse' = InuseNow(Cardinality(kept))
       /\ UNCHANGED <<nodes, objs, break, prog>>
-----------------------------------------------------------------------------
\* The main loop: waiting, and what the timer asks for

\* With "timer" the second, or the eighth one, in which the loop has to look
\* at the volumes has passed; with "locked" AttemptLockDosList succeeds.
Wake(timer, locked) ==
    /\ pc = "wait"
    /\ timer \/ signal # {} \/ break
    /\ mask' = signal /\ signal' = {}
    /\ pc' = IF timer /\ locked
             THEN IF running THEN "refresh"
                  ELSE IF shutdown > 0 THEN "drain" ELSE "serve"
             ELSE "serve"
    /\ UNCHANGED <<running, todo, shutdown, inuse, fails, volVars, objs, port,
                   break, prog, host, bounds>>

WakeLocked == Wake(TRUE, TRUE)
WakeOther == Wake(TRUE, FALSE) \/ Wake(FALSE, FALSE)

Goto(l) == pc' = l /\ UNCHANGED <<running, shutdown>>

\* refresh_volume_list
RefreshDown ==
    /\ pc = "refresh" /\ ~host.up
    /\ volume_flush(host) /\ Goto("serve")
    /\ UNCHANGED <<todo, fails, bounds>>

\* The directory of volumes cannot be opened, once or twice in a row.
RefreshFails ==
    /\ pc = "refresh" /\ host.up /\ MayHappen /\ events' = events + 1
    /\ fails' = 1 /\ Goto("serve")
    /\ \E h \in Unopened(host) :
          IF fails >= 1 THEN volume_flush(h)
          ELSE /\ host' = h
               /\ UNCHANGED <<mask, inuse, volVars, objs, port, signal, break, prog>>
    /\ UNCHANGED <<todo, sent, trouble>>

\* Its handle is not counted: the scan closes it when it ends.
RefreshOpen ==
    /\ pc = "refresh" /\ host.up
    /\ todo' = host.vols /\ fails' = 0 /\ Goto("scan")
    /\ UNCHANGED <<mask, inuse, volVars, objs, port, signal, break, prog, host, bounds>>

ScanUnchanged == UNCHANGED <<running, shutdown, mask, inuse, fails, objs, port,
                             signal, break, prog, sent, events>>

\* volume_seen of a volume in the list: one that had been dropped from the
\* DOS list gets a new node, and the old one is forgotten with its locks.
ScanKnown == \E v \in todo :
    /\ pc = "scan" /\ Exists(v)
    /\ LET e == [entry[v] EXCEPT !.seen = TRUE, !.inDos = TRUE]
       IN IF entry[v].inDos
          THEN entry' = [entry EXCEPT ![v] = e] /\ UNCHANGED <<lists, nodes, trouble>>
          ELSE NewNode(v, e)
    /\ todo' = todo \ {v} /\ UNCHANGED <<pc, host>> /\ ScanUnchanged

\* volume_seen of a new volume
ScanNew == \E v \in todo :
    /\ pc = "scan" /\ ~Exists(v) /\ host.up
    /\ host' = Opened(host)
    /\ NewNode(v, [use |-> 0, seen |-> TRUE, inDos |-> TRUE, node |-> 0,
                   handle |-> host.unique + 1])
    /\ todo' = todo \ {v} /\ UNCHANGED pc /\ ScanUnchanged

\* The volume cannot be opened any more, or the call gets no answer.
ScanVanished == \E v \in todo :
    /\ pc = "scan" /\ ~Exists(v)
    /\ host' \in IF v \in host.vols THEN Unopened(host) ELSE {host}
    /\ todo' = todo \ {v} /\ UNCHANGED <<pc, volVars, trouble>> /\ ScanUnchanged

\* The directory is at its end, or reading it failed half way, which counts as
\* the volumes not seen leaving and coming back: two events. It is closed; if
\* the host does not do it, its handle is left.
ScanEnd ==
    /\ pc = "scan"
    /\ IF todo = {} \/ ~host.up THEN UNCHANGED events
       ELSE Room(2) /\ events' = events + 2
    /\ todo' = {}
    /\ (\E h \in Unopened(host) : volume_flush(h)) /\ Goto("serve")
    /\ UNCHANGED <<fails, sent, trouble>>

\* The handler is to end: each second it drops what is no longer in use.
Drain ==
    /\ pc = "drain"
    /\ volume_flush(host)
    /\ shutdown' = shutdown - 1 /\ pc' = "serve"
    /\ UNCHANGED <<running, todo, fails, bounds>>
-----------------------------------------------------------------------------
\* Locks

Linked(v) == IF entry[v].node = NullNode THEN {} ELSE lists[entry[v].node]

\* CreateLock refuses a key that is locked by the lock nearest to the head of
\* the list, which is the youngest.
Refused(v, key, access) ==
    LET same == {l \in Linked(v) : objs[l].key = key}
        found == IF same = {} THEN Mode0 ELSE objs[Max(same)].access
    IN \/ entry[v].node = NullNode
       \/ access = Exclusive /\ found # Mode0
       \/ found = Exclusive

NewLock(v, key, access, handle) ==
    /\ objs' = Append(objs, [vol |-> v, node |-> entry[v].node, key |-> key,
                             access |-> access, handle |-> handle])
    /\ lists' = [lists EXCEPT ![entry[v].node] = @ \cup {Len(objs) + 1}]
    /\ entry' = [entry EXCEPT ![v].use = @ + 1]
    /\ UNCHANGED nodes
NoNewLock == UNCHANGED <<volVars, objs>>

\* Faulty: the use count goes down for a lock that is not in the list, too.
FreeLockCounts(v, l) ==
    /\ entry' = [entry EXCEPT ![v].use = @ - 1]
    /\ IF l \in Linked(v)
       THEN /\ lists' = [lists EXCEPT ![entry[v].node] = @ \ {l}]
            /\ objs' = [objs EXCEPT ![l] = Freed]
       ELSE UNCHANGED <<lists, objs>>
    /\ UNCHANGED nodes
\* A lock of a node that was replaced is not in the list of the new one. The
\* code does not ask whether there is a node: what stands for the list of a NULL
\* node is taken not to contain the lock.
FreeLock(v, l) ==
    IF l \in Linked(v)
    THEN /\ lists' = [lists EXCEPT ![entry[v].node] = @ \ {l}]
         /\ entry' = [entry EXCEPT ![v].use = @ - 1]
         /\ objs' = [objs EXCEPT ![l] = Freed]
         /\ UNCHANGED nodes
    ELSE UNCHANGED <<volVars, objs>>
-----------------------------------------------------------------------------
\* Packets. Serving(v, p, op): the handler takes p's packet out of v's port.

\* Faulty: one packet is taken for each signal.
OncePerSignal(v) == mask \ {v}
RestOf(v) == mask

Idle == [op |-> "none", lock |-> NoLock]
Serving(v, p, ops) ==
    /\ pc = "serve" /\ v \in mask /\ port[v] # <<>> /\ Head(port[v]) = p
    /\ prog[p].packet.op \in ops
    /\ port' = [port EXCEPT ![v] = Tail(@)]
    /\ mask' = RestOf(v)
    /\ UNCHANGED <<pc, todo, shutdown, inuse, fails, signal, break, sent, events>>
Reply(p, holds) == prog' = [prog EXCEPT ![p] = [packet |-> Idle, holds |-> holds]]
Allowed == running /\ UNCHANGED running

\* Not running: only packets that release something are accepted.
Reject == \E v \in Volumes, p \in Programs :
    /\ ~running
    /\ Serving(v, p, {"volume", "use"})
    /\ Reply(p, prog[p].holds)
    /\ NoNewLock /\ NoTrouble /\ UNCHANGED <<running, host>>

\* The packet fails on the host, or changes nothing here: but one or two opens
\* that failed, or the close of a handle that is needed only for the packet, may
\* leave a handle each.
ActionUse == \E v \in Volumes, p \in Programs :
    /\ Serving(v, p, {"volume", "use"}) /\ Allowed
    /\ Reply(p, prog[p].holds)
    /\ \E h \in Unopened(host) : host' \in Unopened(h)
    /\ NoNewLock /\ NoTrouble

\* LOCATE_OBJECT, COPY_DIR, CREATE_DIR, PARENT: open, with a second try, then
\* CreateLock. When it returns NULL nobody closes the handle.
ActionLock == \E v \in Volumes, p \in Programs, access \in {Shared, Exclusive, Mode0} :
              \E before \in Unopened(host) :
    LET h == before.unique + 1
    IN /\ Serving(v, p, {"volume"}) /\ Allowed /\ host.up /\ host' = Opened(before)
       /\ \/ /\ ~Refused(v, h, access) /\ NewLock(v, h, access, h)
             /\ Reply(p, prog[p].holds \cup {Len(objs) + 1}) /\ NoTrouble
          \/ /\ \/ Refused(v, h, access) /\ NoTrouble
                \/ ~Refused(v, h, access) /\ Trouble
             /\ NoNewLock /\ Reply(p, prog[p].holds)

\* FINDINPUT and FINDUPDATE. Without memory for the file the handle is closed
\* and the lock stays.
ActionFindInput == \E v \in Volumes, p \in Programs, before \in Unopened(host) :
    LET h == before.unique + 1
        refused == Refused(v, h, Shared)
    IN /\ Serving(v, p, {"volume"}) /\ Allowed /\ host.up
       /\ \/ /\ ~refused /\ NewLock(v, h, Shared, h) /\ NoTrouble
             /\ host' = Opened(before)
             /\ Reply(p, prog[p].holds \cup {Len(objs) + 1})
          \/ /\ ~refused /\ NewLock(v, h, Shared, h) /\ Trouble
             /\ host' \in Closed(Opened(before), {h})
             /\ Reply(p, prog[p].holds)
          \/ /\ \/ refused /\ NoTrouble
                \/ ~refused /\ Trouble
             /\ NoNewLock /\ Reply(p, prog[p].holds)
             /\ host' \in Closed(Opened(before), {h})

\* FINDOUTPUT makes the lock before it opens the file, with a key that has not
\* been set: what the stack has there, the handle of another lock or none (0).
ActionFindOutput == \E v \in Volumes, p \in Programs :
                    \E junk \in {0} \cup {objs[l].key : l \in Linked(v)} :
    LET h == host.unique + 1
        refused == Refused(v, junk, Exclusive)
    IN /\ Serving(v, p, {"volume"}) /\ Allowed /\ host.up
       /\ \/ /\ ~refused /\ NewLock(v, junk, Exclusive, h) /\ NoTrouble
             /\ host' = Opened(host)
             /\ Reply(p, prog[p].holds \cup {Len(objs) + 1})
          \/ /\ \/ refused /\ NoTrouble /\ UNCHANGED host
                \/ ~refused /\ Trouble /\ host' \in Unopened(host)
             /\ NoNewLock /\ Reply(p, prog[p].holds)

\* Faulty: the handle of the object is not closed.
KeepsHandle(h) == {host}
ClosesHandle(h) == Closed(host, {h})

\* FREE_LOCK and END
ActionRelease == \E v \in Volumes, p \in Programs :
    LET l == prog[p].packet.lock
    IN /\ Serving(v, p, {"release"}) /\ UNCHANGED running
       /\ host' \in ClosesHandle(objs[l].handle)
       /\ FreeLock(v, l)
       /\ Reply(p, prog[p].holds) /\ NoTrouble

\* EXAMINE_NEXT that meets a damaged directory entry closes the lock's handle.
ActionExamineNext == \E v \in Volumes, p \in Programs :
    /\ Serving(v, p, {"use"}) /\ Allowed
    /\ prog[p].packet.lock # NoLock
    /\ host' \in Closed(host, {objs[prog[p].packet.lock].key})
    /\ Reply(p, prog[p].holds) /\ NoNewLock /\ NoTrouble

ActionDie == \E v \in Volumes, p \in Programs :
    /\ Serving(v, p, {"volume"}) /\ running
    /\ running' = FALSE
    /\ Reply(p, prog[p].holds) /\ NoNewLock /\ NoTrouble /\ UNCHANGED host

\* The ports are empty: a break is looked at, and the loop goes on or ends.
\* Faulty: the loop waits for the volumes to be free, however long it takes.
GoesOnWhileUsed == inuse > 0
GoesOn == inuse > 0 /\ shutdown # 0
Check ==
    /\ pc = "serve" /\ \A v \in mask : port[v] = <<>>
    /\ running' = (running /\ ~break) /\ break' = FALSE
    /\ pc' = IF running' \/ GoesOn THEN "wait" ELSE "exit"
    /\ mask' = {}
    /\ UNCHANGED <<todo, shutdown, inuse, fails, volVars, objs, port, signal,
                   prog, host, bounds>>

\* main: volume_close forgets the use counts, and volume_flush takes all.
Exit ==
    /\ pc = "exit"
    /\ pc' = "done"
    /\ entry' = [v \in Volumes |-> NoEntry]
    /\ lists' = [n \in DOMAIN lists \ {entry[v].node : v \in Volumes} |-> lists[n]]
    /\ port' = [v \in Volumes |-> <<>>] /\ signal' = {}
    /\ host' \in Closed(host, {entry[v].handle : v \in Volumes})
    /\ inuse' = 0
    /\ UNCHANGED <<running, mask, todo, shutdown, fails, nodes, objs, break, prog,
                   bounds>>
-----------------------------------------------------------------------------
\* Programs, the user and the host

EnvUnchanged == UNCHANGED <<handlerVars, volVars, objs>>

Put(p, v, op, l, holds) ==
    /\ prog[p].packet = Idle /\ sent[p] < MaxPackets[p]
    /\ sent' = [sent EXCEPT ![p] = @ + 1]
    /\ prog' = [prog EXCEPT ![p] = [packet |-> [op |-> op, lock |-> l], holds |-> holds]]
    /\ port' = [port EXCEPT ![v] = Append(@, p)]
    /\ signal' = signal \cup {v}
    /\ UNCHANGED <<break, host, events, trouble>> /\ EnvUnchanged

\* A packet for a volume found in the DOS list. What it asks for is chosen
\* when the handler comes to it.
SendVolume == \E p \in Programs, v \in Volumes :
    Listed(v) /\ Put(p, v, "volume", NoLock, prog[p].holds)

\* A packet for a lock or a file the program has: fl_Task is the port.
SendLock == \E p \in Programs : \E l \in prog[p].holds :
    pc # "done" /\ Put(p, objs[l].vol, "use", l, prog[p].holds)
SendRelease == \E p \in Programs : \E l \in prog[p].holds :
    pc # "done" /\ Put(p, objs[l].vol, "release", l, prog[p].holds \ {l})

\* What happens to the host between two packets is for the packets the same as
\* calls that fail; it happens here while the handler waits or scans.
Happens == pc \in {"wait", "scan"} /\ MayHappen /\ events' = events + 1
                /\ UNCHANGED <<port, signal, prog, sent, trouble>> /\ EnvUnchanged

Break == Happens /\ running /\ pc = "wait" /\ break' = TRUE /\ UNCHANGED host
VolumesChange == \E vs \in SUBSET Volumes :
    Happens /\ vs # host.vols /\ host' = [host EXCEPT !.vols = vs] /\ UNCHANGED break
HostEnds == /\ Happens /\ host.up /\ UNCHANGED break
            /\ host' = [host EXCEPT !.up = FALSE, !.ended = TRUE, !.open = {},
                                   !.lost = {}, !.unique = 0]
HostStarts == Happens /\ ~host.up /\ host' = [host EXCEPT !.up = TRUE] /\ UNCHANGED break
-----------------------------------------------------------------------------
\* main looks for volumes once before it starts the loop.
Init ==
    /\ running = TRUE /\ pc = "refresh" /\ mask = {} /\ todo = {}
    /\ shutdown = ShutdownTicks /\ inuse = 0 /\ fails = 0
    /\ entry = [v \in Volumes |-> NoEntry]
    /\ lists = [n \in {} |-> {}] /\ nodes = 0
    /\ objs = <<>>
    /\ port = [v \in Volumes |-> <<>>] /\ signal = {} /\ break = FALSE
    /\ prog = [p \in Programs |-> [packet |-> Idle, holds |-> {}]]
    /\ host = [up |-> TRUE, ended |-> FALSE, vols |-> Volumes, open |-> {},
                lost |-> {}, unique |-> 0]
    /\ sent = [p \in Programs |-> 0] /\ events = 0 /\ trouble = 0

Packet == Reject \/ ActionUse \/ ActionLock \/ ActionFindInput \/ ActionFindOutput
            \/ ActionRelease \/ ActionExamineNext \/ ActionDie
Handler == WakeLocked \/ WakeOther \/ RefreshDown \/ RefreshFails \/ RefreshOpen
            \/ ScanKnown \/ ScanNew \/ ScanVanished \/ ScanEnd \/ Drain
            \/ Packet \/ Check \/ Exit
Others == SendVolume \/ SendLock \/ SendRelease \/ Break \/ VolumesChange
            \/ HostEnds \/ HostStarts

Next == Handler \/ Others
Spec == Init /\ [][Next]_vars

\* The handler's task runs, its timer expires, and the DOS list is not kept
\* locked by others for ever.
FairSpec == Spec /\ WF_vars(Handler) /\ SF_vars(WakeLocked)
-----------------------------------------------------------------------------
\* The types; gvolumes_inuse never counts more volumes than there are.
Entries == [use : Nat, seen : BOOLEAN, inDos : BOOLEAN, node : Nat, handle : Nat]
Locks == [vol : Volumes, node : Nat, key : Nat, handle : Nat,
          access : {Shared, Exclusive, Mode0}]
Packets == [op : {"none", "volume", "use", "release"}, lock : Nat]
Hosts == [up : BOOLEAN, ended : BOOLEAN, vols : SUBSET Volumes,
          open : SUBSET Nat, lost : SUBSET Nat, unique : Nat]
Made == 1 .. Len(objs)

TypeOK ==
    /\ running \in BOOLEAN /\ break \in BOOLEAN /\ shutdown \in 0 .. ShutdownTicks
    /\ pc \in {"wait", "refresh", "scan", "drain", "serve", "exit", "done"}
    /\ mask \subseteq Volumes /\ signal \subseteq Volumes /\ todo \subseteq Volumes
    /\ inuse \in 0 .. Cardinality(Volumes) /\ fails \in 0 .. 1
    /\ entry \in [Volumes -> Entries \cup {NoEntry}]
    /\ nodes \in Nat /\ DOMAIN lists \subseteq 1 .. nodes
    /\ objs \in Seq(Locks \cup {Freed}) /\ lists \in [DOMAIN lists -> SUBSET Made]
    /\ port \in [Volumes -> Seq(Programs)]
    /\ prog \in [Programs -> [packet : Packets, holds : SUBSET Made]]
    /\ host \in Hosts
    /\ sent \in [Programs -> Nat] /\ events \in Nat /\ trouble \in Nat

\* vl_use_count is the number of locks in the lists of the nodes the volume
\* has had, the forgotten ones included, through every error path.
LocksOf(v) == {l \in Made : /\ objs[l] # Freed /\ objs[l].vol = v
                            /\ \E n \in DOMAIN lists : l \in lists[n]}
UseCounts == \A v \in Volumes :
                Exists(v) => entry[v].use = Cardinality(LocksOf(v))

\* What a program holds, or has sent back in a packet, is still there: the
\* lock, the volume node it points to, and the port its packets go to. Volumes
\* that go, come back and go again do not take them away.
Owns(p) == prog[p].holds \cup ({prog[p].packet.lock} \ {NoLock})
Alive(l) == /\ objs[l] # Freed /\ objs[l].node \in DOMAIN lists
            /\ Exists(objs[l].vol)
HeldAlive == pc # "done" => \A p \in Programs : \A l \in Owns(p) : Alive(l)

\* No handle is left open on the host that neither a volume nor a program's
\* lock or file is responsible for, apart from those that a call without an
\* answer has left; unless an allocation failed or the file server was restarted.
HandlesOwned == (trouble = 0 /\ ~host.ended /\ pc # "done") =>
    host.open \ host.lost \subseteq {entry[v].handle : v \in Volumes} \cup
        {objs[l].handle : l \in UNION {Owns(p) : p \in Programs}}

\* A packet about a lock or a file is answered, whatever happens to the volume
\* and the host, as long as the handler is there.
LockPacketsAnswered == \A p \in Programs :
    (prog[p].packet.lock # NoLock) ~> (prog[p].packet = Idle \/ pc = "done")

\* Told to end, the handler ends, even if programs never release their locks.
ShutdownEnds == ~running ~> pc = "done"
=============================================================================
