----------------------------- MODULE MsgBuffers -----------------------------
(***************************************************************************)
(* The two message rings of fw/msg.c and the commands that work on them.   *)
(*                                                                         *)
(* Amiga commands run to completion in the bus capture interrupt           *)
(* (tim5_isr -> process_addresses -> execute_cmd): each is one step here.  *)
(* USB commands run in the main loop (msg_usb_service -> execute_usb_cmd)  *)
(* with interrupts enabled: each is cut at every access to a variable the  *)
(* interrupt also uses, and pc says where the main loop is.  A refused     *)
(* command (LOCKED, BADLEN) changes nothing and is a stuttering step.      *)
(***************************************************************************)
EXTENDS Ring, Sequences, FiniteSets

CONSTANTS
    Payloads,    \* payload lengths, in words, the two sides send
    AmigaCmds,   \* the <<command, ring>> pairs the Amiga issues
    UsbCmds,     \* those the USB host issues
    AmigaLocks,  \* the lock bit sets the Amiga passes to MSG_LOCK
    UsbLocks,    \* those the USB host passes
    QuietLock,   \* TRUE: the Amiga locks only while no USB command runs
    MaxSent      \* bound: messages accepted per ring

Rings == {"atou", "utoa"}
Sides == {"amiga", "usb"}
Cmds  == {"send", "recv", "flush"} \X Rings

\* msg_lock: <<s, r>> denies ring r to side s.  BIT(0) is <<"usb", "atou">>,
\* BIT(1) <<"usb", "utoa">>, BIT(2) <<"amiga", "atou">>, BIT(3)
\* <<"amiga", "utoa">>.
Bits == Sides \X Rings

\* The commands without KS_MSG_ALTBUF.
AmigaOwn == {<<"send", "atou">>, <<"recv", "utoa">>, <<"flush", "utoa">>}
UsbOwn   == {<<"send", "utoa">>, <<"recv", "atou">>, <<"flush", "atou">>}

ASSUME BuffersAssumption ==
    /\ Payloads \subseteq Nat
    /\ AmigaCmds \subseteq Cmds
    /\ UsbCmds \subseteq Cmds
    /\ AmigaLocks \subseteq SUBSET Bits
    /\ UsbLocks \subseteq SUBSET Bits
    /\ QuietLock \in BOOLEAN
    /\ MaxSent \in Nat

VARIABLES
    buf, prod, cons,    \* msg_*[], prod_* and cons_*, by ring
    msg_lock,           \* the lock bits set
    pc,                 \* where execute_usb_cmd is, "idle" between commands
    cmd, ring,          \* the USB command running and its ring
    len,                \* its raw length (raw_len of a send, len of a receive)
    snap,               \* the producer index it has read
    bad,                \* it saw a bad magic
    bits, lockSnap,     \* the lock bits of its MSG_LOCK, msg_lock as it read it
    log,                \* history: accepted messages, by ring
    taken,              \* history: messages up to this one have left the ring
    upto,               \* history: messages accepted when snap was read
    out,                \* history: the message last delivered, by ring
    granted             \* history: lock bits granted with KS_STATUS_OK

rings  == <<buf, prod, cons>>
local  == <<cmd, ring, len, snap, bad, bits, lockSnap, upto>>
past   == <<log, taken, out>>
vars   == <<rings, msg_lock, pc, local, past, granted>>

Pcs == {"idle", "space", "copy", "publish", "len", "store", "reply", "advance",
        "flush", "lock", "unlock"}

\* What log says of a message: where it starts, in words ever put in its ring,
\* and its raw length.
Entry == [at : Nat, len : Index]

\* Words put in the ring up to the end of log lg, and where its i-th message
\* starts.
Total(lg) == IF lg = <<>> THEN 0 ELSE lg[Len(lg)].at + lg[Len(lg)].len
Start(lg, i) == IF i <= Len(lg) THEN lg[i].at ELSE Total(lg)

\* The logs with a message of n words accepted in ring r.
Extend(lg, n) == Append(lg, [at |-> Total(lg), len |-> n])
Accept(r, n) == [log EXCEPT ![r] = Extend(@, n)]

NextId(r) == Len(log[r]) + 1

Init ==
    /\ buf = [r \in Rings |-> [i \in Index |-> Blank]]
    /\ prod = [r \in Rings |-> 0]
    /\ cons = [r \in Rings |-> 0]
    /\ msg_lock = {}
    /\ pc = "idle"
    /\ cmd = "none" /\ ring = "atou" /\ len = 0 /\ snap = 0 /\ bad = FALSE
    /\ bits = {} /\ lockSnap = {} /\ upto = 0
    /\ log = [r \in Rings |-> <<>>]
    /\ taken = [r \in Rings |-> 0]
    /\ out = [r \in Rings |-> 0]
    /\ granted = {}

-----------------------------------------------------------------------------
(* Amiga commands: one interrupt each.                                     *)

\* The Amiga programs use KS_MSG_ALTBUF only in the loopback test, which has
\* been granted the lock of both rings by then and gives it back afterwards.
AmigaMayIssue(c) ==
    /\ c \in AmigaCmds
    /\ c \in AmigaOwn \/ <<"usb", c[2]>> \in granted

AmigaSend(r, n) ==
    /\ AmigaMayIssue(<<"send", r>>)
    /\ Len(log[r]) < MaxSent
    /\ <<"amiga", r>> \notin msg_lock
    /\ RawLen(n) <= Avail(prod[r], cons[r])
    /\ buf' = [buf EXCEPT ![r] = Copy(@, prod[r], NextId(r), RawLen(n))]
    /\ prod' = [prod EXCEPT ![r] = Wrap(@ + RawLen(n))]
    /\ log' = Accept(r, RawLen(n))
    /\ UNCHANGED <<cons, msg_lock, pc, local, taken, out, granted>>

\* atou_next_msg_len or utoa_next_msg_len finds a message: it is sent to the
\* Amiga and then dropped from the ring.
AmigaRecv(r) ==
    /\ AmigaMayIssue(<<"recv", r>>)
    /\ <<"amiga", r>> \notin msg_lock
    /\ HasMessage(buf[r], prod[r], cons[r])
    /\ LET n == LenAt(buf[r], cons[r]) IN
         /\ out' = [out EXCEPT ![r] = Delivered(buf[r], cons[r], n)]
         /\ cons' = [cons EXCEPT ![r] = Wrap(@ + n)]
         /\ taken' = [taken EXCEPT ![r] = out'[r]]
    /\ UNCHANGED <<buf, prod, msg_lock, pc, local, log, granted>>

\* Faulty: a ring with no more than a header in it counts as empty.
AmigaRecvNoneHeader(r) ==
    /\ AmigaMayIssue(<<"recv", r>>)
    /\ <<"amiga", r>> \notin msg_lock
    /\ Inuse(prod[r], cons[r]) <= HdrLen \/ ~ HasMessage(buf[r], prod[r], cons[r])
    /\ cons' = [cons EXCEPT ![r] = prod[r]]
    /\ taken' = [taken EXCEPT ![r] = Len(log[r])]
    /\ UNCHANGED <<buf, prod, msg_lock, pc, local, log, out, granted>>

\* It does not: what there is goes, and the answer is KS_STATUS_NODATA.
AmigaRecvNone(r) ==
    /\ AmigaMayIssue(<<"recv", r>>)
    /\ <<"amiga", r>> \notin msg_lock
    /\ ~ HasMessage(buf[r], prod[r], cons[r])
    /\ cons' = [cons EXCEPT ![r] = prod[r]]
    /\ taken' = [taken EXCEPT ![r] = Len(log[r])]
    /\ UNCHANGED <<buf, prod, msg_lock, pc, local, log, out, granted>>

\* KS_CMD_MSG_FLUSH of the Amiga looks at no lock.
AmigaFlush(r) ==
    /\ AmigaMayIssue(<<"flush", r>>)
    /\ cons' = [cons EXCEPT ![r] = prod[r]]
    /\ taken' = [taken EXCEPT ![r] = Len(log[r])]
    /\ UNCHANGED <<buf, prod, msg_lock, pc, local, log, out, granted>>

\* Faulty: a lock command takes what the other side holds.
LockAlways(s, other, b) == TRUE

\* Side s may set bits b: it denies the other side no ring that is denied to
\* itself.
LockFree(s, other, b) ==
    \A r \in Rings : <<other, r>> \in b => <<s, r>> \notin msg_lock

AmigaLock(b) ==
    /\ b \in AmigaLocks
    /\ QuietLock => pc = "idle"
    /\ LockFree("amiga", "usb", b)
    /\ msg_lock' = msg_lock \cup b
    /\ granted' = granted \cup b
    /\ UNCHANGED <<rings, pc, local, past>>

AmigaUnlock(b) ==
    /\ b \in AmigaLocks
    /\ msg_lock' = msg_lock \ b
    /\ granted' = granted \ b
    /\ UNCHANGED <<rings, pc, local, past>>

Amiga ==
    \/ \E r \in Rings, n \in Payloads : AmigaSend(r, n)
    \/ \E r \in Rings : AmigaRecv(r)
    \/ \E r \in Rings : AmigaRecvNone(r)
    \/ \E r \in Rings : AmigaFlush(r)
    \/ \E b \in AmigaLocks : AmigaLock(b)
    \/ \E b \in AmigaLocks : AmigaUnlock(b)

-----------------------------------------------------------------------------
(* USB commands: the main loop between two accesses.                       *)

\* Faulty: the USB command does not look at the lock.
AllowedAlways(r) == TRUE

\* The lock check of a USB command on ring r.
Allowed(r) == <<"usb", r>> \notin msg_lock

\* The host's next command c has arrived; its lock check lets it through.
UsbBegin(c, first) ==
    /\ pc = "idle"
    /\ c \in UsbCmds
    /\ cmd' = c[1] /\ ring' = c[2] /\ pc' = first

\* The command is over and its locals with it.
UsbEnd ==
    /\ pc' = "idle"
    /\ cmd' = "none" /\ ring' = "atou" /\ len' = 0 /\ snap' = 0 /\ bad' = FALSE
    /\ bits' = {} /\ lockSnap' = {} /\ upto' = 0

UsbSend(r, n) ==
    /\ UsbBegin(<<"send", r>>, "space")
    /\ Allowed(r)
    /\ Len(log[r]) < MaxSent
    /\ len' = RawLen(n)
    /\ UNCHANGED <<rings, msg_lock, past, granted, snap, bad, bits, lockSnap, upto>>

\* utoa_add: the space check, KS_STATUS_BADLEN when it fails.
UsbSpace ==
    /\ pc = "space"
    /\ len <= Avail(prod[ring], cons[ring])
    /\ pc' = "copy"
    /\ snap' = prod[ring]
    /\ UNCHANGED <<rings, msg_lock, past, granted, cmd, ring, len, bad, bits,
                   lockSnap, upto>>

UsbNoSpace ==
    /\ pc = "space"
    /\ len > Avail(prod[ring], cons[ring])
    /\ UsbEnd
    /\ UNCHANGED <<rings, msg_lock, past, granted>>

\* utoa_add: the memcpy.
UsbCopy ==
    /\ pc = "copy"
    /\ pc' = "publish"
    /\ buf' = [buf EXCEPT ![ring] = Copy(@, snap, NextId(ring), len)]
    /\ UNCHANGED <<prod, cons, msg_lock, past, granted, local>>

\* utoa_add: prod_utoa moves, after the barrier.  Nothing makes the compiler
\* read prod_utoa again here, nor keeps it from doing so.
UsbPublish ==
    /\ pc = "publish"
    /\ \E p \in {snap, prod[ring]} : prod' = [prod EXCEPT ![ring] = Wrap(p + len)]
    /\ log' = Accept(ring, len)
    /\ UsbEnd
    /\ UNCHANGED <<buf, cons, msg_lock, taken, out, granted>>

UsbRecv(r) ==
    /\ UsbBegin(<<"recv", r>>, "len")
    /\ Allowed(r)
    /\ UNCHANGED <<rings, msg_lock, past, granted, len, snap, bad, bits, lockSnap, upto>>

\* atou_next_msg_len finds a message at the consumer index.
UsbNextLen ==
    /\ pc = "len"
    /\ HasMessage(buf[ring], prod[ring], cons[ring])
    /\ len' = LenAt(buf[ring], cons[ring])
    /\ pc' = "reply"
    /\ UNCHANGED <<rings, msg_lock, past, granted, cmd, ring, snap, bad, bits,
                   lockSnap, upto>>

\* It finds none: too little in use, or a bad magic.
UsbNextNone ==
    /\ pc = "len"
    /\ ~ HasMessage(buf[ring], prod[ring], cons[ring])
    /\ bad' = (Inuse(prod[ring], cons[ring]) >= HdrLen)
    /\ snap' = prod[ring]
    /\ upto' = Len(log[ring])
    /\ pc' = "store"
    /\ UNCHANGED <<rings, msg_lock, past, granted, cmd, ring, len, bits, lockSnap>>

\* Faulty: the store takes prod_* as it is now.
StoreIndexFresh == prod[ring]

\* The value of cons_* = prod_*, of the flush and of a receive that found no
\* message.  It is the one read before: at the -O2 of fw/Makefile the load of
\* SPACE_INUSE_* is still in a register, as no call and no volatile access
\* stands between it and the store.  After a bad magic the printf stands there,
\* and prod_* is read again.  A build that loads prod_* twice is the faulty
\* StoreIndexFresh.
StoreIndex == IF bad THEN prod[ring] ELSE snap

UsbStore ==
    /\ pc = "store"
    /\ cons' = [cons EXCEPT ![ring] = StoreIndex]
    /\ taken' = [taken EXCEPT ![ring] = IF bad THEN Len(log[ring]) ELSE upto]
    /\ UsbEnd
    /\ UNCHANGED <<buf, prod, msg_lock, log, out, granted>>

\* usb_msg_reply(KS_REPLY_RAW): len words from the consumer index go out.
UsbReply ==
    /\ pc = "reply"
    /\ out' = [out EXCEPT ![ring] = Delivered(buf[ring], cons[ring], len)]
    /\ pc' = "advance"
    /\ UNCHANGED <<rings, msg_lock, log, taken, granted, local>>

\* Faulty: the message that was sent stays in the ring.
UsbAdvanceForgets ==
    /\ pc = "advance"
    /\ UsbEnd
    /\ UNCHANGED <<rings, msg_lock, past, granted>>

UsbAdvance ==
    /\ pc = "advance"
    /\ cons' = [cons EXCEPT ![ring] = Wrap(@ + len)]
    /\ taken' = [taken EXCEPT ![ring] = out[ring]]
    /\ UsbEnd
    /\ UNCHANGED <<buf, prod, msg_lock, log, out, granted>>

UsbFlush(r) ==
    /\ UsbBegin(<<"flush", r>>, "flush")
    /\ Allowed(r)
    /\ UNCHANGED <<rings, msg_lock, past, granted, len, snap, bad, bits, lockSnap, upto>>

UsbFlushRead ==
    /\ pc = "flush"
    /\ snap' = prod[ring]
    /\ upto' = Len(log[ring])
    /\ pc' = "store"
    /\ UNCHANGED <<rings, msg_lock, past, granted, cmd, ring, len, bad, bits, lockSnap>>

\* MSG_LOCK: the conflict check; msg_lock is read.
UsbLock(b) ==
    /\ pc = "idle"
    /\ b \in UsbLocks
    /\ LockFree("usb", "amiga", b)
    /\ pc' = "lock" /\ bits' = b /\ lockSnap' = msg_lock
    /\ UNCHANGED <<rings, msg_lock, past, granted, cmd, ring, len, snap, bad, upto>>

\* msg_lock |= lockbits is a load, an or and a store: the load may be that of
\* the check, or a second one.
UsbLockStore ==
    /\ pc = "lock"
    /\ \E m \in {lockSnap, msg_lock} : msg_lock' = m \cup bits
    /\ granted' = granted \cup bits
    /\ UsbEnd
    /\ UNCHANGED <<rings, past>>

UsbUnlock(b) ==
    /\ pc = "idle"
    /\ b \in UsbLocks
    /\ pc' = "unlock" /\ bits' = b /\ lockSnap' = msg_lock
    /\ UNCHANGED <<rings, msg_lock, past, granted, cmd, ring, len, snap, bad, upto>>

UsbUnlockStore ==
    /\ pc = "unlock"
    /\ msg_lock' = lockSnap \ bits
    /\ granted' = granted \ bits
    /\ UsbEnd
    /\ UNCHANGED <<rings, past>>

\* The steps of a command that has begun.
UsbStep ==
    \/ UsbSpace \/ UsbNoSpace \/ UsbCopy \/ UsbPublish
    \/ UsbNextLen \/ UsbNextNone \/ UsbReply \/ UsbAdvance
    \/ UsbFlushRead \/ UsbStore
    \/ UsbLockStore \/ UsbUnlockStore

Usb ==
    \/ UsbStep
    \/ \E r \in Rings, n \in Payloads : UsbSend(r, n)
    \/ \E r \in Rings : UsbRecv(r)
    \/ \E r \in Rings : UsbFlush(r)
    \/ \E b \in UsbLocks : UsbLock(b)
    \/ \E b \in UsbLocks : UsbUnlock(b)

Next == Amiga \/ Usb

Spec == Init /\ [][Next]_vars

\* The main loop runs on, whatever the interrupts do; the host program and
\* the Amiga program keep polling for messages.
Fairness ==
    /\ WF_vars(UsbStep)
    /\ SF_vars(UsbRecv("atou"))
    /\ WF_vars(AmigaRecv("utoa"))

FairSpec == Spec /\ Fairness
-----------------------------------------------------------------------------
(* Properties.                                                             *)

\* Every variable keeps to its range; the indices stay inside the rings.
TypeOK ==
    /\ buf \in [Rings -> [Index -> WordType]]
    /\ prod \in [Rings -> Index]
    /\ cons \in [Rings -> Index]
    /\ msg_lock \in SUBSET Bits
    /\ pc \in Pcs
    /\ cmd \in {"none", "send", "recv", "flush"}
    /\ ring \in Rings
    /\ len \in Nat
    /\ pc \in {"copy", "publish"} => len \in Index
    /\ pc \in {"reply", "advance"} => len \in Index
    /\ snap \in Index
    /\ bad \in BOOLEAN
    /\ bits \in SUBSET Bits
    /\ lockSnap \in SUBSET Bits
    /\ upto \in Nat
    /\ log \in [Rings -> Seq(Entry)]
    /\ taken \in [Rings -> Nat]
    /\ out \in [Rings -> Nat]
    /\ granted \in SUBSET Bits

\* What is in use of a ring, from index c up to p, is exactly the messages of
\* log lg after the t-th.
InuseExact(p, c, lg, t) ==
    /\ t <= Len(lg)
    /\ Inuse(p, c) = Total(lg) - Start(lg, t + 1)

\* They stand in the ring whole, back to back, oldest at the consumer index.
MessagesWhole(b, c, lg, t) ==
    \A id \in t + 1 .. Len(lg) :
        MessageAt(b, Wrap(c + (Start(lg, id) - Start(lg, t + 1))), id, lg[id].len)

\* The consumer index of a ring is always at a message boundary and every
\* message accepted and not taken is in the ring, untouched: no index update
\* of either side (atou_add, utoa_add, *_next_msg_len, receive, flush) loses,
\* overwrites or splits a message, whatever step the interrupt cuts into.
Framing ==
    \A r \in Rings :
        /\ InuseExact(prod[r], cons[r], log[r], taken[r])
        /\ MessagesWhole(buf[r], cons[r], log[r], taken[r])

\* From the length check of a USB receive to the move of the consumer index,
\* across the whole transmission of the reply, the oldest message and its
\* length stay what atou_next_msg_len saw.
ReplyWhole ==
    pc \in {"reply", "advance"} =>
        /\ taken[ring] < Len(log[ring])
        /\ len = log[ring][taken[ring] + 1].len
        /\ MessageAt(buf[ring], cons[ring], taken[ring] + 1, len)

\* A message leaves a ring by being delivered just before, or in a flush: the
\* consumer index reset of a receive that found nothing (the first lines of
\* *_next_msg_len) discards nothing, on either side.  That reset does to a ring
\* what a flush of the Amiga does, so a step that an Amiga receive could have
\* taken as well is not excused as a flush.
OnlyFlushDiscards ==
    [][\A r \in Rings : taken'[r] # taken[r] =>
            \/ taken'[r] = taken[r] + 1 /\ out'[r] = taken'[r]
            \/ AmigaFlush(r) /\ ~ AmigaRecvNone(r)
            \/ UsbStore /\ cmd = "flush" /\ ring = r]_vars

\* While the lock bit that denies a ring to the USB side is set, no USB
\* command moves an index of that ring or writes to it ("Bits !USB 0=atou
\* 1=utoa" at msg_lock).
LockExcludesUsb ==
    [][\A r \in Rings : Usb /\ <<"usb", r>> \in msg_lock =>
            buf'[r] = buf[r] /\ prod'[r] = prod[r] /\ cons'[r] = cons[r]]_vars

\* No ring is granted to both sides at once: a lock command that answered
\* KS_STATUS_OK keeps the other side's from being answered so, until unlocked.
NoDoubleOwner ==
    \A r \in Rings : ~ (<<"usb", r>> \in granted /\ <<"amiga", r>> \in granted)

\* The rings are two FIFO queues: see MsgQueue.  A message counts as delivered
\* when its reply goes out, before the USB side moves the consumer index.
Oldest(r) == IF pc = "advance" /\ ring = r THEN taken[r] + 1 ELSE taken[r]

Queue == INSTANCE MsgQueue WITH
    Buffers  <- Rings,
    queue    <- [r \in Rings |->
                    [i \in 1 .. Len(log[r]) - Oldest(r) |-> Oldest(r) + i]],
    accepted <- [r \in Rings |-> Len(log[r])]

\* Each ring delivers each message once, whole and in order, or flushes it.
QueueSpec == Queue!Spec

\* With both programs polling, every accepted message leaves its ring.
Drained ==
    \A r \in Rings : \A i \in 1 .. MaxSent : Len(log[r]) >= i ~> taken[r] >= i
-----------------------------------------------------------------------------
(* The inductive invariant behind Framing and ReplyWhole.                  *)

\* How the programs have to use the commands: the USB host keeps to its own
\* direction; the Amiga does so too, or locks the USB side out first while no
\* USB command runs, and the USB host never touches the Amiga's lock bits.
Disciplined ==
    /\ UsbCmds \subseteq UsbOwn
    /\ \/ AmigaCmds \subseteq AmigaOwn
       \/ QuietLock /\ UsbLocks \subseteq SUBSET ({"amiga"} \X Rings)

\* The log of a ring: messages are back to back and none is empty.
LogExact(lg) ==
    \A i \in 1 .. Len(lg) :
        /\ lg[i].len >= HdrLen
        /\ Start(lg, i + 1) = lg[i].at + lg[i].len
        /\ \A j \in 1 .. Len(lg) : i < j => Start(lg, i + 1) <= lg[j].at
        /\ Start(lg, i + 1) <= Total(lg)

Framed(b, p, c, lg, t) ==
    /\ LogExact(lg)
    /\ InuseExact(p, c, lg, t)
    /\ MessagesWhole(b, c, lg, t)

\* Where a USB command on a ring can be, and which command it is there.
SendPcs == {"space", "copy", "publish"}
RecvPcs == {"len", "reply", "advance"}
PcExact ==
    /\ pc \in SendPcs => cmd = "send" /\ ring = "utoa" /\ len >= HdrLen
    /\ pc \in RecvPcs => cmd = "recv" /\ ring = "atou"
    /\ pc = "flush" => cmd = "flush" /\ ring = "atou"
    /\ pc = "store" => cmd \in {"recv", "flush"} /\ ring = "atou"
    /\ ~ bad

\* While a USB command works on a ring the Amiga only works on its own end of
\* it; and when no command runs the lock says whether it may do more.
Excluded ==
    \/ AmigaCmds \subseteq AmigaOwn
    \/ /\ \A r \in Rings : <<"usb", r>> \in granted =>
            /\ <<"usb", r>> \in msg_lock
            /\ pc \in {"lock", "unlock"} =>
                    <<"usb", r>> \in lockSnap /\ <<"usb", r>> \notin bits
       /\ pc \notin {"idle", "lock", "unlock"} => <<"usb", ring>> \notin granted

\* What a USB send knows between its space check and the move of prod_utoa.
SendExact ==
    /\ pc \in {"copy", "publish"} =>
            snap = prod[ring] /\ len <= Avail(prod[ring], cons[ring])
    /\ pc = "publish" => MessageAt(buf[ring], snap, NextId(ring), len)

\* What a USB receive knows before it moves cons_atou.
RecvExact ==
    /\ ReplyWhole
    /\ pc = "advance" => out[ring] = taken[ring] + 1

\* What a flush, or a receive that found nothing, knows before it does.
StoreExact ==
    pc = "store" =>
        /\ taken[ring] <= upto
        /\ upto <= Len(log[ring])
        /\ cmd = "recv" => upto = taken[ring]
        /\ snap = Wrap(cons[ring] + (Start(log[ring], upto + 1)
                                        - Start(log[ring], taken[ring] + 1)))

IInv ==
    /\ TypeOK
    /\ \A r \in Rings : Framed(buf[r], prod[r], cons[r], log[r], taken[r])
    /\ PcExact
    /\ Excluded
    /\ SendExact
    /\ RecvExact
    /\ StoreExact
=============================================================================
