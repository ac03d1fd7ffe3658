-------------------------- MODULE MsgBuffers_proofs --------------------------
(***************************************************************************)
(* Proofs about MsgBuffers, for every ring size, header length, payload    *)
(* set, command set and bound.                                             *)
(***************************************************************************)
EXTENDS Framing_proofs, SequenceTheorems

USE RingAssumption

-----------------------------------------------------------------------------
(* Type correctness.                                                       *)

\* The parts of TypeOK a step mostly leaves alone together.
LEMMA LogType ==
    ASSUME TypeOK, NEW r \in Rings, NEW n \in Index
    PROVE  /\ Total(log[r]) \in Nat
           /\ NextId(r) \in Nat
           /\ Accept(r, n) \in [Rings -> Seq(Entry)]
<1>1. log \in [Rings -> Seq(Entry)]
  BY DEF TypeOK
<1>2. log[r] \in Seq(Entry) /\ Len(log[r]) \in Nat
  BY <1>1
<1>3. ASSUME log[r] # <<>>
      PROVE  /\ log[r][Len(log[r])].at \in Nat
             /\ log[r][Len(log[r])].len \in Nat
  <2>1. Len(log[r]) \in 1 .. Len(log[r])
    BY <1>2, <1>3
  <2>2. log[r][Len(log[r])] \in Entry
    BY <1>2, <2>1
  <2> QED BY <2>2 DEF Entry, Index
<1>4. Total(log[r]) \in Nat
  BY <1>3 DEF Total
<1>5. [at |-> Total(log[r]), len |-> n] \in Entry
  BY <1>4 DEF Entry
<1>6. Append(log[r], [at |-> Total(log[r]), len |-> n]) \in Seq(Entry)
  BY <1>2, <1>5
<1> QED BY <1>1, <1>2, <1>4, <1>6 DEF Accept, Extend, NextId

\* Every step of the Amiga keeps the variables in their ranges.
LEMMA AmigaType == TypeOK /\ Amiga => TypeOK'
<1> SUFFICES ASSUME TypeOK, Amiga PROVE TypeOK'
  OBVIOUS
<1> USE DEF rings, local, past
<1>1. ASSUME NEW r \in Rings, NEW n \in Payloads, AmigaSend(r, n) PROVE TypeOK'
  <2>1. RawLen(n) \in Nat /\ Avail(prod[r], cons[r]) \in Index
    BY BuffersAssumption, RawLenNat, InuseIndex DEF TypeOK
  <2>2. RawLen(n) \in Index /\ RawLen(n) \in 0 .. Size
    BY <1>1, <2>1 DEF AmigaSend, Index
  <2>3. Copy(buf[r], prod[r], NextId(r), RawLen(n)) \in [Index -> WordType]
    <3>1. buf[r] \in [Index -> WordType] /\ prod[r] \in Index /\ NextId(r) \in Nat
      BY <2>2, LogType DEF TypeOK
    <3> QED BY <2>2, <3>1, CopyType
  <2>4. Wrap(prod[r] + RawLen(n)) \in Index
    BY <2>2, WrapIndex DEF TypeOK
  <2>5. log' \in [Rings -> Seq(Entry)]
    BY <1>1, <2>2, LogType DEF AmigaSend
  <2>6. buf' \in [Rings -> [Index -> WordType]] /\ prod' \in [Rings -> Index]
    BY <1>1, <2>3, <2>4 DEF AmigaSend, TypeOK
  <2> QED BY <1>1, <2>5, <2>6 DEF AmigaSend, TypeOK
<1>2. ASSUME NEW r \in Rings, AmigaRecv(r) PROVE TypeOK'
  <2> DEFINE n == LenAt(buf[r], cons[r])
  <2>0. buf[r] \in [Index -> WordType] /\ cons[r] \in Index
    BY DEF TypeOK
  <2>1. n \in Index /\ n \in Nat /\ n \in 0 .. Size
    BY <2>0, LenAtType DEF Index
  <2>2. Delivered(buf[r], cons[r], n) \in Nat
    BY <2>0, <2>1, DeliveredType
  <2>3. Wrap(cons[r] + n) \in Index
    BY <2>0, <2>1, WrapIndex
  <2> HIDE DEF n
  <2>4. /\ out' = [out EXCEPT ![r] = Delivered(buf[r], cons[r], n)]
        /\ cons' = [cons EXCEPT ![r] = Wrap(@ + n)]
        /\ taken' = [taken EXCEPT ![r] = out'[r]]
    BY <1>2 DEF AmigaRecv, n
  <2>5. out' \in [Rings -> Nat] /\ taken' \in [Rings -> Nat]
    BY <2>2, <2>4 DEF TypeOK
  <2>6. cons' \in [Rings -> Index]
    BY <2>3, <2>4 DEF TypeOK
  <2> QED BY <1>2, <2>5, <2>6 DEF AmigaRecv, TypeOK
<1>3. ASSUME NEW r \in Rings, AmigaRecvNone(r) \/ AmigaFlush(r) PROVE TypeOK'
  <2>1. Len(log[r]) \in Nat /\ prod[r] \in Index
    BY DEF TypeOK
  <2>2. cons' \in [Rings -> Index] /\ taken' \in [Rings -> Nat]
    BY <1>3, <2>1 DEF AmigaRecvNone, AmigaFlush, TypeOK
  <2> QED BY <1>3, <2>2 DEF AmigaRecvNone, AmigaFlush, TypeOK
<1>4. ASSUME NEW b \in AmigaLocks, AmigaLock(b) \/ AmigaUnlock(b) PROVE TypeOK'
  <2>1. msg_lock' \in SUBSET Bits /\ granted' \in SUBSET Bits
    BY <1>4, BuffersAssumption DEF AmigaLock, AmigaUnlock, TypeOK
  <2> QED BY <1>4, <2>1 DEF AmigaLock, AmigaUnlock, TypeOK
<1> QED BY <1>1, <1>2, <1>3, <1>4 DEF Amiga

\* The locals of a USB command start out, and end, in their ranges.
LEMMA IdleType == TypeOK /\ UsbEnd => /\ pc' \in Pcs /\ pc' = "idle"
                                      /\ cmd' \in {"none", "send", "recv", "flush"}
                                      /\ ring' \in Rings /\ len' \in Nat
                                      /\ snap' \in Index /\ bad' \in BOOLEAN
                                      /\ bits' \in SUBSET Bits
                                      /\ lockSnap' \in SUBSET Bits
                                      /\ upto' \in Nat
<1>1. 0 \in Index
  BY DEF Index
<1> SUFFICES ASSUME UsbEnd
             PROVE  /\ pc' \in Pcs /\ pc' = "idle"
                    /\ cmd' \in {"none", "send", "recv", "flush"}
                    /\ ring' \in Rings /\ len' \in Nat
                    /\ snap' \in Index /\ bad' \in BOOLEAN
                    /\ bits' \in SUBSET Bits
                    /\ lockSnap' \in SUBSET Bits
                    /\ upto' \in Nat
  OBVIOUS
<1>2. bad' \in BOOLEAN
  BY DEF UsbEnd
<1>3. bits' \in SUBSET Bits /\ lockSnap' \in SUBSET Bits
  BY DEF UsbEnd
<1>4. pc' \in Pcs /\ pc' = "idle" /\ ring' \in Rings
      /\ cmd' \in {"none", "send", "recv", "flush"}
  BY DEF UsbEnd, Pcs, Rings
<1>5. len' \in Nat /\ snap' \in Index /\ upto' \in Nat
  BY <1>1 DEF UsbEnd
<1> QED BY <1>2, <1>3, <1>4, <1>5

\* Every step of a USB command that has begun keeps the variables in their
\* ranges.
LEMMA UsbStepType == TypeOK /\ UsbStep => TypeOK'
<1> SUFFICES ASSUME TypeOK, UsbStep PROVE TypeOK'
  OBVIOUS
<1> USE DEF rings, local, past
<1>0. /\ buf[ring] \in [Index -> WordType]
      /\ prod[ring] \in Index /\ cons[ring] \in Index
      /\ Len(log[ring]) \in Nat
      /\ ring \in Rings /\ len \in Nat /\ snap \in Index
  BY DEF TypeOK
<1>1. CASE UsbSpace
  <2>1. Avail(prod[ring], cons[ring]) \in Index
    BY <1>0, InuseIndex
  <2>2. len \in Index
    BY <1>0, <1>1, <2>1 DEF UsbSpace, Index
  <2> QED BY <1>0, <1>1, <2>2 DEF UsbSpace, TypeOK, Pcs
<1>2. CASE UsbNoSpace
  BY <1>2, IdleType DEF UsbNoSpace, TypeOK
<1>3. CASE UsbCopy
  <2>1. len \in Index
    BY <1>3 DEF UsbCopy, TypeOK
  <2>2. NextId(ring) \in Nat
    BY <1>0, <2>1, LogType
  <2>3. Copy(buf[ring], snap, NextId(ring), len) \in [Index -> WordType]
    BY <1>0, <2>1, <2>2, CopyType
  <2> QED BY <1>3, <2>1, <2>3 DEF UsbCopy, TypeOK, Pcs
<1>4. CASE UsbPublish
  <2>1. len \in Index /\ len \in 0 .. Size
    BY <1>4 DEF UsbPublish, TypeOK, Index
  <2>2. \A p \in {snap, prod[ring]} : Wrap(p + len) \in Index
    BY <1>0, <2>1, WrapIndex
  <2>3. prod' \in [Rings -> Index]
    BY <1>4, <2>2 DEF UsbPublish, TypeOK
  <2>4. log' \in [Rings -> Seq(Entry)]
    BY <1>0, <1>4, <2>1, LogType DEF UsbPublish
  <2> QED BY <1>4, <2>3, <2>4, IdleType DEF UsbPublish, TypeOK
<1>5. CASE UsbNextLen
  <2>1. LenAt(buf[ring], cons[ring]) \in Index
    BY <1>0, LenAtType
  <2> QED BY <1>5, <2>1 DEF UsbNextLen, TypeOK, Pcs, Index
<1>6. CASE UsbNextNone
  BY <1>0, <1>6 DEF UsbNextNone, TypeOK, Pcs
<1>7. CASE UsbReply
  <2>1. Delivered(buf[ring], cons[ring], len) \in Nat
    BY <1>0, DeliveredType
  <2> QED BY <1>7, <2>1 DEF UsbReply, TypeOK, Pcs
<1>8. CASE UsbAdvance
  <2>1. len \in 0 .. Size
    BY <1>8 DEF UsbAdvance, TypeOK, Index
  <2>2. Wrap(cons[ring] + len) \in Index
    BY <1>0, <2>1, WrapIndex
  <2>3. cons' \in [Rings -> Index] /\ taken' \in [Rings -> Nat]
    BY <1>0, <1>8, <2>2 DEF UsbAdvance, TypeOK
  <2> QED BY <1>8, <2>3, IdleType DEF UsbAdvance, TypeOK
<1>9. CASE UsbFlushRead
  BY <1>0, <1>9 DEF UsbFlushRead, TypeOK, Pcs
<1>10. CASE UsbStore
  <2>1. StoreIndex \in Index /\ upto \in Nat
    BY <1>0 DEF StoreIndex, TypeOK
  <2>2. cons' \in [Rings -> Index] /\ taken' \in [Rings -> Nat]
    BY <1>0, <1>10, <2>1 DEF UsbStore, TypeOK
  <2> QED BY <1>10, <2>2, IdleType DEF UsbStore, TypeOK
<1>11. CASE UsbLockStore \/ UsbUnlockStore
  <2>1. msg_lock' \in SUBSET Bits /\ granted' \in SUBSET Bits
    BY <1>11 DEF UsbLockStore, UsbUnlockStore, TypeOK
  <2> QED BY <1>11, <2>1, IdleType DEF UsbLockStore, UsbUnlockStore, TypeOK
<1> QED BY <1>1, <1>2, <1>3, <1>4, <1>5, <1>6, <1>7, <1>8, <1>9, <1>10, <1>11
        DEF UsbStep

\* So does the arrival of a USB command.
LEMMA UsbType == TypeOK /\ Usb => TypeOK'
<1> SUFFICES ASSUME TypeOK, Usb PROVE TypeOK'
  OBVIOUS
<1> USE DEF rings, local, past
<1>1. ASSUME NEW r \in Rings, NEW n \in Payloads, UsbSend(r, n) PROVE TypeOK'
  <2>1. RawLen(n) \in Nat
    BY BuffersAssumption, RawLenNat
  <2> QED BY <1>1, <2>1 DEF UsbSend, UsbBegin, TypeOK, Pcs
<1>2. ASSUME NEW r \in Rings, UsbRecv(r) \/ UsbFlush(r) PROVE TypeOK'
  BY <1>2 DEF UsbRecv, UsbFlush, UsbBegin, TypeOK, Pcs
<1>3. ASSUME NEW b \in UsbLocks, UsbLock(b) \/ UsbUnlock(b) PROVE TypeOK'
  BY <1>3, BuffersAssumption DEF UsbLock, UsbUnlock, TypeOK, Pcs
<1> QED BY <1>1, <1>2, <1>3, UsbStepType DEF Usb

\* Initially every variable is in its range.
LEMMA InitType == Init => TypeOK
<1> SUFFICES ASSUME Init PROVE TypeOK
  OBVIOUS
<1>1. Blank \in WordType
  BY DEF Blank, WordType, Index
<1>2. 0 \in Index
  BY DEF Index
<1>3. <<>> \in Seq(Entry)
  OBVIOUS
<1> QED BY <1>1, <1>2, <1>3 DEF Init, TypeOK, Pcs, Rings

\* Every variable of the message buffers stays in its range, the four ring
\* indices inside their rings in particular, whatever commands the two sides
\* issue and wherever the interrupt cuts into a USB command.
THEOREM TypeCorrect == Spec => []TypeOK
<1>1. TypeOK /\ [Next]_vars => TypeOK'
  <2>1. TypeOK /\ UNCHANGED vars => TypeOK'
    BY DEF vars, rings, local, past, TypeOK
  <2> QED BY <2>1, AmigaType, UsbType DEF Next
<1> QED BY InitType, <1>1, PTL DEF Spec

-----------------------------------------------------------------------------
(* Framing.                                                                *)

\* The types of what a ring consists of.
LEMMA RingTypes ==
    ASSUME TypeOK, NEW r \in Rings
    PROVE  /\ buf[r] \in [Index -> WordType]
           /\ prod[r] \in Index /\ cons[r] \in Index
           /\ log[r] \in Seq(Entry) /\ Len(log[r]) \in Nat
           /\ taken[r] \in Nat
BY DEF TypeOK

\* The Amiga reaches a ring a USB command works on only from its own end.
LEMMA OwnEnd ==
    ASSUME TypeOK, Excluded, NEW c \in Cmds, AmigaMayIssue(c),
           pc \notin {"idle", "lock", "unlock"}, c[2] = ring
    PROVE  c \in AmigaOwn
BY DEF Excluded, AmigaMayIssue

\* An accepted Amiga send keeps the invariant.
LEMMA AmigaSendInv ==
    ASSUME IInv, TypeOK', NEW r \in Rings, NEW n \in Payloads, AmigaSend(r, n)
    PROVE  IInv'
<1> USE DEF rings, local, past
<1> DEFINE k == RawLen(n)
<1>1. TypeOK /\ PcExact /\ Excluded /\ SendExact /\ RecvExact /\ StoreExact
      /\ \A q \in Rings : Framed(buf[q], prod[q], cons[q], log[q], taken[q])
  BY DEF IInv
<1>2. /\ buf[r] \in [Index -> WordType] /\ prod[r] \in Index /\ cons[r] \in Index
      /\ log[r] \in Seq(Entry) /\ Len(log[r]) \in Nat /\ taken[r] \in Nat
  BY <1>1, RingTypes
<1>3. k \in Nat /\ k >= HdrLen /\ k <= Avail(prod[r], cons[r]) /\ k \in Index
  <2>1. k \in Nat /\ k >= HdrLen
    BY BuffersAssumption, RawLenNat
  <2>2. k <= Avail(prod[r], cons[r]) /\ Avail(prod[r], cons[r]) \in Index
    BY <1>2, InuseIndex DEF AmigaSend
  <2> QED BY <2>1, <2>2 DEF Index
<1> HIDE DEF k
<1>4. /\ buf' = [buf EXCEPT ![r] = Copy(buf[r], prod[r], Len(log[r]) + 1, k)]
      /\ prod' = [prod EXCEPT ![r] = Wrap(prod[r] + k)]
      /\ log' = [log EXCEPT ![r] = Extend(log[r], k)]
      /\ UNCHANGED <<cons, msg_lock, pc, local, taken, out, granted>>
  BY DEF AmigaSend, Accept, NextId, k
<1>5. /\ buf'[r] = Copy(buf[r], prod[r], Len(log[r]) + 1, k)
      /\ prod'[r] = Wrap(prod[r] + k)
      /\ log'[r] = Extend(log[r], k)
      /\ cons'[r] = cons[r] /\ taken'[r] = taken[r]
      /\ \A q \in Rings : q # r =>
            buf'[q] = buf[q] /\ prod'[q] = prod[q] /\ log'[q] = log[q]
            /\ cons'[q] = cons[q] /\ taken'[q] = taken[q]
  BY <1>1, <1>4 DEF TypeOK
<1>6. Framed(buf'[r], prod'[r], cons'[r], log'[r], taken'[r])
  <2>1. Framed(buf'[r], prod[r], cons[r], log[r], taken[r])
    BY <1>1, <1>2, <1>3, <1>5, CopyFramed
  <2>2. MessageAt(buf'[r], prod[r], Len(log[r]) + 1, k)
    BY <1>2, <1>3, <1>5, CopyWhole
  <2> QED BY <1>2, <1>3, <1>5, <2>1, <2>2, PublishFramed
<1>7. \A q \in Rings : Framed(buf'[q], prod'[q], cons'[q], log'[q], taken'[q])
  BY <1>1, <1>5, <1>6
<1>8. PcExact' /\ Excluded'
  BY <1>1, <1>4 DEF PcExact, Excluded
<1>9. ring = r /\ pc \notin {"idle", "lock", "unlock"} => r = "atou"
  BY <1>1, OwnEnd DEF AmigaSend, Cmds, AmigaOwn
<1>10. SendExact'
  <2>1. CASE ring = r
    BY <1>1, <1>4, <1>9, <2>1 DEF SendExact, PcExact, SendPcs
  <2>2. CASE ring # r
    <3>1. ring \in Rings
      BY <1>1 DEF TypeOK
    <3> QED BY <1>1, <1>4, <1>5, <2>2, <3>1 DEF SendExact, NextId
  <2> QED BY <2>1, <2>2
<1>11. /\ Len(log'[r]) = Len(log[r]) + 1
       /\ \A i \in 1 .. Len(log[r]) : log'[r][i] = log[r][i]
       /\ \A i \in 1 .. Len(log[r]) + 1 : Start(log'[r], i) = Start(log[r], i)
  <2>1. /\ Len(Extend(log[r], k)) = Len(log[r]) + 1
        /\ \A i \in 1 .. Len(log[r]) : Extend(log[r], k)[i] = log[r][i]
        /\ \A i \in 1 .. Len(log[r]) + 1 :
                Start(Extend(log[r], k), i) = Start(log[r], i)
    BY <1>2, <1>3, ExtendLog
  <2>2. log'[r] = Extend(log[r], k)
    BY <1>5
  <2> QED BY <2>1, <2>2
<1>12. RecvExact'
  <2> SUFFICES ASSUME pc \in {"reply", "advance"}
               PROVE  /\ taken'[ring] < Len(log'[ring])
                      /\ len = log'[ring][taken'[ring] + 1].len
                      /\ MessageAt(buf'[ring], cons'[ring], taken'[ring] + 1, len)
                      /\ pc = "advance" => out[ring] = taken'[ring] + 1
    BY <1>4 DEF RecvExact, ReplyWhole
  <2>0. ring \in Rings
    BY <1>1 DEF TypeOK
  <2>1. /\ taken[ring] < Len(log[ring])
        /\ len = log[ring][taken[ring] + 1].len
        /\ MessageAt(buf[ring], cons[ring], taken[ring] + 1, len)
        /\ pc = "advance" => out[ring] = taken[ring] + 1
    BY <1>1 DEF RecvExact, ReplyWhole
  <2>2. CASE ring # r
    BY <1>5, <2>0, <2>1, <2>2
  <2>3. CASE ring = r
    <3>1. taken'[r] < Len(log'[r]) /\ log'[r][taken'[r] + 1] = log[r][taken[r] + 1]
      BY SMTT(20), <1>2, <1>5, <1>11, <2>1, <2>3
    <3>2. MessageAt(buf'[r], cons'[r], taken'[r] + 1, log'[r][taken'[r] + 1].len)
      <4>1. /\ buf'[r] \in [Index -> WordType] /\ prod'[r] \in Index
            /\ cons'[r] \in Index /\ log'[r] \in Seq(Entry) /\ taken'[r] \in Nat
        BY DEF TypeOK
      <4> QED BY <1>6, <3>1, <4>1, HeadFound
    <3> QED BY <1>5, <2>1, <2>3, <3>1, <3>2
  <2> QED BY <2>2, <2>3
<1>13. StoreExact'
  <2> SUFFICES ASSUME pc = "store"
               PROVE  /\ taken'[ring] <= upto
                      /\ upto <= Len(log'[ring])
                      /\ cmd = "recv" => upto = taken'[ring]
                      /\ snap = Wrap(cons'[ring] + (Start(log'[ring], upto + 1)
                                        - Start(log'[ring], taken'[ring] + 1)))
    BY <1>4 DEF StoreExact
  <2>0. ring \in Rings /\ upto \in Nat
    BY <1>1 DEF TypeOK
  <2>1. /\ taken[ring] <= upto
        /\ upto <= Len(log[ring])
        /\ cmd = "recv" => upto = taken[ring]
        /\ snap = Wrap(cons[ring] + (Start(log[ring], upto + 1)
                                        - Start(log[ring], taken[ring] + 1)))
    BY <1>1 DEF StoreExact
  <2>2. CASE ring # r
    BY <1>5, <2>0, <2>1, <2>2
  <2>3. CASE ring = r
    <3>1. upto + 1 \in 1 .. Len(log[r]) + 1 /\ taken[r] + 1 \in 1 .. Len(log[r]) + 1
      BY <1>2, <2>0, <2>1, <2>3
    <3> QED BY <1>2, <1>5, <1>11, <2>0, <2>1, <2>3, <3>1
  <2> QED BY <2>2, <2>3
<1> QED BY <1>7, <1>8, <1>10, <1>12, <1>13 DEF IInv

\* The Amiga takes messages, up to the u-th, from a ring it may take them from.
LEMMA AmigaTakeInv ==
    ASSUME IInv, TypeOK', NEW r \in Rings, NEW op \in {"recv", "flush"},
           AmigaMayIssue(<<op, r>>),
           NEW u \in Nat, taken[r] <= u, u <= Len(log[r]),
           cons' = [cons EXCEPT ![r] =
               Wrap(cons[r] + (Start(log[r], u + 1) - Start(log[r], taken[r] + 1)))],
           taken' = [taken EXCEPT ![r] = u],
           \A q \in Rings : q # r => out'[q] = out[q],
           UNCHANGED <<buf, prod, msg_lock, pc, local, log, granted>>
    PROVE  IInv'
<1> USE DEF local
<1>1. TypeOK /\ PcExact /\ Excluded /\ SendExact /\ RecvExact /\ StoreExact
      /\ \A q \in Rings : Framed(buf[q], prod[q], cons[q], log[q], taken[q])
  BY DEF IInv
<1>2. /\ buf[r] \in [Index -> WordType] /\ prod[r] \in Index /\ cons[r] \in Index
      /\ log[r] \in Seq(Entry) /\ Len(log[r]) \in Nat /\ taken[r] \in Nat
  BY <1>1, RingTypes
<1> DEFINE d == Start(log[r], u + 1) - Start(log[r], taken[r] + 1)
<1>3. d \in 0 .. Inuse(prod[r], cons[r])
      /\ Framed(buf[r], prod[r], Wrap(cons[r] + d), log[r], u)
  BY <1>1, <1>2, TakeFramed
<1>4. /\ cons'[r] = Wrap(cons[r] + d) /\ taken'[r] = u
      /\ \A q \in Rings : q # r => cons'[q] = cons[q] /\ taken'[q] = taken[q]
  BY <1>1 DEF TypeOK
<1> HIDE DEF d
<1>5. \A q \in Rings : Framed(buf'[q], prod'[q], cons'[q], log'[q], taken'[q])
  BY <1>1, <1>3, <1>4
<1>6. PcExact' /\ Excluded'
  BY <1>1 DEF PcExact, Excluded
<1>7. ring \in Rings
  BY <1>1 DEF TypeOK
<1>8. CASE ring # r
  <2>1. SendExact' /\ RecvExact' /\ StoreExact'
    BY <1>1, <1>4, <1>7, <1>8 DEF SendExact, RecvExact, StoreExact, ReplyWhole, NextId
  <2> QED BY <1>5, <1>6, <2>1 DEF IInv
<1>9. CASE ring = r
  <2>1. pc \notin {"idle", "lock", "unlock"} => r = "utoa"
    BY <1>1, <1>9, OwnEnd DEF Cmds, AmigaOwn
  <2>2. RecvExact' /\ StoreExact'
    BY <1>1, <1>9, <2>1 DEF PcExact, RecvPcs, RecvExact, StoreExact, ReplyWhole
  <2>0. Inuse(prod[r], cons[r]) \in Nat /\ d \in Nat /\ d <= Inuse(prod[r], cons[r])
    <3>1. Inuse(prod[r], cons[r]) \in Nat
      <4>1. Inuse(prod[r], cons[r]) \in Index
        BY <1>2, InuseIndex
      <4> QED BY <4>1 DEF Index
    <3> QED BY <1>3, <3>1
  <2>3. Inuse(prod[r], cons'[r]) = Inuse(prod[r], cons[r]) - d
    BY <1>2, <1>4, <2>0, InuseTake
  <2>4. Avail(prod[r], cons[r]) <= Avail(prod[r], cons'[r])
    BY <2>0, <2>3 DEF Avail
  <2>5. len \in Nat /\ Avail(prod[r], cons[r]) \in Index /\ Avail(prod[r], cons'[r]) \in Int
    BY <1>1, <1>2, <2>0, <2>3, InuseIndex DEF TypeOK, Avail
  <2>6. ASSUME pc \in {"copy", "publish"} PROVE len <= Avail(prod[r], cons'[r])
    <3>1. len <= Avail(prod[r], cons[r])
      BY <1>1, <1>9, <2>6 DEF SendExact
    <3> QED BY <2>4, <2>5, <3>1 DEF Index
  <2>7. SendExact'
    BY <1>1, <1>9, <2>6 DEF SendExact, NextId
  <2> QED BY <1>5, <1>6, <2>2, <2>7 DEF IInv
<1> QED BY <1>8, <1>9

\* The Amiga receives the oldest message.
LEMMA AmigaRecvInv ==
    ASSUME IInv, TypeOK', NEW r \in Rings, AmigaRecv(r)
    PROVE  IInv'
<1>1. TypeOK /\ Framed(buf[r], prod[r], cons[r], log[r], taken[r])
  BY DEF IInv
<1>2. /\ buf[r] \in [Index -> WordType] /\ prod[r] \in Index /\ cons[r] \in Index
      /\ log[r] \in Seq(Entry) /\ Len(log[r]) \in Nat /\ taken[r] \in Nat
  BY <1>1, RingTypes
<1> DEFINE u == taken[r] + 1
           n == log[r][taken[r] + 1].len
<1>3. HasMessage(buf[r], prod[r], cons[r])
  BY DEF AmigaRecv
<1>4. /\ u <= Len(log[r]) /\ u \in Nat /\ taken[r] <= u
      /\ LenAt(buf[r], cons[r]) = n
      /\ Delivered(buf[r], cons[r], n) = u
      /\ Start(log[r], taken[r] + 2) - Start(log[r], taken[r] + 1) = n
  BY <1>1, <1>2, <1>3, HeadFound
<1> HIDE DEF n
<1>5. /\ out' = [out EXCEPT ![r] = u]
      /\ cons' = [cons EXCEPT ![r] = Wrap(cons[r] + n)]
      /\ taken' = [taken EXCEPT ![r] = out'[r]]
      /\ UNCHANGED <<buf, prod, msg_lock, pc, local, log, granted>>
      /\ AmigaMayIssue(<<"recv", r>>)
  BY <1>4 DEF AmigaRecv
<1>6. out'[r] = u /\ \A q \in Rings : q # r => out'[q] = out[q]
  BY <1>1, <1>5 DEF TypeOK
<1>7. n = Start(log[r], u + 1) - Start(log[r], taken[r] + 1)
  BY <1>2, <1>4
<1>8. /\ cons' = [cons EXCEPT ![r] =
               Wrap(cons[r] + (Start(log[r], u + 1) - Start(log[r], taken[r] + 1)))]
      /\ taken' = [taken EXCEPT ![r] = u]
  BY <1>5, <1>6, <1>7
<1> HIDE DEF u
<1> QED BY <1>4, <1>5, <1>6, <1>8, AmigaTakeInv

\* A consumer index set to the producer index is one moved past all messages.
LEMMA DropAll ==
    ASSUME IInv, NEW r \in Rings
    PROVE  /\ Len(log[r]) \in Nat /\ taken[r] <= Len(log[r])
           /\ prod[r] = Wrap(cons[r] + (Start(log[r], Len(log[r]) + 1)
                                            - Start(log[r], taken[r] + 1)))
<1>1. TypeOK /\ Framed(buf[r], prod[r], cons[r], log[r], taken[r])
  BY DEF IInv
<1>2. /\ prod[r] \in Index /\ cons[r] \in Index
      /\ Len(log[r]) \in Nat
  BY <1>1, RingTypes
<1>3. /\ taken[r] <= Len(log[r])
      /\ Inuse(prod[r], cons[r]) = Total(log[r]) - Start(log[r], taken[r] + 1)
  BY <1>1 DEF Framed, InuseExact
<1>4. Start(log[r], Len(log[r]) + 1) = Total(log[r])
  BY <1>2 DEF Start
<1> QED BY <1>2, <1>3, <1>4, ProdFromCons

\* The Amiga empties a ring.
LEMMA AmigaDropInv ==
    ASSUME IInv, TypeOK', NEW r \in Rings, AmigaRecvNone(r) \/ AmigaFlush(r)
    PROVE  IInv'
<1>1. \E op \in {"recv", "flush"} : AmigaMayIssue(<<op, r>>)
  BY DEF AmigaRecvNone, AmigaFlush
<1>2. /\ cons' = [cons EXCEPT ![r] = prod[r]]
      /\ taken' = [taken EXCEPT ![r] = Len(log[r])]
      /\ UNCHANGED <<buf, prod, msg_lock, pc, local, log, out, granted>>
  BY DEF AmigaRecvNone, AmigaFlush
<1>3. /\ Len(log[r]) \in Nat /\ taken[r] <= Len(log[r])
      /\ prod[r] = Wrap(cons[r] + (Start(log[r], Len(log[r]) + 1)
                                       - Start(log[r], taken[r] + 1)))
  BY DropAll
<1>4. Len(log[r]) <= Len(log[r])
  BY <1>3
<1>5. \A q \in Rings : q # r => out'[q] = out[q]
  BY <1>2
<1>6. cons' = [cons EXCEPT ![r] =
               Wrap(cons[r] + (Start(log[r], Len(log[r]) + 1)
                                    - Start(log[r], taken[r] + 1)))]
  BY <1>2, <1>3
<1> QED BY <1>1, <1>2, <1>3, <1>4, <1>5, <1>6, AmigaTakeInv

\* The Amiga sets or clears lock bits.
LEMMA AmigaLockInv ==
    ASSUME Disciplined, IInv, TypeOK', NEW b \in AmigaLocks,
           AmigaLock(b) \/ AmigaUnlock(b)
    PROVE  IInv'
<1> USE DEF rings, local, past
<1>1. TypeOK /\ PcExact /\ Excluded /\ SendExact /\ RecvExact /\ StoreExact
      /\ \A q \in Rings : Framed(buf[q], prod[q], cons[q], log[q], taken[q])
  BY DEF IInv
<1>2. UNCHANGED <<rings, pc, local, past>>
  BY DEF AmigaLock, AmigaUnlock
<1>3. PcExact' /\ SendExact' /\ RecvExact' /\ StoreExact'
      /\ \A q \in Rings : Framed(buf'[q], prod'[q], cons'[q], log'[q], taken'[q])
  BY <1>1, <1>2 DEF PcExact, SendExact, RecvExact, StoreExact, ReplyWhole, NextId
<1>4. CASE AmigaCmds \subseteq AmigaOwn
  BY <1>3, <1>4 DEF IInv, Excluded
<1>5. CASE ~ (AmigaCmds \subseteq AmigaOwn) /\ AmigaLock(b)
  <2>1. QuietLock /\ pc = "idle"
    BY <1>5 DEF Disciplined, AmigaLock
  <2>2. msg_lock' = msg_lock \cup b /\ granted' = granted \cup b
    BY <1>5 DEF AmigaLock
  <2>3. Excluded'
    BY <1>1, <1>2, <1>5, <2>1, <2>2 DEF Excluded
  <2> QED BY <1>3, <2>3 DEF IInv
<1>6. CASE ~ (AmigaCmds \subseteq AmigaOwn) /\ AmigaUnlock(b)
  <2>1. msg_lock' = msg_lock \ b /\ granted' = granted \ b
    BY <1>6 DEF AmigaUnlock
  <2>2. Excluded'
    BY <1>1, <1>2, <1>6, <2>1 DEF Excluded
  <2> QED BY <1>3, <2>2 DEF IInv
<1> QED BY <1>4, <1>5, <1>6

\* A USB command ends: what is left to show is what it did to the rings.
LEMMA UsbEndInv ==
    ASSUME IInv, TypeOK', UsbEnd, UNCHANGED <<msg_lock, granted>>,
           \A q \in Rings : Framed(buf'[q], prod'[q], cons'[q], log'[q], taken'[q])
    PROVE  IInv'
<1>1. pc' = "idle" /\ ~ bad'
  BY DEF UsbEnd
<1>2. PcExact' /\ SendExact' /\ RecvExact' /\ StoreExact'
  BY <1>1 DEF PcExact, SendPcs, RecvPcs, SendExact, RecvExact, StoreExact, ReplyWhole
<1>3. Excluded'
  BY <1>1 DEF IInv, Excluded
<1> QED BY <1>2, <1>3 DEF IInv

\* A USB command on a ring begins.
LEMMA UsbBeginInv ==
    ASSUME Disciplined, IInv, TypeOK', NEW r \in Rings,
           \/ \E n \in Payloads : UsbSend(r, n)
           \/ UsbRecv(r)
           \/ UsbFlush(r)
    PROVE  IInv'
<1> USE DEF rings, past
<1>1. TypeOK /\ PcExact /\ Excluded
      /\ \A q \in Rings : Framed(buf[q], prod[q], cons[q], log[q], taken[q])
  BY DEF IInv
<1>2. /\ UNCHANGED <<rings, msg_lock, past, granted, snap, bad, bits, lockSnap, upto>>
      /\ ring' = r /\ Allowed(r)
  BY DEF UsbSend, UsbRecv, UsbFlush, UsbBegin
<1>3. pc' \in {"space", "len", "flush"}
  BY DEF UsbSend, UsbRecv, UsbFlush, UsbBegin
<1>4. \A q \in Rings : Framed(buf'[q], prod'[q], cons'[q], log'[q], taken'[q])
  BY <1>1, <1>2
<1>5. SendExact' /\ RecvExact' /\ StoreExact'
  BY <1>3 DEF SendExact, RecvExact, ReplyWhole, StoreExact
<1>6. Excluded'
  <2>1. <<"usb", r>> \notin granted \/ AmigaCmds \subseteq AmigaOwn
    BY <1>1, <1>2 DEF Excluded, Allowed
  <2> QED BY <1>1, <1>2, <1>3, <2>1 DEF Excluded
<1>7. PcExact'
  <2>1. ASSUME NEW n \in Payloads, UsbSend(r, n) PROVE PcExact'
    <3>1. RawLen(n) >= HdrLen
      BY BuffersAssumption, RawLenNat
    <3>2. <<"send", r>> \in UsbOwn
      BY <2>1 DEF Disciplined, UsbSend, UsbBegin
    <3>3. r = "utoa"
      BY <3>2 DEF UsbOwn
    <3> QED BY <1>1, <1>2, <2>1, <3>1, <3>3
            DEF PcExact, UsbSend, UsbBegin, SendPcs, RecvPcs
  <2>2. ASSUME UsbRecv(r) PROVE PcExact'
    <3>1. <<"recv", r>> \in UsbOwn
      BY <2>2 DEF Disciplined, UsbRecv, UsbBegin
    <3>2. r = "atou"
      BY <3>1 DEF UsbOwn
    <3> QED BY <1>1, <1>2, <2>2, <3>2 DEF PcExact, UsbRecv, UsbBegin, SendPcs, RecvPcs
  <2>3. ASSUME UsbFlush(r) PROVE PcExact'
    <3>1. <<"flush", r>> \in UsbOwn
      BY <2>3 DEF Disciplined, UsbFlush, UsbBegin
    <3>2. r = "atou"
      BY <3>1 DEF UsbOwn
    <3> QED BY <1>1, <1>2, <2>3, <3>2 DEF PcExact, UsbFlush, UsbBegin, SendPcs, RecvPcs
  <2> QED BY <2>1, <2>2, <2>3
<1> QED BY <1>4, <1>5, <1>6, <1>7 DEF IInv

\* A USB lock command begins.
LEMMA UsbLockInv ==
    ASSUME Disciplined, IInv, TypeOK', NEW b \in UsbLocks, UsbLock(b) \/ UsbUnlock(b)
    PROVE  IInv'
<1> USE DEF rings, past
<1>1. TypeOK /\ PcExact /\ Excluded
      /\ \A q \in Rings : Framed(buf[q], prod[q], cons[q], log[q], taken[q])
  BY DEF IInv
<1>2. /\ UNCHANGED <<rings, msg_lock, past, granted, cmd, ring, len, snap, bad, upto>>
      /\ bits' = b /\ lockSnap' = msg_lock /\ pc = "idle"
      /\ pc' \in {"lock", "unlock"}
  BY DEF UsbLock, UsbUnlock
<1>3. \A q \in Rings : Framed(buf'[q], prod'[q], cons'[q], log'[q], taken'[q])
  BY <1>1, <1>2
<1>4. PcExact' /\ SendExact' /\ RecvExact' /\ StoreExact'
  BY <1>1, <1>2 DEF PcExact, SendPcs, RecvPcs, SendExact, RecvExact, StoreExact, ReplyWhole
<1>5. Excluded'
  <2>1. CASE AmigaCmds \subseteq AmigaOwn
    BY <2>1 DEF Excluded
  <2>2. CASE ~ (AmigaCmds \subseteq AmigaOwn)
    <3>1. b \subseteq {"amiga"} \X Rings
      BY <2>2 DEF Disciplined
    <3>2. \A r \in Rings : <<"usb", r>> \notin b
      BY <3>1
    <3> QED BY <1>1, <1>2, <2>2, <3>2 DEF Excluded
  <2> QED BY <2>1, <2>2
<1> QED BY <1>3, <1>4, <1>5 DEF IInv

\* A USB lock command stores msg_lock.
LEMMA UsbLockStoreInv ==
    ASSUME IInv, TypeOK', UsbLockStore \/ UsbUnlockStore
    PROVE  IInv'
<1> USE DEF rings, past
<1>1. Excluded /\ \A q \in Rings : Framed(buf[q], prod[q], cons[q], log[q], taken[q])
  BY DEF IInv
<1>2. UNCHANGED <<rings, past>> /\ pc' = "idle" /\ ~ bad'
  BY DEF UsbLockStore, UsbUnlockStore, UsbEnd
<1>3. \A q \in Rings : Framed(buf'[q], prod'[q], cons'[q], log'[q], taken'[q])
  BY <1>1, <1>2
<1>4. PcExact' /\ SendExact' /\ RecvExact' /\ StoreExact'
  BY <1>2 DEF PcExact, SendPcs, RecvPcs, SendExact, RecvExact, StoreExact, ReplyWhole
<1>5. ASSUME ~ (AmigaCmds \subseteq AmigaOwn), NEW r \in Rings, <<"usb", r>> \in granted'
      PROVE  <<"usb", r>> \in msg_lock'
  <2>1. CASE UsbLockStore
    BY <1>1, <1>5, <2>1 DEF UsbLockStore, Excluded
  <2>2. CASE UsbUnlockStore
    BY <1>1, <1>5, <2>2 DEF UsbUnlockStore, Excluded
  <2> QED BY <2>1, <2>2
<1>6. Excluded'
  BY <1>2, <1>5 DEF Excluded
<1> QED BY <1>3, <1>4, <1>6 DEF IInv

\* The space check of a USB send, and the copy of the message into the free
\* words it found.
LEMMA UsbSendInv ==
    ASSUME IInv, TypeOK', UsbSpace \/ UsbNoSpace \/ UsbCopy \/ UsbPublish
    PROVE  IInv'
<1> USE DEF rings, local, past
<1>1. TypeOK /\ PcExact /\ Excluded /\ SendExact
      /\ \A q \in Rings : Framed(buf[q], prod[q], cons[q], log[q], taken[q])
  BY DEF IInv
<1>2. /\ ring \in Rings /\ len \in Nat /\ ring = "utoa" /\ len >= HdrLen
  BY <1>1 DEF TypeOK, UsbSpace, UsbNoSpace, UsbCopy, UsbPublish, PcExact, SendPcs
<1>3. /\ buf[ring] \in [Index -> WordType] /\ prod[ring] \in Index /\ cons[ring] \in Index
      /\ log[ring] \in Seq(Entry) /\ Len(log[ring]) \in Nat /\ taken[ring] \in Nat
      /\ Framed(buf[ring], prod[ring], cons[ring], log[ring], taken[ring])
  BY <1>1, <1>2, RingTypes
<1>4. CASE UsbSpace
  <2>1. /\ UNCHANGED <<rings, msg_lock, past, granted, cmd, ring, len, bad, bits,
                       lockSnap, upto>>
        /\ pc = "space" /\ pc' = "copy" /\ snap' = prod[ring]
        /\ len <= Avail(prod[ring], cons[ring])
    BY <1>4 DEF UsbSpace
  <2>2. \A q \in Rings : Framed(buf'[q], prod'[q], cons'[q], log'[q], taken'[q])
    BY <1>1, <2>1
  <2>3. PcExact' /\ Excluded'
    BY <1>1, <2>1 DEF PcExact, SendPcs, RecvPcs, Excluded
  <2>4. SendExact' /\ RecvExact' /\ StoreExact'
    BY <2>1 DEF SendExact, RecvExact, ReplyWhole, StoreExact
  <2> QED BY <2>2, <2>3, <2>4 DEF IInv
<1>5. CASE UsbNoSpace
  <2>1. UsbEnd /\ UNCHANGED <<rings, msg_lock, past, granted>>
    BY <1>5 DEF UsbNoSpace
  <2>2. \A q \in Rings : Framed(buf'[q], prod'[q], cons'[q], log'[q], taken'[q])
    BY <1>1, <2>1
  <2> QED BY <2>1, <2>2, UsbEndInv
<1>6. CASE UsbCopy
  <2>1. /\ pc = "copy" /\ pc' = "publish" /\ snap = prod[ring]
        /\ buf' = [buf EXCEPT ![ring] = Copy(buf[ring], prod[ring], NextId(ring), len)]
        /\ len <= Avail(prod[ring], cons[ring])
        /\ UNCHANGED <<prod, cons, msg_lock, past, granted, local>>
    BY <1>1, <1>6 DEF UsbCopy, SendExact
  <2>2. /\ buf'[ring] = Copy(buf[ring], prod[ring], NextId(ring), len)
        /\ \A q \in Rings : q # ring => buf'[q] = buf[q]
    BY <1>1, <1>2, <2>1 DEF TypeOK
  <2>3. Framed(buf'[ring], prod[ring], cons[ring], log[ring], taken[ring])
    BY <1>2, <1>3, <2>1, <2>2, CopyFramed
  <2>4. \A q \in Rings : Framed(buf'[q], prod'[q], cons'[q], log'[q], taken'[q])
    BY <1>1, <2>1, <2>2, <2>3
  <2>5. len \in Index
    BY <1>1, <2>1 DEF TypeOK
  <2>6. MessageAt(buf'[ring], prod[ring], NextId(ring), len)
    BY <1>3, <2>2, <2>5, CopyWhole
  <2>7. SendExact'
    BY <2>1, <2>6 DEF SendExact, NextId
  <2>8. PcExact' /\ Excluded'
    BY <1>1, <2>1 DEF PcExact, SendPcs, RecvPcs, Excluded
  <2>9. RecvExact' /\ StoreExact'
    BY <2>1 DEF RecvExact, ReplyWhole, StoreExact
  <2> QED BY <2>4, <2>7, <2>8, <2>9 DEF IInv
<1>7. CASE UsbPublish
  <2>1. /\ pc = "publish" /\ snap = prod[ring]
        /\ len <= Avail(prod[ring], cons[ring])
        /\ MessageAt(buf[ring], prod[ring], Len(log[ring]) + 1, len)
    BY <1>1, <1>7 DEF UsbPublish, SendExact, NextId
  <2>2. /\ prod' = [prod EXCEPT ![ring] = Wrap(prod[ring] + len)]
        /\ log' = [log EXCEPT ![ring] = Extend(log[ring], len)]
        /\ UsbEnd
        /\ UNCHANGED <<buf, cons, msg_lock, taken, out, granted>>
    BY <1>7, <2>1 DEF UsbPublish, Accept
  <2>3. /\ prod'[ring] = Wrap(prod[ring] + len)
        /\ log'[ring] = Extend(log[ring], len)
        /\ \A q \in Rings : q # ring => prod'[q] = prod[q] /\ log'[q] = log[q]
    BY <1>1, <1>2, <2>2 DEF TypeOK
  <2>4. len \in Index
    BY <1>1, <2>1 DEF TypeOK
  <2>5. Framed(buf[ring], prod'[ring], cons[ring], log'[ring], taken[ring])
    <3>1. Framed(buf[ring], Wrap(prod[ring] + len), cons[ring],
                 Extend(log[ring], len), taken[ring])
      BY <1>2, <1>3, <2>1, <2>4, PublishFramed
    <3> QED BY <2>3, <3>1
  <2>6. \A q \in Rings : Framed(buf'[q], prod'[q], cons'[q], log'[q], taken'[q])
    BY <1>1, <2>2, <2>3, <2>5
  <2> QED BY <2>2, <2>6, UsbEndInv
<1> QED BY <1>4, <1>5, <1>6, <1>7

\* A USB receive looks for a message and sends it.
LEMMA UsbRecvInv ==
    ASSUME IInv, TypeOK', UsbNextLen \/ UsbNextNone \/ UsbReply
    PROVE  IInv'
<1> USE DEF rings, local, past
<1>1. TypeOK /\ PcExact /\ Excluded /\ RecvExact
      /\ \A q \in Rings : Framed(buf[q], prod[q], cons[q], log[q], taken[q])
  BY DEF IInv
<1>2. /\ ring \in Rings /\ ring = "atou" /\ cmd = "recv" /\ ~ bad
  BY <1>1 DEF TypeOK, UsbNextLen, UsbNextNone, UsbReply, PcExact, RecvPcs
<1>3. /\ buf[ring] \in [Index -> WordType] /\ prod[ring] \in Index /\ cons[ring] \in Index
      /\ log[ring] \in Seq(Entry) /\ Len(log[ring]) \in Nat /\ taken[ring] \in Nat
      /\ Framed(buf[ring], prod[ring], cons[ring], log[ring], taken[ring])
  BY <1>1, <1>2, RingTypes
<1>4. CASE UsbNextLen
  <2>1. /\ HasMessage(buf[ring], prod[ring], cons[ring])
        /\ len' = LenAt(buf[ring], cons[ring])
        /\ pc = "len" /\ pc' = "reply"
        /\ UNCHANGED <<rings, msg_lock, past, granted, cmd, ring, snap, bad, bits,
                       lockSnap, upto>>
    BY <1>4 DEF UsbNextLen
  <2>2. /\ taken[ring] < Len(log[ring])
        /\ len' = log[ring][taken[ring] + 1].len
        /\ MessageAt(buf[ring], cons[ring], taken[ring] + 1, len')
    BY <1>3, <2>1, HeadFound
  <2>3. RecvExact'
    BY <2>1, <2>2 DEF RecvExact, ReplyWhole
  <2>4. \A q \in Rings : Framed(buf'[q], prod'[q], cons'[q], log'[q], taken'[q])
    BY <1>1, <2>1
  <2>5. PcExact' /\ Excluded'
    BY <1>1, <2>1 DEF PcExact, SendPcs, RecvPcs, Excluded
  <2>6. SendExact' /\ StoreExact'
    BY <2>1 DEF SendExact, StoreExact
  <2> QED BY <2>3, <2>4, <2>5, <2>6 DEF IInv
<1>5. CASE UsbNextNone
  <2>1. /\ ~ HasMessage(buf[ring], prod[ring], cons[ring])
        /\ bad' = (Inuse(prod[ring], cons[ring]) >= HdrLen)
        /\ snap' = prod[ring] /\ upto' = Len(log[ring])
        /\ pc = "len" /\ pc' = "store"
        /\ UNCHANGED <<rings, msg_lock, past, granted, cmd, ring, len, bits, lockSnap>>
    BY <1>5 DEF UsbNextNone
  <2>2. Inuse(prod[ring], cons[ring]) = 0 /\ taken[ring] = Len(log[ring])
    BY <1>3, <2>1, HeadFound
  <2>3. ~ bad'
    <3>1. ~ (Inuse(prod[ring], cons[ring]) >= HdrLen)
      BY <2>2
    <3> QED BY <2>1, <3>1
  <2>4. PcExact' /\ Excluded'
    BY <1>1, <1>2, <2>1, <2>3 DEF PcExact, SendPcs, RecvPcs, Excluded
  <2>5. prod[ring] = Wrap(cons[ring] + (Start(log[ring], Len(log[ring]) + 1)
                                            - Start(log[ring], taken[ring] + 1)))
    BY <1>2, DropAll
  <2>6. StoreExact'
    BY <1>2, <1>3, <2>1, <2>2, <2>5 DEF StoreExact
  <2>7. \A q \in Rings : Framed(buf'[q], prod'[q], cons'[q], log'[q], taken'[q])
    BY <1>1, <2>1
  <2>8. SendExact' /\ RecvExact'
    BY <2>1 DEF SendExact, RecvExact, ReplyWhole
  <2> QED BY <2>4, <2>6, <2>7, <2>8 DEF IInv
<1>6. CASE UsbReply
  <2>1. /\ out' = [out EXCEPT ![ring] = Delivered(buf[ring], cons[ring], len)]
        /\ pc = "reply" /\ pc' = "advance"
        /\ UNCHANGED <<rings, msg_lock, log, taken, granted, local>>
    BY <1>6 DEF UsbReply
  <2>2. /\ taken[ring] < Len(log[ring])
        /\ len = log[ring][taken[ring] + 1].len
        /\ MessageAt(buf[ring], cons[ring], taken[ring] + 1, len)
    BY <1>1, <2>1 DEF RecvExact, ReplyWhole
  <2>3. Delivered(buf[ring], cons[ring], len) = taken[ring] + 1
    BY <1>3, <2>2, HeadFound
  <2>4. out'[ring] = taken[ring] + 1
    BY <1>1, <1>2, <2>1, <2>3 DEF TypeOK
  <2>5. RecvExact'
    BY <2>1, <2>2, <2>4 DEF RecvExact, ReplyWhole
  <2>6. \A q \in Rings : Framed(buf'[q], prod'[q], cons'[q], log'[q], taken'[q])
    BY <1>1, <2>1
  <2>7. PcExact' /\ Excluded'
    BY <1>1, <2>1 DEF PcExact, SendPcs, RecvPcs, Excluded
  <2>8. SendExact' /\ StoreExact'
    BY <2>1 DEF SendExact, StoreExact
  <2> QED BY <2>5, <2>6, <2>7, <2>8 DEF IInv
<1> QED BY <1>4, <1>5, <1>6

\* A USB receive drops the message it has sent.
LEMMA UsbAdvanceInv ==
    ASSUME IInv, TypeOK', UsbAdvance
    PROVE  IInv'
<1>1. TypeOK /\ RecvExact
      /\ \A q \in Rings : Framed(buf[q], prod[q], cons[q], log[q], taken[q])
  BY DEF IInv
<1>2. ring \in Rings
  BY <1>1 DEF TypeOK
<1>3. /\ buf[ring] \in [Index -> WordType] /\ prod[ring] \in Index /\ cons[ring] \in Index
      /\ log[ring] \in Seq(Entry) /\ Len(log[ring]) \in Nat /\ taken[ring] \in Nat
      /\ Framed(buf[ring], prod[ring], cons[ring], log[ring], taken[ring])
  BY <1>1, <1>2, RingTypes
<1> DEFINE u == taken[ring] + 1
           d == Start(log[ring], u + 1) - Start(log[ring], taken[ring] + 1)
<1>4. /\ taken[ring] < Len(log[ring]) /\ out[ring] = u
      /\ len = log[ring][taken[ring] + 1].len
  BY <1>1 DEF RecvExact, ReplyWhole, UsbAdvance
<1>5. Start(log[ring], taken[ring] + 2) - Start(log[ring], taken[ring] + 1) = len
  BY <1>3, <1>4, HeadFound
<1>6. u \in Nat /\ taken[ring] <= u /\ u <= Len(log[ring]) /\ u + 1 = taken[ring] + 2
  BY <1>3, <1>4
<1>7. d = len
  BY <1>5, <1>6
<1> HIDE DEF u, d
<1>8. Framed(buf[ring], prod[ring], Wrap(cons[ring] + d), log[ring], u)
  BY <1>3, <1>6, TakeFramed DEF d
<1>9. /\ cons'[ring] = Wrap(cons[ring] + d) /\ taken'[ring] = u
      /\ \A q \in Rings : q # ring => cons'[q] = cons[q] /\ taken'[q] = taken[q]
  BY <1>1, <1>2, <1>4, <1>7 DEF UsbAdvance, TypeOK
<1>10. UsbEnd /\ UNCHANGED <<buf, prod, msg_lock, log, out, granted>>
  BY DEF UsbAdvance
<1>11. \A q \in Rings : Framed(buf'[q], prod'[q], cons'[q], log'[q], taken'[q])
  BY <1>1, <1>8, <1>9, <1>10
<1> QED BY <1>10, <1>11, UsbEndInv

\* A USB flush reads the producer index, and it or a receive that found
\* nothing stores what it has read.
LEMMA UsbStoreInv ==
    ASSUME IInv, TypeOK', UsbFlushRead \/ UsbStore
    PROVE  IInv'
<1> USE DEF rings, local, past
<1>1. TypeOK /\ PcExact /\ Excluded /\ StoreExact
      /\ \A q \in Rings : Framed(buf[q], prod[q], cons[q], log[q], taken[q])
  BY DEF IInv
<1>2. ring \in Rings
  BY <1>1 DEF TypeOK
<1>3. /\ buf[ring] \in [Index -> WordType] /\ prod[ring] \in Index /\ cons[ring] \in Index
      /\ log[ring] \in Seq(Entry) /\ Len(log[ring]) \in Nat /\ taken[ring] \in Nat
      /\ Framed(buf[ring], prod[ring], cons[ring], log[ring], taken[ring])
  BY <1>1, <1>2, RingTypes
<1>4. CASE UsbFlushRead
  <2>1. /\ snap' = prod[ring] /\ upto' = Len(log[ring])
        /\ pc = "flush" /\ pc' = "store"
        /\ UNCHANGED <<rings, msg_lock, past, granted, cmd, ring, len, bad, bits, lockSnap>>
    BY <1>4 DEF UsbFlushRead
  <2>2. /\ taken[ring] <= Len(log[ring])
        /\ prod[ring] = Wrap(cons[ring] + (Start(log[ring], Len(log[ring]) + 1)
                                               - Start(log[ring], taken[ring] + 1)))
    BY <1>2, DropAll
  <2>3. ring = "atou" /\ cmd = "flush" /\ ~ bad
    BY <1>1, <2>1 DEF PcExact
  <2>4. PcExact' /\ Excluded'
    BY <1>1, <2>1, <2>3 DEF PcExact, SendPcs, RecvPcs, Excluded
  <2>5. StoreExact'
    BY <1>3, <2>1, <2>2, <2>3 DEF StoreExact
  <2>6. \A q \in Rings : Framed(buf'[q], prod'[q], cons'[q], log'[q], taken'[q])
    BY <1>1, <2>1
  <2>7. SendExact' /\ RecvExact'
    BY <2>1 DEF SendExact, RecvExact, ReplyWhole
  <2> QED BY <2>4, <2>5, <2>6, <2>7 DEF IInv
<1>5. CASE UsbStore
  <2> DEFINE d == Start(log[ring], upto + 1) - Start(log[ring], taken[ring] + 1)
  <2>1. /\ taken[ring] <= upto /\ upto <= Len(log[ring])
        /\ snap = Wrap(cons[ring] + d)
    BY <1>1, <1>5 DEF UsbStore, StoreExact
  <2>2. upto \in Nat /\ ~ bad
    BY <1>1 DEF TypeOK, PcExact
  <2> HIDE DEF d
  <2>3. Framed(buf[ring], prod[ring], Wrap(cons[ring] + d), log[ring], upto)
    BY <1>3, <2>1, <2>2, TakeFramed DEF d
  <2>4. /\ cons'[ring] = Wrap(cons[ring] + d) /\ taken'[ring] = upto
        /\ \A q \in Rings : q # ring => cons'[q] = cons[q] /\ taken'[q] = taken[q]
    BY <1>1, <1>2, <1>5, <2>1, <2>2 DEF UsbStore, StoreIndex, TypeOK
  <2>5. UsbEnd /\ UNCHANGED <<buf, prod, msg_lock, log, out, granted>>
    BY <1>5 DEF UsbStore
  <2>6. \A q \in Rings : Framed(buf'[q], prod'[q], cons'[q], log'[q], taken'[q])
    BY <1>1, <2>3, <2>4, <2>5
  <2> QED BY <2>5, <2>6, UsbEndInv
<1> QED BY <1>4, <1>5

\* The rings start out empty.
LEMMA InitInv == Init => IInv
<1> SUFFICES ASSUME Init PROVE IInv
  OBVIOUS
<1>1. TypeOK
  BY InitType
<1>2. ASSUME NEW q \in Rings
      PROVE  Framed(buf[q], prod[q], cons[q], log[q], taken[q])
  <2>1. log[q] = <<>> /\ Len(log[q]) = 0 /\ taken[q] = 0 /\ prod[q] = 0 /\ cons[q] = 0
    BY DEF Init
  <2>2. Total(log[q]) = 0 /\ Start(log[q], taken[q] + 1) = 0
    BY <2>1 DEF Total, Start
  <2>3. Inuse(prod[q], cons[q]) = 0
    BY <2>1 DEF Inuse
  <2>4. LogExact(log[q])
    BY <2>1 DEF LogExact
  <2>5. MessagesWhole(buf[q], cons[q], log[q], taken[q])
    BY <2>1 DEF MessagesWhole
  <2> QED BY <2>1, <2>2, <2>3, <2>4, <2>5 DEF Framed, InuseExact
<1>3. PcExact /\ Excluded /\ SendExact /\ RecvExact /\ StoreExact
  BY DEF Init, PcExact, SendPcs, RecvPcs, Excluded, SendExact, RecvExact,
         ReplyWhole, StoreExact
<1> QED BY <1>1, <1>2, <1>3 DEF IInv

\* A step that changes nothing keeps the invariant.
LEMMA StutterInv == IInv /\ UNCHANGED vars => IInv'
<1> SUFFICES ASSUME IInv, UNCHANGED vars PROVE IInv'
  OBVIOUS
<1> USE DEF vars, rings, local, past
<1>1. TypeOK' /\ PcExact' /\ Excluded' /\ SendExact' /\ RecvExact' /\ StoreExact'
  BY DEF IInv, TypeOK, PcExact, Excluded, SendExact, RecvExact, ReplyWhole,
         StoreExact, NextId
<1>2. \A q \in Rings : Framed(buf'[q], prod'[q], cons'[q], log'[q], taken'[q])
  BY DEF IInv
<1> QED BY <1>1, <1>2 DEF IInv

\* Every step keeps it.
LEMMA NextInv == Disciplined /\ IInv /\ Next => IInv'
<1> SUFFICES ASSUME Disciplined, IInv, Next PROVE IInv'
  OBVIOUS
<1>1. TypeOK'
  BY AmigaType, UsbType DEF IInv, Next
<1>2. CASE Amiga
  BY <1>1, <1>2, AmigaSendInv, AmigaRecvInv, AmigaDropInv, AmigaLockInv DEF Amiga
<1>3. CASE UsbStep
  BY <1>1, <1>3, UsbSendInv, UsbRecvInv, UsbAdvanceInv, UsbStoreInv,
     UsbLockStoreInv DEF UsbStep
<1>4. CASE Usb /\ ~ UsbStep
  BY <1>1, <1>4, UsbBeginInv, UsbLockInv DEF Usb
<1> QED BY <1>2, <1>3, <1>4 DEF Next

\* As long as the two programs use the commands the way Disciplined says, the
\* inductive invariant holds throughout.
THEOREM Invariance == Disciplined => (Spec => []IInv)
<1>1. Disciplined /\ IInv /\ [Next]_vars => IInv'
  BY NextInv, StutterInv
<1>2. Disciplined => []Disciplined
  <2>1. Disciplined => Disciplined'
    BY DEF Disciplined
  <2> QED BY <2>1, PTL
<1> QED BY InitInv, <1>1, <1>2, PTL DEF Spec

\* For every ring size, payload set and message count, and wherever the
\* interrupt cuts into a USB command, no index update of either side loses,
\* overwrites or splits a message.
THEOREM FramingHolds == Disciplined => (Spec => []Framing)
<1>1. IInv => Framing
  BY DEF IInv, Framing, Framed
<1> QED BY <1>1, Invariance, PTL

\* What a USB receive is about to send, or has sent, is the oldest message in
\* the ring, whole, until it moves the consumer index.
THEOREM ReplyHolds == Disciplined => (Spec => []ReplyWhole)
<1>1. IInv => ReplyWhole
  BY DEF IInv, RecvExact
<1> QED BY <1>1, Invariance, PTL

-----------------------------------------------------------------------------
(* What leaves a ring.                                                     *)

\* A receive of the Amiga takes the oldest message, if there is one, and
\* delivers it.
LEMMA AmigaRecvTakes ==
    ASSUME IInv, NEW r \in Rings, AmigaRecv(r)
    PROVE  /\ taken[r] < Len(log[r])
           /\ out' = [out EXCEPT ![r] = taken[r] + 1]
           /\ taken' = [taken EXCEPT ![r] = taken[r] + 1]
<1>1. TypeOK /\ Framed(buf[r], prod[r], cons[r], log[r], taken[r])
  BY DEF IInv
<1>2. /\ buf[r] \in [Index -> WordType] /\ prod[r] \in Index /\ cons[r] \in Index
      /\ log[r] \in Seq(Entry) /\ taken[r] \in Nat
  BY <1>1, RingTypes
<1>3. HasMessage(buf[r], prod[r], cons[r])
  BY DEF AmigaRecv
<1>4. /\ taken[r] < Len(log[r])
      /\ Delivered(buf[r], cons[r], LenAt(buf[r], cons[r])) = taken[r] + 1
  BY <1>1, <1>2, <1>3, HeadFound
<1>5. /\ out' = [out EXCEPT ![r] = taken[r] + 1]
      /\ taken' = [taken EXCEPT ![r] = out'[r]]
  BY <1>4 DEF AmigaRecv
<1>6. out'[r] = taken[r] + 1
  BY <1>1, <1>5 DEF TypeOK
<1> QED BY <1>4, <1>5, <1>6

\* A receive of the Amiga that finds no message discards none.
LEMMA AmigaRecvNoneTakes ==
    ASSUME IInv, NEW r \in Rings, AmigaRecvNone(r)
    PROVE  taken' = taken
<1>1. TypeOK /\ Framed(buf[r], prod[r], cons[r], log[r], taken[r])
  BY DEF IInv
<1>2. /\ buf[r] \in [Index -> WordType] /\ prod[r] \in Index /\ cons[r] \in Index
      /\ log[r] \in Seq(Entry) /\ taken[r] \in Nat
  BY <1>1, RingTypes
<1>3. ~ HasMessage(buf[r], prod[r], cons[r])
  BY DEF AmigaRecvNone
<1>4. taken[r] = Len(log[r])
  BY <1>1, <1>2, <1>3, HeadFound
<1> QED BY <1>1, <1>4 DEF AmigaRecvNone, TypeOK

\* A USB receive sends the oldest message of the ring.
LEMMA UsbReplyTakes ==
    ASSUME IInv, UsbReply
    PROVE  /\ taken[ring] < Len(log[ring])
           /\ out' = [out EXCEPT ![ring] = taken[ring] + 1]
<1>1. TypeOK /\ Framed(buf[ring], prod[ring], cons[ring], log[ring], taken[ring])
  BY DEF IInv, TypeOK
<1>2. /\ buf[ring] \in [Index -> WordType] /\ prod[ring] \in Index /\ cons[ring] \in Index
      /\ log[ring] \in Seq(Entry) /\ taken[ring] \in Nat
  BY <1>1 DEF TypeOK
<1>3. taken[ring] < Len(log[ring]) /\ len = log[ring][taken[ring] + 1].len
  BY DEF IInv, RecvExact, ReplyWhole, UsbReply
<1>4. Delivered(buf[ring], cons[ring], len) = taken[ring] + 1
  BY <1>1, <1>2, <1>3, HeadFound
<1> QED BY <1>3, <1>4 DEF UsbReply

\* What a USB receive drops from the ring is what it has sent.
LEMMA UsbAdvanceTakes ==
    ASSUME IInv, UsbAdvance
    PROVE  out[ring] = taken[ring] + 1 /\ taken' = [taken EXCEPT ![ring] = taken[ring] + 1]
<1>1. out[ring] = taken[ring] + 1
  BY DEF IInv, RecvExact, UsbAdvance
<1> QED BY <1>1 DEF UsbAdvance

\* The store of a USB flush takes what had been accepted when it read the
\* producer index; that of a receive that found nothing takes nothing.
LEMMA UsbStoreTakes ==
    ASSUME IInv, UsbStore
    PROVE  /\ taken[ring] <= upto /\ upto <= Len(log[ring])
           /\ cmd = "recv" => upto = taken[ring]
           /\ cmd \in {"recv", "flush"}
           /\ taken' = [taken EXCEPT ![ring] = upto]
BY DEF IInv, PcExact, StoreExact, UsbStore

\* Only a flush discards a message: the reset of the consumer index by a
\* receive that found nothing (*_next_msg_len) never does, on whichever side.  An
\* Amiga step that drops messages is one no receive could have taken.
THEOREM FlushDiscards == Disciplined => (Spec => OnlyFlushDiscards)
<1> DEFINE Kept(r) == \/ taken'[r] = taken[r]
                      \/ taken'[r] = taken[r] + 1 /\ out'[r] = taken'[r]
                      \/ AmigaFlush(r) /\ ~ AmigaRecvNone(r)
                      \/ UsbStore /\ cmd = "flush" /\ ring = r
<1>1. ASSUME IInv, [Next]_vars, NEW r \in Rings PROVE Kept(r)
  <2> USE DEF rings, local, past
  <2>0. taken \in [Rings -> Nat] /\ out \in [Rings -> Nat] /\ ring \in Rings
    BY <1>1 DEF IInv, TypeOK
  <2>1. CASE \E q \in Rings : AmigaRecv(q)
    <3>1. PICK q \in Rings : AmigaRecv(q)
      BY <2>1
    <3>2. /\ out' = [out EXCEPT ![q] = taken[q] + 1]
          /\ taken' = [taken EXCEPT ![q] = taken[q] + 1]
      BY <1>1, <3>1, AmigaRecvTakes
    <3>3. taken'[r] = taken[r] \/ (taken'[r] = taken[r] + 1 /\ out'[r] = taken'[r])
      BY <2>0, <3>2
    <3> QED BY <3>3
  <2>2. CASE \E q \in Rings : AmigaRecvNone(q)
    BY <1>1, <2>2, AmigaRecvNoneTakes
  <2>3. CASE \E q \in Rings : AmigaFlush(q)
    <3>1. PICK q \in Rings : AmigaFlush(q)
      BY <2>3
    <3>2. CASE q = r /\ ~ AmigaRecvNone(q)
      BY <3>1, <3>2
    <3>3. CASE q # r
      <4>1. taken'[r] = taken[r]
        BY <2>0, <3>1, <3>3 DEF AmigaFlush
      <4> QED BY <4>1
    <3>4. CASE AmigaRecvNone(q)
      BY <1>1, <3>4, AmigaRecvNoneTakes
    <3> QED BY <3>2, <3>3, <3>4
  <2>4. CASE UsbAdvance
    <3>1. /\ out[ring] = taken[ring] + 1 /\ out' = out
          /\ taken' = [taken EXCEPT ![ring] = taken[ring] + 1]
      BY <1>1, <2>4, UsbAdvanceTakes DEF UsbAdvance
    <3>2. taken'[r] = taken[r] \/ (taken'[r] = taken[r] + 1 /\ out'[r] = taken'[r])
      BY <2>0, <3>1
    <3> QED BY <3>2
  <2>5. CASE UsbStore
    <3>1. /\ cmd = "recv" => upto = taken[ring]
          /\ cmd \in {"recv", "flush"}
          /\ taken' = [taken EXCEPT ![ring] = upto]
      BY <1>1, <2>5, UsbStoreTakes
    <3>2. taken'[r] = taken[r] \/ (cmd = "flush" /\ ring = r)
      BY <2>0, <3>1
    <3> QED BY <2>5, <3>2
  <2>6. CASE \/ \E q \in Rings, n \in Payloads : AmigaSend(q, n)
             \/ \E b \in AmigaLocks : AmigaLock(b) \/ AmigaUnlock(b)
    <3>1. taken' = taken
      BY <2>6 DEF AmigaSend, AmigaLock, AmigaUnlock
    <3> QED BY <3>1
  <2>7. CASE UsbStep /\ ~ UsbAdvance /\ ~ UsbStore
    <3>1. taken' = taken
      BY <2>7 DEF UsbStep, UsbSpace, UsbNoSpace, UsbCopy, UsbPublish, UsbNextLen,
                  UsbNextNone, UsbReply, UsbFlushRead, UsbLockStore, UsbUnlockStore
    <3> QED BY <3>1
  <2>8. CASE Usb /\ ~ UsbStep
    <3>1. taken' = taken
      BY <2>8 DEF Usb, UsbSend, UsbRecv, UsbFlush, UsbLock, UsbUnlock
    <3> QED BY <3>1
  <2>9. CASE UNCHANGED vars
    <3>1. taken' = taken
      BY <2>9 DEF vars
    <3> QED BY <3>1
  <2> QED BY <1>1, <2>1, <2>2, <2>3, <2>4, <2>5, <2>6, <2>7, <2>8, <2>9
          DEF Next, Amiga, Usb
<1>2. IInv /\ [Next]_vars =>
        [\A r \in Rings : taken'[r] # taken[r] =>
            \/ taken'[r] = taken[r] + 1 /\ out'[r] = taken'[r]
            \/ AmigaFlush(r) /\ ~ AmigaRecvNone(r)
            \/ UsbStore /\ cmd = "flush" /\ ring = r]_vars
  BY <1>1
<1> QED BY <1>2, Invariance, PTL DEF Spec, OnlyFlushDiscards
-----------------------------------------------------------------------------
(* The rings are queues.                                                   *)

\* The messages a + 1 .. a + n in order: what the refinement puts in a queue.
Span(a, n) == [i \in 1 .. n |-> a + i]

\* A span is a sequence.
LEMMA SpanSeq ==
    ASSUME NEW a \in Nat, NEW n \in Nat
    PROVE  /\ Span(a, n) \in Seq(Nat)
           /\ Len(Span(a, n)) = n
           /\ \A i \in 1 .. n : Span(a, n)[i] = a + i
BY DEF Span

\* What the operations of a queue do to a span.
LEMMA SpanAppend ==
    ASSUME NEW a \in Nat, NEW n \in Nat
    PROVE  Append(Span(a, n), a + n + 1) = Span(a, n + 1)
<1> DEFINE s == Append(Span(a, n), a + n + 1)
           t == Span(a, n + 1)
<1>1. /\ Span(a, n) \in Seq(Nat) /\ Len(Span(a, n)) = n
      /\ \A i \in 1 .. n : Span(a, n)[i] = a + i
  BY SpanSeq
<1>2. /\ t \in Seq(Nat) /\ Len(t) = n + 1
      /\ \A i \in 1 .. n + 1 : t[i] = a + i
  <2>1. n + 1 \in Nat
    OBVIOUS
  <2> QED BY <2>1, SpanSeq
<1>3. s \in Seq(Nat) /\ Len(s) = n + 1
  BY <1>1
<1>4. ASSUME NEW i \in 1 .. n + 1 PROVE s[i] = t[i]
  BY <1>1, <1>2
<1> HIDE DEF s, t
<1>5. s = t
  BY <1>2, <1>3, <1>4, SeqEqual
<1> QED BY <1>5 DEF s, t

LEMMA SpanDrop ==
    ASSUME NEW a \in Nat, NEW n \in Nat, NEW k \in 0 .. n
    PROVE  SubSeq(Span(a, n), k + 1, n) = Span(a + k, n - k)
<1> DEFINE s == SubSeq(Span(a, n), k + 1, n)
           t == Span(a + k, n - k)
<1>1. /\ Span(a, n) \in Seq(Nat) /\ Len(Span(a, n)) = n
      /\ \A i \in 1 .. n : Span(a, n)[i] = a + i
  BY SpanSeq
<1>2. /\ t \in Seq(Nat) /\ Len(t) = n - k
      /\ \A i \in 1 .. n - k : t[i] = a + k + i
  <2>1. n - k \in Nat /\ a + k \in Nat
    OBVIOUS
  <2> QED BY <2>1, SpanSeq
<1>3. /\ s \in Seq(Nat)
      /\ Len(s) = n - k
      /\ \A i \in 1 .. n - k : s[i] = Span(a, n)[k + i]
  <2>1. \A i \in k + 1 .. n : Span(a, n)[i] \in Nat
    BY <1>1
  <2>2. /\ s \in Seq(Nat)
        /\ Len(s) = IF k + 1 <= n THEN n - (k + 1) + 1 ELSE 0
        /\ \A i \in 1 .. n - (k + 1) + 1 : s[i] = Span(a, n)[(k + 1) + i - 1]
    <3>1. k + 1 \in Int /\ n \in Int
      OBVIOUS
    <3> HIDE DEF s
    <3> QED BY <2>1, <3>1, SubSeqProperties DEF s
  <2>3. n - (k + 1) + 1 = n - k /\ (IF k + 1 <= n THEN n - (k + 1) + 1 ELSE 0) = n - k
    OBVIOUS
  <2>4. \A i \in 1 .. n - k : (k + 1) + i - 1 = k + i
    OBVIOUS
  <2> HIDE DEF s
  <2> QED BY <2>2, <2>3, <2>4
<1>4. ASSUME NEW i \in 1 .. n - k PROVE s[i] = t[i]
  BY <1>1, <1>2, <1>3
<1> HIDE DEF s, t
<1>5. s = t
  BY <1>2, <1>3, <1>4, SeqEqual
<1> QED BY <1>5 DEF s, t

LEMMA SpanTail ==
    ASSUME NEW a \in Nat, NEW n \in Nat, n > 0
    PROVE  /\ Span(a, n) # <<>>
           /\ Head(Span(a, n)) = a + 1
           /\ Tail(Span(a, n)) = Span(a + 1, n - 1)
<1>1. /\ Span(a, n) \in Seq(Nat) /\ Len(Span(a, n)) = n
      /\ Span(a, n)[1] = a + 1
  BY SpanSeq
<1>2. Span(a, n) # <<>>
  BY <1>1
<1>3. Tail(Span(a, n)) = SubSeq(Span(a, n), 1 + 1, n)
  BY <1>1, <1>2, TailIsSubSeq
<1>4. 1 \in 0 .. n
  OBVIOUS
<1> QED BY SMTT(20), <1>1, <1>2, <1>3, <1>4, SpanDrop

\* The mapped queue of ring r is the span from its oldest message on.
QueueOf(r) == Span(Oldest(r), Len(log[r]) - Oldest(r))

LEMMA OldestType ==
    ASSUME IInv, NEW r \in Rings
    PROVE  /\ Oldest(r) \in Nat /\ Len(log[r]) \in Nat
           /\ Oldest(r) <= Len(log[r]) /\ Len(log[r]) - Oldest(r) \in Nat
<1>1. TypeOK /\ taken[r] <= Len(log[r])
  BY DEF IInv, Framed, InuseExact
<1>2. taken[r] \in Nat /\ Len(log[r]) \in Nat
  BY <1>1 DEF TypeOK
<1>3. pc = "advance" /\ ring = r => taken[r] < Len(log[r])
  BY DEF IInv, RecvExact, ReplyWhole
<1> QED BY <1>1, <1>2, <1>3 DEF Oldest

\* Nothing is put, delivered or flushed: a stuttering step of the queues.
LEMMA QueueStutter ==
    ASSUME \A r \in Rings : Oldest(r)' = Oldest(r) /\ Len(log'[r]) = Len(log[r]),
           out' = out
    PROVE  UNCHANGED Queue!vars
BY DEF Queue!vars

LEMMA QueuePut ==
    ASSUME IInv, NEW r \in Rings,
           \A q \in Rings : Oldest(q)' = Oldest(q),
           Len(log'[r]) = Len(log[r]) + 1,
           \A q \in Rings : q # r => Len(log'[q]) = Len(log[q]),
           out' = out
    PROVE  Queue!Put(r)
<1>1. /\ Oldest(r) \in Nat /\ Len(log[r]) \in Nat
      /\ Oldest(r) <= Len(log[r]) /\ Len(log[r]) - Oldest(r) \in Nat
  BY OldestType
<1>2. Append(QueueOf(r), Len(log[r]) + 1) = QueueOf(r)'
  <2>1. Append(QueueOf(r), Oldest(r) + (Len(log[r]) - Oldest(r)) + 1)
            = Span(Oldest(r), Len(log[r]) - Oldest(r) + 1)
    BY <1>1, SpanAppend DEF QueueOf
  <2>2. /\ Oldest(r) + (Len(log[r]) - Oldest(r)) + 1 = Len(log[r]) + 1
        /\ Len(log'[r]) - Oldest(r)' = Len(log[r]) - Oldest(r) + 1
    BY <1>1
  <2> QED BY <2>1, <2>2 DEF QueueOf
<1>3. \A q \in Rings : q # r => QueueOf(q)' = QueueOf(q)
  BY DEF QueueOf
<1> QED BY <1>2, <1>3 DEF Queue!Put, QueueOf, Span

LEMMA QueueGet ==
    ASSUME IInv, NEW r \in Rings,
           Oldest(r) < Len(log[r]),
           Oldest(r)' = Oldest(r) + 1,
           \A q \in Rings : q # r => Oldest(q)' = Oldest(q),
           log' = log,
           out' = [out EXCEPT ![r] = Oldest(r) + 1]
    PROVE  Queue!Get(r)
<1>1. /\ Oldest(r) \in Nat /\ Len(log[r]) \in Nat
      /\ Len(log[r]) - Oldest(r) \in Nat /\ Len(log[r]) - Oldest(r) > 0
  BY OldestType
<1>2. /\ QueueOf(r) # <<>>
      /\ Head(QueueOf(r)) = Oldest(r) + 1
      /\ Tail(QueueOf(r)) = Span(Oldest(r) + 1, Len(log[r]) - Oldest(r) - 1)
  BY <1>1, SpanTail DEF QueueOf
<1>3. Tail(QueueOf(r)) = QueueOf(r)'
  <2>1. Len(log'[r]) - Oldest(r)' = Len(log[r]) - Oldest(r) - 1
    BY <1>1
  <2> QED BY <1>2, <2>1 DEF QueueOf
<1>4. \A q \in Rings : q # r => QueueOf(q)' = QueueOf(q)
  BY DEF QueueOf
<1> QED BY <1>2, <1>3, <1>4 DEF Queue!Get, QueueOf, Span

LEMMA QueueFlush ==
    ASSUME IInv, NEW r \in Rings,
           Oldest(r)' \in Oldest(r) + 1 .. Len(log[r]),
           \A q \in Rings : q # r => Oldest(q)' = Oldest(q),
           log' = log, out' = out
    PROVE  Queue!Flush(r)
<1> DEFINE k == Oldest(r)' - Oldest(r)
           n == Len(log[r]) - Oldest(r)
<1>1. /\ Oldest(r) \in Nat /\ Len(log[r]) \in Nat
      /\ n \in Nat /\ k \in 1 .. n /\ k \in 0 .. n
      /\ Oldest(r) + k = Oldest(r)' /\ n - k = Len(log[r]) - Oldest(r)'
  BY OldestType
<1> HIDE DEF k, n
<1>2. SubSeq(Span(Oldest(r), n), k + 1, n) = Span(Oldest(r) + k, n - k)
  BY <1>1, SpanDrop
<1>3. SubSeq(QueueOf(r), k + 1, n) = QueueOf(r)'
  BY <1>1, <1>2 DEF QueueOf, n
<1>4. Len(QueueOf(r)) = n
  BY <1>1, SpanSeq DEF QueueOf, n
<1>5. \A q \in Rings : q # r => QueueOf(q)' = QueueOf(q)
  BY DEF QueueOf
<1> DEFINE queue == [q \in Rings |-> QueueOf(q)]
<1>6. k \in 1 .. Len(queue[r])
      /\ queue' = [queue EXCEPT ![r] = SubSeq(queue[r], k + 1, Len(queue[r]))]
  BY <1>1, <1>3, <1>4, <1>5
<1>7. queue = [q \in Rings |-> [i \in 1 .. Len(log[q]) - Oldest(q) |-> Oldest(q) + i]]
  BY DEF QueueOf, Span
<1>8. queue' = [q \in Rings |->
                    [i \in 1 .. Len(log'[q]) - Oldest(q)' |-> Oldest(q)' + i]]
  BY DEF QueueOf, Span
<1> HIDE DEF queue
<1>9. \E i \in 1 .. Len(queue[r]) :
        queue' = [queue EXCEPT ![r] = SubSeq(queue[r], i + 1, Len(queue[r]))]
  BY <1>6
<1> QED BY <1>7, <1>8, <1>9 DEF Queue!Flush

\* A message counts as delivered only while the USB receive of its ring is on
\* its way from the reply to the move of the consumer index, and the Amiga does
\* not receive from or flush that ring meanwhile.
LEMMA OldestTaken ==
    ASSUME IInv, NEW r \in Rings, NEW op \in {"recv", "flush"},
           AmigaMayIssue(<<op, r>>)
    PROVE  Oldest(r) = taken[r]
<1>1. pc = "advance" => ring = "atou"
  BY DEF IInv, PcExact, RecvPcs
<1>2. pc = "advance" /\ ring = r => <<op, r>> \in AmigaOwn
  BY OwnEnd DEF IInv, Cmds
<1> QED BY <1>1, <1>2 DEF AmigaOwn, Oldest

\* What a step of the Amiga is to the queues.
LEMMA AmigaQueue ==
    ASSUME IInv, Amiga
    PROVE  Queue!Next \/ UNCHANGED Queue!vars
<1> USE DEF rings, local, past
<1>0. /\ TypeOK /\ taken \in [Rings -> Nat] /\ log \in [Rings -> Seq(Entry)]
      /\ out \in [Rings -> Nat] /\ ring \in Rings
  BY DEF IInv, TypeOK
<1>1. ASSUME NEW r \in Rings, NEW n \in Payloads, AmigaSend(r, n) PROVE Queue!Next
  <2>1. log' = [log EXCEPT ![r] = Extend(log[r], RawLen(n))]
    BY <1>1 DEF AmigaSend, Accept
  <2>2. Len(Extend(log[r], RawLen(n))) = Len(log[r]) + 1
    BY <1>0 DEF Extend
  <2>3. Len(log'[r]) = Len(log[r]) + 1
        /\ \A q \in Rings : q # r => Len(log'[q]) = Len(log[q])
    BY <1>0, <2>1, <2>2
  <2>4. (\A q \in Rings : Oldest(q)' = Oldest(q)) /\ out' = out
    BY <1>1 DEF AmigaSend, Oldest
  <2>5. Queue!Put(r)
    BY <2>3, <2>4, QueuePut
  <2> QED BY <2>5 DEF Queue!Next
<1>2. ASSUME NEW r \in Rings, AmigaRecv(r) PROVE Queue!Next
  <2>1. /\ taken[r] < Len(log[r])
        /\ out' = [out EXCEPT ![r] = taken[r] + 1]
        /\ taken' = [taken EXCEPT ![r] = taken[r] + 1]
    BY <1>2, AmigaRecvTakes
  <2>2. /\ Oldest(r) = taken[r]
        /\ UNCHANGED <<pc, ring, log>>
    BY <1>2, OldestTaken DEF AmigaRecv
  <2>3. Oldest(r)' = Oldest(r) + 1 /\ \A q \in Rings : q # r => Oldest(q)' = Oldest(q)
    <3>1. ~ (pc = "advance" /\ ring = r)
      BY <1>0, <2>2 DEF Oldest
    <3> QED BY <1>0, <2>1, <2>2, <3>1 DEF Oldest
  <2>4. Queue!Get(r)
    BY <2>1, <2>2, <2>3, QueueGet
  <2> QED BY <2>4 DEF Queue!Next
<1>3. ASSUME NEW r \in Rings, AmigaRecvNone(r) PROVE UNCHANGED Queue!vars
  <2>1. taken' = taken
    BY <1>3, AmigaRecvNoneTakes
  <2>2. UNCHANGED <<pc, ring, log, out>>
    BY <1>3 DEF AmigaRecvNone
  <2>3. \A q \in Rings : Oldest(q)' = Oldest(q)
    BY <2>1, <2>2 DEF Oldest
  <2> QED BY <2>2, <2>3, QueueStutter
<1>4. ASSUME NEW r \in Rings, AmigaFlush(r) PROVE Queue!Next \/ UNCHANGED Queue!vars
  <2>1. /\ taken' = [taken EXCEPT ![r] = Len(log[r])]
        /\ UNCHANGED <<pc, ring, log, out>>
    BY <1>4 DEF AmigaFlush
  <2>2. Oldest(r) = taken[r]
    BY <1>4, OldestTaken DEF AmigaFlush
  <2>3. ~ (pc = "advance" /\ ring = r)
    BY <1>0, <2>2 DEF Oldest
  <2>4. Oldest(r)' = Len(log[r]) /\ \A q \in Rings : q # r => Oldest(q)' = Oldest(q)
    BY <1>0, <2>1, <2>3 DEF Oldest
  <2>5. Oldest(r) \in Nat /\ Len(log[r]) \in Nat /\ Oldest(r) <= Len(log[r])
    BY OldestType
  <2>6. CASE Oldest(r) = Len(log[r])
    BY <2>1, <2>4, <2>6, QueueStutter
  <2>7. CASE Oldest(r) < Len(log[r])
    <3>1. Oldest(r)' \in Oldest(r) + 1 .. Len(log[r])
      BY <2>4, <2>5, <2>7
    <3>2. Queue!Flush(r)
      BY <2>1, <2>4, <3>1, QueueFlush
    <3> QED BY <3>2 DEF Queue!Next
  <2> QED BY <2>5, <2>6, <2>7
<1>5. ASSUME NEW b \in AmigaLocks, AmigaLock(b) \/ AmigaUnlock(b)
      PROVE  UNCHANGED Queue!vars
  <2>1. UNCHANGED <<pc, ring, log, out, taken>>
    BY <1>5 DEF AmigaLock, AmigaUnlock
  <2>2. \A q \in Rings : Oldest(q)' = Oldest(q)
    BY <2>1 DEF Oldest
  <2> QED BY <2>1, <2>2, QueueStutter
<1> QED BY <1>1, <1>2, <1>3, <1>4, <1>5 DEF Amiga

\* What a step of the USB side is to the queues.
LEMMA UsbQueue ==
    ASSUME IInv, Usb
    PROVE  Queue!Next \/ UNCHANGED Queue!vars
<1> USE DEF rings, local, past
<1>0. /\ TypeOK /\ taken \in [Rings -> Nat] /\ log \in [Rings -> Seq(Entry)]
      /\ out \in [Rings -> Nat] /\ ring \in Rings
  BY DEF IInv, TypeOK
<1>1. CASE UsbPublish
  <2>1. log' = [log EXCEPT ![ring] = Extend(log[ring], len)]
    BY <1>1 DEF UsbPublish, Accept
  <2>2. Len(Extend(log[ring], len)) = Len(log[ring]) + 1
    BY <1>0 DEF Extend
  <2>3. Len(log'[ring]) = Len(log[ring]) + 1
        /\ \A q \in Rings : q # ring => Len(log'[q]) = Len(log[q])
    BY <1>0, <2>1, <2>2
  <2>4. (\A q \in Rings : Oldest(q)' = Oldest(q)) /\ out' = out
    BY <1>1 DEF UsbPublish, UsbEnd, Oldest
  <2>5. ASSUME NEW q \in Rings, q = ring PROVE Queue!Put(q)
    BY <2>3, <2>4, <2>5, QueuePut
  <2> QED BY <1>0, <2>5 DEF Queue!Next
<1>2. CASE UsbReply
  <2>1. /\ taken[ring] < Len(log[ring])
        /\ out' = [out EXCEPT ![ring] = taken[ring] + 1]
    BY <1>2, UsbReplyTakes
  <2>2. pc = "reply" /\ pc' = "advance" /\ UNCHANGED <<ring, log, taken>>
    BY <1>2 DEF UsbReply
  <2>3. /\ Oldest(ring) = taken[ring]
        /\ \A q \in Rings : Oldest(q)' = IF q = ring THEN Oldest(q) + 1 ELSE Oldest(q)
    BY <2>2 DEF Oldest
  <2>4. ASSUME NEW q \in Rings, q = ring PROVE Queue!Get(q)
    BY <2>1, <2>2, <2>3, <2>4, QueueGet
  <2> QED BY <1>0, <2>4 DEF Queue!Next
<1>3. CASE UsbAdvance
  <2>1. taken' = [taken EXCEPT ![ring] = taken[ring] + 1]
    BY <1>3, UsbAdvanceTakes
  <2>2. pc = "advance" /\ pc' = "idle" /\ UNCHANGED <<log, out>>
    BY <1>3 DEF UsbAdvance, UsbEnd
  <2>3. \A q \in Rings : Oldest(q)' = Oldest(q)
    BY <1>0, <2>1, <2>2 DEF Oldest
  <2> QED BY <2>2, <2>3, QueueStutter
<1>4. CASE UsbStore
  <2>1. /\ taken[ring] <= upto /\ upto <= Len(log[ring])
        /\ taken' = [taken EXCEPT ![ring] = upto]
    BY <1>4, UsbStoreTakes
  <2>2. pc = "store" /\ pc' = "idle" /\ UNCHANGED <<log, out>> /\ upto \in Nat
    BY <1>0, <1>4 DEF UsbStore, UsbEnd, TypeOK
  <2>3. \A q \in Rings : /\ Oldest(q) = taken[q]
                        /\ Oldest(q)' = IF q = ring THEN upto ELSE Oldest(q)
    BY <1>0, <2>1, <2>2 DEF Oldest
  <2>4. CASE upto = taken[ring]
    <3>1. \A q \in Rings : Oldest(q)' = Oldest(q)
      BY <1>0, <2>3, <2>4
    <3> QED BY <2>2, <3>1, QueueStutter
  <2>5. CASE upto > taken[ring]
    <3>1. ASSUME NEW q \in Rings, q = ring PROVE Queue!Flush(q)
      <4>1. Oldest(q)' \in Oldest(q) + 1 .. Len(log[q])
        BY <1>0, <2>1, <2>2, <2>3, <2>5, <3>1
      <4> QED BY <2>2, <2>3, <3>1, <4>1, QueueFlush
    <3> QED BY <1>0, <3>1 DEF Queue!Next
  <2> QED BY <1>0, <2>1, <2>2, <2>4, <2>5
<1>5. CASE Usb /\ ~ (UsbPublish \/ UsbReply \/ UsbAdvance \/ UsbStore)
  <2>1. UNCHANGED <<log, out, taken>>
    BY <1>5 DEF Usb, UsbStep, UsbSpace, UsbNoSpace, UsbCopy, UsbNextLen, UsbNextNone,
                UsbFlushRead, UsbLockStore, UsbUnlockStore, UsbSend, UsbRecv,
                UsbFlush, UsbLock, UsbUnlock
  <2>2. pc # "advance" /\ pc' # "advance"
    BY <1>5 DEF Usb, UsbStep, UsbSpace, UsbNoSpace, UsbCopy, UsbNextLen, UsbNextNone,
                UsbFlushRead, UsbLockStore, UsbUnlockStore, UsbSend, UsbRecv,
                UsbFlush, UsbLock, UsbUnlock, UsbBegin, UsbEnd
  <2>3. \A q \in Rings : Oldest(q)' = Oldest(q)
    BY <2>1, <2>2 DEF Oldest
  <2> QED BY <2>1, <2>3, QueueStutter
<1> QED BY <1>1, <1>2, <1>3, <1>4, <1>5

\* Under the discipline the two rings implement two FIFO queues of whole
\* messages: whatever the interrupt cuts in two, each message is delivered once,
\* in order, or discarded by a flush, oldest first.
THEOREM RingsAreQueues == Disciplined => (Spec => QueueSpec)
<1>1. Init => Queue!Init
  <2> SUFFICES ASSUME Init PROVE Queue!Init
    OBVIOUS
  <2>1. \A r \in Rings : Len(log[r]) = 0 /\ Oldest(r) = 0
    BY DEF Init, Oldest
  <2>2. \A r \in Rings : [i \in 1 .. Len(log[r]) - Oldest(r) |-> Oldest(r) + i] = <<>>
    BY <2>1
  <2>3. out = [r \in Rings |-> 0]
    BY DEF Init
  <2> QED BY <2>1, <2>2, <2>3 DEF Queue!Init
<1>2. IInv /\ [Next]_vars => [Queue!Next]_(Queue!vars)
  <2> SUFFICES ASSUME IInv, [Next]_vars PROVE Queue!Next \/ UNCHANGED Queue!vars
    OBVIOUS
  <2>1. CASE UNCHANGED vars
    <3>1. UNCHANGED <<pc, ring, log, out, taken>>
      BY <2>1 DEF vars, local, past
    <3>2. \A q \in Rings : Oldest(q)' = Oldest(q)
      BY <3>1 DEF Oldest
    <3> QED BY <3>1, <3>2, QueueStutter
  <2> QED BY <2>1, AmigaQueue, UsbQueue DEF Next
<1> QED BY <1>1, <1>2, Invariance, PTL DEF Spec, QueueSpec, Queue!Spec

=============================================================================
