---------------------------- MODULE Framing_proofs ----------------------------
(***************************************************************************)
(* The index arithmetic and the framing of Ring, for every ring size and   *)
(* header length, and what the elementary updates of a ring do to its      *)
(* framing: a ring that is framed stays so when a message is copied behind *)
(* the producer index, when the producer index is moved past it, and when  *)
(* the consumer index is moved to a later message boundary.                *)
(***************************************************************************)
EXTENDS MsgBuffers, SequenceTheorems, TLAPS

USE RingAssumption

-----------------------------------------------------------------------------
(* Ranges.                                                                 *)

\* Masking a sum of an index and a length gives an index.
LEMMA WrapIndex ==
    ASSUME NEW c \in Index, NEW n \in 0 .. Size
    PROVE  Wrap(c + n) \in Index
BY DEF Wrap, Index

\* The words in use are counted by an index; so are the free ones.
LEMMA InuseIndex ==
    ASSUME NEW p \in Index, NEW c \in Index
    PROVE  Inuse(p, c) \in Index /\ Avail(p, c) \in Index
BY DEF Inuse, Avail, Index

\* A raw length has room for the header and the CRC.
LEMMA RawLenNat ==
    ASSUME NEW n \in Nat
    PROVE  RawLen(n) \in Nat /\ RawLen(n) >= HdrLen
BY DEF RawLen

\* Copying a message that fits keeps the contents well-formed.
LEMMA CopyType ==
    ASSUME NEW b \in [Index -> WordType], NEW p \in Index, NEW id \in Nat,
           NEW n \in Index
    PROVE  Copy(b, p, id, n) \in [Index -> WordType]
<1> SUFFICES ASSUME NEW i \in Index
             PROVE  (IF Inuse(i, p) < n THEN Word(id, n, Inuse(i, p)) ELSE b[i])
                        \in WordType
  BY DEF Copy
<1>1. Inuse(i, p) \in 0 .. Size
  BY InuseIndex DEF Index
<1> QED BY <1>1 DEF Word, WordType

\* The length found at an index is a length that fits a ring.
LEMMA LenAtType ==
    ASSUME NEW b \in [Index -> WordType], NEW c \in Index
    PROVE  LenAt(b, c) \in Index
<1>1. Wrap(c + MagicLen) \in Index
  BY WrapIndex
<1> QED BY <1>1 DEF LenAt, WordType

\* What is delivered from an index is a message number or 0.
LEMMA DeliveredType ==
    ASSUME NEW b \in [Index -> WordType], NEW c \in Index, NEW n \in Nat
    PROVE  Delivered(b, c, n) \in Nat
BY DEF Delivered, WordType

-----------------------------------------------------------------------------
(* Moving the indices.                                                     *)

\* The producer index is as far from the consumer index as words are in use.
LEMMA ProdFromCons ==
    ASSUME NEW p \in Index, NEW c \in Index
    PROVE  p = Wrap(c + Inuse(p, c))
BY DEF Wrap, Inuse, Index

\* Two moves make one.
LEMMA WrapAdd ==
    ASSUME NEW c \in Index, NEW a \in Nat, NEW b \in Nat, a + b <= Size
    PROVE  Wrap(Wrap(c + a) + b) = Wrap(c + (a + b))
BY DEF Wrap, Index

\* An index is as far from c as it was moved.
LEMMA Distance ==
    ASSUME NEW c \in Index, NEW d \in Index
    PROVE  Inuse(Wrap(c + d), c) = d
BY DEF Wrap, Inuse, Index

\* Producing n words that are free puts n more in use.
LEMMA InusePut ==
    ASSUME NEW p \in Index, NEW c \in Index, NEW n \in Nat, n <= Avail(p, c)
    PROVE  Inuse(Wrap(p + n), c) = Inuse(p, c) + n
BY DEF Wrap, Inuse, Avail, Index

\* Consuming n words in use leaves n fewer in use.
LEMMA InuseTake ==
    ASSUME NEW p \in Index, NEW c \in Index, NEW n \in Nat, n <= Inuse(p, c)
    PROVE  Inuse(p, Wrap(c + n)) = Inuse(p, c) - n
BY DEF Wrap, Inuse, Index

-----------------------------------------------------------------------------
(* Copying a message.                                                      *)

\* A message is whole where it was copied to.
LEMMA CopyWhole ==
    ASSUME NEW b, NEW p \in Index, NEW id, NEW n \in Index
    PROVE  MessageAt(Copy(b, p, id, n), p, id, n)
<1> SUFFICES ASSUME NEW k \in 0 .. n - 1
             PROVE  Copy(b, p, id, n)[Wrap(p + k)] = Word(id, n, k)
  BY DEF MessageAt
<1>1. k \in Index /\ k \in 0 .. Size /\ k < n
  BY DEF Index
<1>2. Wrap(p + k) \in Index /\ Inuse(Wrap(p + k), p) = k
  BY <1>1, WrapIndex, Distance
<1> QED BY <1>1, <1>2 DEF Copy

\* Copying into free words leaves alone every word in use.
LEMMA CopyElsewhere ==
    ASSUME NEW b, NEW p \in Index, NEW c \in Index, NEW id, NEW n \in Nat,
           n <= Avail(p, c), NEW d \in Nat, d < Inuse(p, c)
    PROVE  Copy(b, p, id, n)[Wrap(c + d)] = b[Wrap(c + d)]
<1>1. Wrap(c + d) \in Index
  <2>1. Inuse(p, c) \in Index
    BY InuseIndex
  <2>2. d \in 0 .. Size
    BY <2>1 DEF Index
  <2> QED BY <2>2, WrapIndex
<1>2. ~ (Inuse(Wrap(c + d), p) < n)
  <2>1. CASE p >= c
    BY <2>1 DEF Inuse, Wrap, Avail, Index
  <2>2. CASE p < c /\ c + d >= Size
    BY <2>2 DEF Inuse, Wrap, Avail, Index
  <2>3. CASE p < c /\ c + d < Size
    BY <2>3 DEF Inuse, Wrap, Avail, Index
  <2> QED BY <2>1, <2>2, <2>3 DEF Index
<1> QED BY <1>1, <1>2 DEF Copy

-----------------------------------------------------------------------------
(* The log of a ring.                                                      *)

\* An entry of a log holds two numbers.
LEMMA EntryNat ==
    ASSUME NEW lg \in Seq(Entry), NEW i \in 1 .. Len(lg)
    PROVE  lg[i] \in Entry /\ lg[i].at \in Nat /\ lg[i].len \in Index /\ lg[i].len \in Nat
<1>1. lg[i] \in Entry
  OBVIOUS
<1> QED BY <1>1 DEF Entry, Index

\* So is the place where the log ends, and where a message starts.
LEMMA TotalNat ==
    ASSUME NEW lg \in Seq(Entry)
    PROVE  Len(lg) \in Nat /\ Total(lg) \in Nat
<1>1. Len(lg) \in Nat /\ (lg # <<>> => Len(lg) \in 1 .. Len(lg))
  OBVIOUS
<1> QED BY <1>1, EntryNat DEF Total

LEMMA StartNat ==
    ASSUME NEW lg \in Seq(Entry), NEW i \in Nat \ {0}
    PROVE  Len(lg) \in Nat /\ Start(lg, i) \in Nat
<1>1. Len(lg) \in Nat /\ Total(lg) \in Nat
  BY TotalNat
<1>2. i <= Len(lg) => lg[i].at \in Nat
  BY <1>1, EntryNat
<1> QED BY <1>1, <1>2 DEF Start

\* Later messages start later.
LEMMA StartMono ==
    ASSUME NEW lg \in Seq(Entry), LogExact(lg),
           NEW i \in Nat \ {0}, NEW j \in Nat \ {0}, i <= j, j <= Len(lg) + 1
    PROVE  Start(lg, i) <= Start(lg, j)
<1>0. Len(lg) \in Nat /\ Start(lg, i) \in Nat /\ Start(lg, j) \in Nat
  BY StartNat
<1>1. CASE i = j
  BY <1>0, <1>1
<1>2. CASE i < j
  <2>1. i \in 1 .. Len(lg)
    BY <1>0, <1>2
  <2>2. lg[i].at \in Nat /\ lg[i].len \in Nat /\ Start(lg, i) = lg[i].at
    BY <1>0, <2>1, EntryNat DEF Start
  <2>3. Start(lg, i + 1) = lg[i].at + lg[i].len
    BY <2>1 DEF LogExact
  <2>4. Start(lg, i + 1) <= Start(lg, j)
    <3>1. CASE j = Len(lg) + 1
      <4>1. Start(lg, j) = Total(lg)
        BY <1>0, <3>1 DEF Start
      <4> QED BY <2>1, <4>1 DEF LogExact
    <3>2. CASE j # Len(lg) + 1
      <4>1. j \in 1 .. Len(lg)
        BY <1>0, <3>2
      <4>2. Start(lg, j) = lg[j].at
        BY <4>1 DEF Start
      <4> QED BY <1>2, <2>1, <4>1, <4>2 DEF LogExact
    <3> QED BY <3>1, <3>2
  <2> QED BY <1>0, <2>2, <2>3, <2>4
<1> QED BY <1>1, <1>2

\* Accepting a message of n words appends to the log and changes nothing else
\* in it.
LEMMA ExtendLog ==
    ASSUME NEW lg \in Seq(Entry), NEW n \in Index
    PROVE  /\ Extend(lg, n) \in Seq(Entry)
           /\ Len(Extend(lg, n)) = Len(lg) + 1
           /\ Total(Extend(lg, n)) = Total(lg) + n
           /\ \A i \in 1 .. Len(lg) : Extend(lg, n)[i] = lg[i]
           /\ Extend(lg, n)[Len(lg) + 1] = [at |-> Total(lg), len |-> n]
           /\ \A i \in 1 .. Len(lg) + 1 : Start(Extend(lg, n), i) = Start(lg, i)
           /\ Start(Extend(lg, n), Len(lg) + 2) = Total(lg) + n
<1> DEFINE e == [at |-> Total(lg), len |-> n]
<1>1. Total(lg) \in Nat /\ Len(lg) \in Nat /\ n \in Nat
  BY TotalNat DEF Index
<1>2. e \in Entry /\ e.at = Total(lg) /\ e.len = n
  BY <1>1 DEF Entry
<1> HIDE DEF e
<1>3. Extend(lg, n) = Append(lg, e)
  BY DEF Extend, e
<1>4. /\ Extend(lg, n) \in Seq(Entry)
      /\ Len(Extend(lg, n)) = Len(lg) + 1
      /\ \A i \in 1 .. Len(lg) : Extend(lg, n)[i] = lg[i]
      /\ Extend(lg, n)[Len(lg) + 1] = e
  BY <1>2, <1>3
<1>5. Extend(lg, n) # <<>>
  BY <1>1, <1>4
<1>6. Total(Extend(lg, n)) = Total(lg) + n
  BY <1>1, <1>2, <1>4, <1>5 DEF Total
<1>7. ASSUME NEW i \in 1 .. Len(lg) + 1
      PROVE  Start(Extend(lg, n), i) = Start(lg, i)
  <2>1. CASE i \in 1 .. Len(lg)
    BY <1>1, <1>4, <2>1 DEF Start
  <2>2. CASE i = Len(lg) + 1
    BY <1>1, <1>2, <1>4, <2>2 DEF Start
  <2> QED BY <1>1, <2>1, <2>2
<1>8. Start(Extend(lg, n), Len(lg) + 2) = Total(lg) + n
  BY <1>1, <1>4, <1>6 DEF Start
<1> QED BY <1>4, <1>6, <1>7, <1>8 DEF e

\* It keeps the log exact.
LEMMA ExtendExact ==
    ASSUME NEW lg \in Seq(Entry), LogExact(lg), NEW n \in Index, n >= HdrLen
    PROVE  LogExact(Extend(lg, n))
<1> DEFINE ex == Extend(lg, n)
<1>1. /\ Len(lg) \in Nat /\ n \in Nat /\ Total(lg) \in Nat
      /\ ex \in Seq(Entry) /\ Len(ex) = Len(lg) + 1
      /\ Total(ex) = Total(lg) + n
      /\ \A i \in 1 .. Len(lg) : ex[i] = lg[i]
      /\ ex[Len(lg) + 1].at = Total(lg) /\ ex[Len(lg) + 1].len = n
      /\ \A i \in 1 .. Len(lg) + 1 : Start(ex, i) = Start(lg, i)
      /\ Start(ex, Len(lg) + 2) = Total(lg) + n
  <2>1. Len(lg) \in Nat /\ Total(lg) \in Nat
    BY TotalNat
  <2>2. n \in Nat
    BY DEF Index
  <2> HIDE DEF ex
  <2>3. /\ ex \in Seq(Entry) /\ Len(ex) = Len(lg) + 1
        /\ Total(ex) = Total(lg) + n
        /\ \A i \in 1 .. Len(lg) : ex[i] = lg[i]
        /\ ex[Len(lg) + 1] = [at |-> Total(lg), len |-> n]
        /\ \A i \in 1 .. Len(lg) + 1 : Start(ex, i) = Start(lg, i)
        /\ Start(ex, Len(lg) + 2) = Total(lg) + n
    BY ExtendLog DEF ex
  <2> QED BY <2>1, <2>2, <2>3
<1> HIDE DEF ex
<1> SUFFICES LogExact(ex)
  BY DEF ex
<1> SUFFICES ASSUME NEW i \in 1 .. Len(ex)
             PROVE  /\ ex[i].len >= HdrLen
                    /\ Start(ex, i + 1) = ex[i].at + ex[i].len
                    /\ \A j \in 1 .. Len(ex) : i < j => Start(ex, i + 1) <= ex[j].at
                    /\ Start(ex, i + 1) <= Total(ex)
  BY DEF LogExact
<1>2. CASE i = Len(lg) + 1
  <2>1. i + 1 = Len(lg) + 2 /\ \A j \in 1 .. Len(ex) : ~ (i < j)
    BY <1>1, <1>2
  <2>2. Start(ex, i + 1) = Total(ex) /\ ex[i].at + ex[i].len = Total(ex) /\ ex[i].len = n
    BY <1>1, <1>2, <2>1
  <2> QED BY <1>1, <2>1, <2>2
<1>3. CASE i \in 1 .. Len(lg)
  <2>0. i \in Nat /\ i + 1 \in Nat \ {0} /\ i + 1 \in 1 .. Len(lg) + 1
    BY <1>1, <1>3
  <2>1. i + 1 \in 1 .. Len(lg) + 1 /\ Start(lg, i + 1) \in Nat
    BY <2>0, StartNat
  <2>2. ex[i] = lg[i] /\ Start(ex, i + 1) = Start(lg, i + 1)
    BY <1>1, <1>3, <2>1
  <2>3. /\ lg[i].len >= HdrLen
        /\ Start(lg, i + 1) = lg[i].at + lg[i].len
        /\ \A j \in 1 .. Len(lg) : i < j => Start(lg, i + 1) <= lg[j].at
        /\ Start(lg, i + 1) <= Total(lg)
    BY <1>3 DEF LogExact
  <2>4. ASSUME NEW j \in 1 .. Len(ex), i < j PROVE Start(ex, i + 1) <= ex[j].at
    <3>1. CASE j = Len(lg) + 1
      BY <1>1, <2>2, <2>3, <3>1
    <3>2. CASE j \in 1 .. Len(lg)
      BY <1>1, <2>2, <2>3, <2>4, <3>2
    <3> QED BY <1>1, <3>1, <3>2
  <2>5. Start(ex, i + 1) <= Total(ex)
    BY <1>1, <2>1, <2>2, <2>3
  <2> QED BY <2>2, <2>3, <2>4, <2>5
<1> QED BY <1>1, <1>2, <1>3

-----------------------------------------------------------------------------
(* The framing of a ring.                                                  *)

\* A message in a framed ring lies inside the words in use.
LEMMA Inside ==
    ASSUME NEW p \in Index, NEW c \in Index, NEW lg \in Seq(Entry), NEW t \in Nat,
           LogExact(lg), InuseExact(p, c, lg, t), NEW id \in t + 1 .. Len(lg)
    PROVE  /\ id \in 1 .. Len(lg) /\ t + 1 \in 1 .. Len(lg)
           /\ lg[id].len \in Nat /\ lg[id].len >= HdrLen
           /\ Start(lg, id) - Start(lg, t + 1) \in Nat
           /\ (Start(lg, id) - Start(lg, t + 1)) + lg[id].len <= Inuse(p, c)
           /\ Inuse(p, c) \in Index
<1>1. Len(lg) \in Nat /\ Total(lg) \in Nat /\ Inuse(p, c) \in Index
  BY TotalNat, InuseIndex
<1>2. id \in 1 .. Len(lg) /\ t + 1 \in 1 .. Len(lg) /\ t + 1 <= id
  BY <1>1
<1>3. lg[id].at \in Nat /\ lg[id].len \in Nat /\ Start(lg, id) = lg[id].at
  BY <1>2, EntryNat DEF Start
<1>4. /\ lg[id].len >= HdrLen
      /\ Start(lg, id + 1) = lg[id].at + lg[id].len
      /\ Start(lg, id + 1) <= Total(lg)
  BY <1>2 DEF LogExact
<1>5. Start(lg, t + 1) \in Nat /\ Start(lg, t + 1) <= Start(lg, id)
  BY <1>1, <1>2, StartNat, StartMono
<1>6. Inuse(p, c) = Total(lg) - Start(lg, t + 1)
  BY DEF InuseExact
<1> QED BY SMTT(20), <1>1, <1>2, <1>3, <1>4, <1>5, <1>6

\* Copying a message into the free words of a framed ring leaves it framed,
\* whatever is copied.
LEMMA CopyFramed ==
    ASSUME NEW b, NEW p \in Index, NEW c \in Index, NEW lg \in Seq(Entry),
           NEW t \in Nat, Framed(b, p, c, lg, t), NEW m, NEW n \in Nat,
           n <= Avail(p, c)
    PROVE  Framed(Copy(b, p, m, n), p, c, lg, t)
<1>1. LogExact(lg) /\ InuseExact(p, c, lg, t) /\ MessagesWhole(b, c, lg, t)
  BY DEF Framed
<1> SUFFICES ASSUME NEW id \in t + 1 .. Len(lg), NEW k \in 0 .. lg[id].len - 1
             PROVE  Copy(b, p, m, n)[Wrap(Wrap(c + (Start(lg, id) - Start(lg, t + 1))) + k)]
                        = Word(id, lg[id].len, k)
  BY <1>1 DEF Framed, MessagesWhole, MessageAt
<1> DEFINE d == Start(lg, id) - Start(lg, t + 1)
<1>2. /\ d \in Nat /\ lg[id].len \in Nat /\ d + lg[id].len <= Inuse(p, c)
      /\ Inuse(p, c) \in Index
  BY <1>1, Inside
<1>3. b[Wrap(Wrap(c + d) + k)] = Word(id, lg[id].len, k)
  BY <1>1 DEF MessagesWhole, MessageAt
<1> HIDE DEF d
<1>4. k \in Nat /\ d + k \in Nat /\ d + k < Inuse(p, c) /\ d + k <= Size
  BY SMTT(20), <1>2 DEF Index
<1>5. Wrap(Wrap(c + d) + k) = Wrap(c + (d + k))
  BY <1>2, <1>4, WrapAdd
<1>6. Copy(b, p, m, n)[Wrap(c + (d + k))] = b[Wrap(c + (d + k))]
  BY <1>4, CopyElsewhere
<1> QED BY <1>3, <1>5, <1>6 DEF d

\* Moving the producer index past a message that has been copied behind it,
\* and not before, puts that message in the ring.
LEMMA PublishFramed ==
    ASSUME NEW b, NEW p \in Index, NEW c \in Index, NEW lg \in Seq(Entry),
           NEW t \in Nat, Framed(b, p, c, lg, t), NEW n \in Index, n >= HdrLen,
           n <= Avail(p, c), MessageAt(b, p, Len(lg) + 1, n)
    PROVE  Framed(b, Wrap(p + n), c, Extend(lg, n), t)
<1> DEFINE ex == Extend(lg, n)
<1>1. LogExact(lg) /\ InuseExact(p, c, lg, t) /\ MessagesWhole(b, c, lg, t)
  BY DEF Framed
<1>2. /\ Len(lg) \in Nat /\ Total(lg) \in Nat /\ n \in Nat /\ t <= Len(lg)
      /\ t + 1 \in 1 .. Len(lg) + 1 /\ t + 1 \in Nat \ {0}
      /\ Inuse(p, c) = Total(lg) - Start(lg, t + 1)
  BY <1>1, TotalNat DEF InuseExact, Index
<1>3. /\ Len(ex) = Len(lg) + 1
      /\ Total(ex) = Total(lg) + n
      /\ \A i \in 1 .. Len(lg) : ex[i] = lg[i]
      /\ ex[Len(lg) + 1] = [at |-> Total(lg), len |-> n]
      /\ \A i \in 1 .. Len(lg) + 1 : Start(ex, i) = Start(lg, i)
  BY ExtendLog
<1>4. LogExact(ex)
  BY <1>1, ExtendExact
<1> HIDE DEF ex
<1>5. Start(lg, t + 1) \in Nat
  BY <1>2, StartNat
<1>6. InuseExact(Wrap(p + n), c, ex, t)
  <2>1. Inuse(Wrap(p + n), c) = Inuse(p, c) + n
    BY <1>2, InusePut
  <2> QED BY SMTT(20), <1>2, <1>3, <1>5, <2>1 DEF InuseExact
<1>7. ASSUME NEW id \in t + 1 .. Len(ex)
      PROVE  MessageAt(b, Wrap(c + (Start(ex, id) - Start(ex, t + 1))), id, ex[id].len)
  <2>1. id \in 1 .. Len(lg) + 1 /\ Start(ex, id) = Start(lg, id)
        /\ Start(ex, t + 1) = Start(lg, t + 1)
    BY <1>2, <1>3
  <2>2. CASE id \in t + 1 .. Len(lg)
    <3>1. ex[id] = lg[id]
      BY <1>2, <1>3, <2>2
    <3> QED BY <1>1, <2>1, <2>2, <3>1 DEF MessagesWhole
  <2>3. CASE id = Len(lg) + 1
    <3>1. Start(lg, id) = Total(lg) /\ ex[id].len = n
      BY <1>2, <1>3, <2>3 DEF Start
    <3>2. Wrap(c + (Start(lg, id) - Start(lg, t + 1))) = p
      BY <1>2, <3>1, ProdFromCons
    <3> QED BY <2>1, <2>3, <3>1, <3>2
  <2> QED BY <1>2, <1>3, <2>1, <2>2, <2>3
<1> QED BY <1>4, <1>6, <1>7 DEF Framed, MessagesWhole, ex

\* Moving the consumer index to the start of a later message takes the
\* messages before it out of the ring.
LEMMA TakeFramed ==
    ASSUME NEW b, NEW p \in Index, NEW c \in Index, NEW lg \in Seq(Entry),
           NEW t \in Nat, Framed(b, p, c, lg, t), NEW u \in Nat, t <= u,
           u <= Len(lg)
    PROVE  /\ Start(lg, u + 1) - Start(lg, t + 1) \in 0 .. Inuse(p, c)
           /\ Framed(b, p, Wrap(c + (Start(lg, u + 1) - Start(lg, t + 1))), lg, u)
<1> DEFINE e == Start(lg, u + 1) - Start(lg, t + 1)
<1>1. LogExact(lg) /\ InuseExact(p, c, lg, t) /\ MessagesWhole(b, c, lg, t)
  BY DEF Framed
<1>2. /\ Len(lg) \in Nat /\ Total(lg) \in Nat /\ Inuse(p, c) \in Index
      /\ Inuse(p, c) = Total(lg) - Start(lg, t + 1)
      /\ t + 1 \in Nat \ {0} /\ u + 1 \in Nat \ {0} /\ Len(lg) + 1 \in Nat \ {0}
  BY <1>1, TotalNat, InuseIndex DEF InuseExact
<1>3. Start(lg, t + 1) \in Nat /\ Start(lg, u + 1) \in Nat
  BY <1>2, StartNat
<1>4. Start(lg, t + 1) <= Start(lg, u + 1) /\ Start(lg, u + 1) <= Total(lg)
  <2>1. Start(lg, Len(lg) + 1) = Total(lg)
    BY <1>2 DEF Start
  <2> QED BY <1>1, <1>2, <2>1, StartMono
<1>5. e \in Nat /\ e <= Inuse(p, c) /\ e \in 0 .. Inuse(p, c) /\ e \in 0 .. Size
  BY SMTT(20), <1>2, <1>3, <1>4 DEF Index
<1>6. Wrap(c + e) \in Index /\ Inuse(p, Wrap(c + e)) = Inuse(p, c) - e
  BY <1>5, WrapIndex, InuseTake
<1>7. InuseExact(p, Wrap(c + e), lg, u)
  BY <1>2, <1>3, <1>6 DEF InuseExact
<1>8. ASSUME NEW id \in u + 1 .. Len(lg)
      PROVE  MessageAt(b, Wrap(Wrap(c + e) + (Start(lg, id) - Start(lg, u + 1))), id,
                       lg[id].len)
  <2>1. id \in t + 1 .. Len(lg) /\ id \in Nat \ {0}
    BY <1>2
  <2>2. Start(lg, id) \in Nat /\ Start(lg, u + 1) <= Start(lg, id)
    BY <1>1, <1>2, <2>1, StartNat, StartMono
  <2>3. (Start(lg, id) - Start(lg, t + 1)) + lg[id].len <= Inuse(p, c)
        /\ lg[id].len \in Nat /\ Start(lg, id) - Start(lg, t + 1) \in Nat
    BY <1>1, <2>1, Inside
  <2>4. Wrap(Wrap(c + e) + (Start(lg, id) - Start(lg, u + 1)))
            = Wrap(c + (Start(lg, id) - Start(lg, t + 1)))
    <3>1. Start(lg, id) - Start(lg, u + 1) \in Nat
      BY <1>3, <2>2
    <3>2. e + (Start(lg, id) - Start(lg, u + 1)) = Start(lg, id) - Start(lg, t + 1)
      BY <1>3, <2>2
    <3>3. e + (Start(lg, id) - Start(lg, u + 1)) <= Size
      <4>1. Start(lg, id) - Start(lg, t + 1) <= Size
        <5> DEFINE g == Start(lg, id) - Start(lg, t + 1)
        <5> HIDE DEF g
        <5>1. g + lg[id].len <= Inuse(p, c) /\ g \in Nat /\ lg[id].len \in Nat
          BY <2>3 DEF g
        <5>2. g <= Size
          BY SMTT(20), <1>2, <5>1 DEF Index
        <5> QED BY <5>2 DEF g
      <4> QED BY <3>2, <4>1
    <3> DEFINE f == Start(lg, id) - Start(lg, u + 1)
    <3>4. f \in Nat /\ e \in Nat /\ e + f <= Size
      BY <1>5, <3>1, <3>3
    <3>5. e + f = Start(lg, id) - Start(lg, t + 1)
      BY <3>2
    <3> HIDE DEF e, f
    <3>6. Wrap(Wrap(c + e) + f) = Wrap(c + (e + f))
      BY <3>4, WrapAdd
    <3> QED BY <3>5, <3>6 DEF f
  <2> QED BY <1>1, <2>1, <2>4 DEF MessagesWhole
<1> QED BY <1>1, <1>5, <1>7, <1>8 DEF Framed, MessagesWhole

\* In a framed ring *_next_msg_len finds a message exactly when there is one;
\* it is the oldest, its length is right, and it is delivered whole.
LEMMA HeadFound ==
    ASSUME NEW b, NEW p \in Index, NEW c \in Index, NEW lg \in Seq(Entry),
           NEW t \in Nat, Framed(b, p, c, lg, t)
    PROVE  /\ HasMessage(b, p, c) <=> t < Len(lg)
           /\ ~ HasMessage(b, p, c) => Inuse(p, c) = 0 /\ t = Len(lg)
           /\ t < Len(lg) =>
                /\ LenAt(b, c) = lg[t + 1].len
                /\ MessageAt(b, c, t + 1, lg[t + 1].len)
                /\ Delivered(b, c, lg[t + 1].len) = t + 1
                /\ Start(lg, t + 2) - Start(lg, t + 1) = lg[t + 1].len
<1>1. LogExact(lg) /\ InuseExact(p, c, lg, t) /\ MessagesWhole(b, c, lg, t)
  BY DEF Framed
<1>2. /\ Len(lg) \in Nat /\ Total(lg) \in Nat /\ Inuse(p, c) \in Index
      /\ Inuse(p, c) = Total(lg) - Start(lg, t + 1) /\ t <= Len(lg)
  BY <1>1, TotalNat, InuseIndex DEF InuseExact
<1>3. ASSUME t = Len(lg) PROVE Inuse(p, c) = 0 /\ ~ HasMessage(b, p, c)
  <2>1. Start(lg, t + 1) = Total(lg)
    BY <1>2, <1>3 DEF Start
  <2> QED BY <1>2, <2>1 DEF HasMessage
<1>4. ASSUME t < Len(lg)
      PROVE  /\ HasMessage(b, p, c)
             /\ LenAt(b, c) = lg[t + 1].len
             /\ MessageAt(b, c, t + 1, lg[t + 1].len)
             /\ Delivered(b, c, lg[t + 1].len) = t + 1
             /\ Start(lg, t + 2) - Start(lg, t + 1) = lg[t + 1].len
  <2> DEFINE n == lg[t + 1].len
  <2>1. t + 1 \in t + 1 .. Len(lg) /\ t + 1 \in 1 .. Len(lg)
    BY <1>2, <1>4
  <2>2. n \in Nat /\ n >= HdrLen /\ lg[t + 1].at \in Nat
    BY <1>1, <2>1, Inside, EntryNat
  <2>3. Start(lg, t + 1) = lg[t + 1].at /\ Start(lg, t + 2) = lg[t + 1].at + n
    BY <1>2, <2>1 DEF Start, LogExact, Framed
  <2>4. Wrap(c + (Start(lg, t + 1) - Start(lg, t + 1))) = c
    BY <2>2, <2>3 DEF Wrap, Index
  <2>5. MessageAt(b, c, t + 1, n)
    BY <1>1, <2>1, <2>4 DEF MessagesWhole
  <2>6. Inuse(p, c) >= HdrLen
    <3>1. (Start(lg, t + 1) - Start(lg, t + 1)) + n <= Inuse(p, c)
      BY <1>1, <2>1, Inside
    <3>2. n <= Inuse(p, c)
      BY <1>2, <2>2, <2>3, <3>1 DEF Index
    <3> HIDE DEF n
    <3> QED BY <1>2, <2>2, <3>2 DEF Index
  <2> HIDE DEF n
  <2>7. \A k \in 0 .. n - 1 : b[Wrap(c + k)] = Word(t + 1, n, k)
    BY <2>5 DEF MessageAt
  <2>8. b[c] = Word(t + 1, n, 0) /\ LenAt(b, c) = n
    <3>1. 0 \in 0 .. n - 1 /\ MagicLen \in 0 .. n - 1 /\ Wrap(c + 0) = c
      BY <2>2 DEF Wrap, Index
    <3>2. b[Wrap(c + 0)] = Word(t + 1, n, 0)
          /\ b[Wrap(c + MagicLen)] = Word(t + 1, n, MagicLen)
      BY <2>7, <3>1
    <3> QED BY <3>1, <3>2 DEF LenAt, Word
  <2>9. MagicAt(b, c)
    <3> SUFFICES ASSUME NEW k \in 0 .. MagicLen - 1 PROVE b[Wrap(c + k)].off = k
      BY DEF MagicAt
    <3>1. k \in 0 .. n - 1
      BY <2>2
    <3>2. b[Wrap(c + k)] = Word(t + 1, n, k)
      BY <2>7, <3>1
    <3> QED BY <3>2 DEF Word
  <2>10. Delivered(b, c, n) = t + 1
    <3>1. b[c].id = t + 1
      BY <2>8 DEF Word
    <3> QED BY <2>5, <3>1 DEF Delivered, n
  <2>11. Start(lg, t + 2) - Start(lg, t + 1) = n
    BY <2>2, <2>3
  <2> QED BY <2>5, <2>6, <2>8, <2>9, <2>10, <2>11 DEF HasMessage, n
<1> QED BY <1>2, <1>3, <1>4
=============================================================================
