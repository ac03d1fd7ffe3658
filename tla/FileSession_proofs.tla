--------------------------- MODULE FileSession_proofs ---------------------------
(***************************************************************************)
(* What the program is told of its file calls, for every menu of requests, *)
(* every number of calls and faults, and rings of every size.              *)
(*                                                                         *)
(* The argument is about what is on its way, wherever it is: the commands  *)
(* that the server has not finished, and the answers that the library has  *)
(* not taken yet. A call that times out leaves both behind, so they may be *)
(* of any earlier call.                                                    *)
(***************************************************************************)
EXTENDS FileSession, SequenceTheorems, TLAPS

-------------------------------------------------------------------------------
(* Types.                                                                  *)

Ops == {"open", "close", "read", "write", "seek", "delete", "rename", "create",
        "set", "path"}
Modes == {"read", "write", "create", "trunc"}
Items == Int \X Int \X Int
Ids == (1 .. MaxCalls) \X {1, 2}
Statuses == Success \cup HostErrors

Requests == [lead : BOOLEAN, op : Ops, tag : Nat, id : Ids, h : Int,
             name : Names, to : Names, mode : SUBSET Modes, n : Nat,
             data : Seq(Items), total : Nat]
Replies == [lead : BOOLEAN, tag : Nat, id : Ids, status : Statuses,
            h : Int, ino : Nat, total : Nat, data : Seq(Items)]
Clients == [pc : {"idle", "send", "wait", "more"}, op : Ops \cup {"none"},
            id : Nat, tag : Nat, h : Int, name : Names, to : Names,
            mode : SUBSET Modes, n : Nat, parts : Seq(Nat \ {0}), part : {1, 2},
            todo : Seq(Requests), want : Int, got : Seq(Items)]
Results == [op : Ops \cup {"none"}, id : Nat, parts : Nat,
            status : Statuses \cup {"BADLEN", "NODATA", "GAVEUP", "UNAVAIL"},
            data : Seq(Items), n : Nat, ino : Nat, exp : Int, mine : BOOLEAN]
Opens == [ino : Nat, pos : Nat, mode : SUBSET Modes,
          type : {"file", "unknown", "volume"}]
Faults == {"repeated", "refused", "dropped", "restart", "reboot"}

ClientType ==
    /\ client \in Clients /\ tag \in Nat /\ active \in BOOLEAN
    /\ held \in [DOMAIN held -> [ino : Nat, exp : Int]] /\ DOMAIN held \subseteq Int
    /\ calls \in 0 .. MaxCalls /\ result \in Results

\* The server works on a request while it answers, collects or starts again.
Working == host.pc \in {"reply", "collect", "again"}
Replying == host.pc = "reply"

HostType ==
    /\ host.pc \in {"idle", "reply", "collect", "again", "down", "flush"}
    /\ host = [pc |-> host.pc, job |-> host.job, out |-> host.out,
               retry |-> host.retry, buf |-> host.buf]
    /\ host.retry \in {0, 1} /\ host.buf \in Seq(Items) /\ host.out \in Seq(Replies)
    /\ Working => host.job \in Requests
    /\ Replying => host.out # <<>>

DiskType ==
    /\ unique \in Nat /\ DOMAIN table \subseteq 1 .. unique
    /\ table \in [DOMAIN table -> Opens]
    /\ dir \in [Names -> 0 .. Len(content)] /\ content \in Seq(Seq(Items))
    /\ \A h \in DOMAIN table : /\ table[h].ino <= Len(content)
                               /\ table[h].mode # {} => table[h].ino # 0
    /\ effects \in [Ids -> 0 .. 2]

\* Data is collected for an open file.
CollectType == host.pc = "collect" =>
    host.job.op = "write" /\ host.job.h \in DOMAIN table /\ "write" \in table[host.job.h].mode

TypeOK ==
    /\ ClientType /\ HostType /\ DiskType /\ CollectType
    /\ svc \in BOOLEAN /\ atou \in Seq(Requests) /\ utoa \in Seq(Replies)
    /\ trouble \in Nat /\ events \subseteq Faults

-------------------------------------------------------------------------------
(* The inductive invariant.                                                *)

\* What the server has still to do, and the answers still to be taken.
Commands == ToSet(atou) \cup (IF Working THEN {host.job} ELSE {})
Answers == ToSet(utoa) \cup (IF Replying THEN ToSet(host.out) ELSE {})

\* The request of the call in progress.
Current == <<client.id, client.part>>
Calling == client.pc # "idle"

\* The call in progress is the last one made, and the messages that wait to be
\* sent are those of its part and carry its data.
CurrentCall ==
    /\ client.id = calls /\ calls # 0 /\ client.op \in Ops /\ result = NoResult
    /\ client.part = 1 \/ (client.op = "write" /\ Len(client.parts) = 2)
    /\ client.op = "write" =>
         /\ Len(client.parts) \in {1, 2}
         /\ Len(client.parts) = 2 => client.parts[1] = 1
    /\ client.pc = "more" => client.op = "read"
Carries(m) ==
    /\ m.n = client.n
    /\ m.op = "write" => Len(m.data) = 1 /\ m.total = client.parts[client.part]
TodoInv == \A i \in DOMAIN client.todo :
    LET m == client.todo[i]
    IN /\ m.op = client.op /\ m.tag = client.tag /\ m.id = Current /\ Carries(m)
       /\ m.lead => i = 1 /\ m.h = client.h
       /\ ~m.lead => m.op = "write" /\ m.h = Garbage
Follows(m) == ~m.lead => m.op = "write" /\ m.h = Garbage
CallInv ==
    /\ ~Calling => client = NoCall
    /\ Calling => CurrentCall
    /\ client.pc = "send" <=> client.todo # <<>>
    /\ TodoInv
    /\ \A m \in ToSet(atou) : Follows(m)
    /\ result = NoResult \/ (result.op # "none" /\ result.id = calls)

\* What is on its way belongs to a call that was made. A tag stands for one
\* call, and what bears that of the call in progress belongs to it, until a new
\* program begins with tags of its own.
Fresh(x) == x.tag < tag /\ (Calling /\ x.tag = client.tag => x.id[1] = client.id)
TagInv ==
    /\ \A x \in Commands \cup Answers : x.id[1] <= calls
    /\ Without({"reboot"}) =>
         /\ Calling => client.tag < tag
         /\ \A x \in Commands \cup Answers : Fresh(x)
         /\ \A m \in Commands : Calling /\ m.tag = client.tag => m.op = client.op
         /\ \A r \in Answers : Calling /\ r.tag = client.tag /\ r.status = "EOF"
                                  => client.op = "read"

\* A close that is on its way is for a handle that was given out and that the
\* program does not hold, but for the call in progress.
Closes(m) == m.op = "close" =>
    /\ m.h \in 1 .. unique
    /\ m.h \in DOMAIN held => client.op = "close" /\ client.h = m.h
\* The handle that an answer brings to the call in progress is open, and nobody
\* closes it.
Brings(r) == (client.op = "open" /\ r.tag = client.tag /\ r.status = "OK") =>
    /\ r.h \in DOMAIN table /\ table[r.h].ino = r.ino
    /\ \A m \in Commands : m.op = "close" => m.h # r.h
HandleInv ==
    /\ host.pc \in {"down", "flush"} => "restart" \in events
    /\ Without({"restart", "reboot"}) =>
         /\ DOMAIN held \subseteq 1 .. unique
         /\ client.op = "close" => client.h \in 1 .. unique
         /\ \A m \in Commands : Closes(m)
         /\ \A r \in Answers : Brings(r)

\* As long as no message was sent twice or refused, and no new program has
\* started, a request has had no effect and no answer while its first message
\* is on its way, which is then in one place.
Quiet == Without({"repeated", "refused", "reboot"})
NotYet(id) == /\ effects[id] = 0 /\ (Working => host.job.id # id)
              /\ \A r \in Answers : r.id # id
Sending == client.pc = "send" /\ Head(client.todo).lead
Ordered(q) == \A i, j \in DOMAIN q : i < j /\ q[j].lead => q[i].id # q[j].id
LeadsInv ==
    /\ host.pc # "again"
    /\ Replying => \A r \in ToSet(host.out) : r.id = host.job.id
    /\ \A m \in ToSet(atou) : m.lead => NotYet(m.id)
    /\ Ordered(atou)
    /\ Sending =>
         /\ NotYet(Current)
         /\ \A m \in ToSet(atou) : m.id # Current
    /\ host.pc = "collect" =>
         /\ effects[host.job.id] = 0
         /\ \A r \in Answers : r.id # host.job.id

\* What is on its way for the call in progress is for its present part; other
\* parts have had no effect yet, or theirs.
PartInv ==
    /\ \A id \in Ids : id[1] > calls => effects[id] = 0
    /\ Calling =>
         /\ \A x \in Commands \cup Answers :
               x.id[1] = client.id => x.id[2] = client.part
         /\ \A m \in Commands : m.id[1] = client.id => m.op = client.op
         /\ client.part = 1 => effects[<<client.id, 2>>] = 0
         /\ client.part = 2 /\ "dropped" \notin events => effects[<<client.id, 1>>] = 1

\* The first part of a write in two is one message, and gets one answer.
Halfway == Calling /\ client.op = "write" /\ client.part < Len(client.parts)
Whole(m) == m.lead /\ Len(m.data) = 1 /\ m.total = 1
Once(q, call) == \A i, j \in DOMAIN q :
    q[i].id[1] = call /\ q[j].id[1] = call => i = j
SingleInv == Halfway =>
    /\ \A m \in ToSet(client.todo) : Whole(m)
    /\ \A m \in ToSet(atou) : m.id[1] = client.id => Whole(m)
    /\ host.pc = "collect" => host.job.id[1] # client.id
    /\ Replying /\ host.job.id[1] = client.id =>
         /\ Len(host.out) = 1
         /\ \A r \in ToSet(utoa) : r.id[1] # client.id
    /\ Once(utoa, client.id)

\* An answer tells what was done, and so does what the program was told.
Tells(r) ==
    /\ r.status \in Success /\ "dropped" \notin events => effects[r.id] = 1
    /\ r.status \in HostErrors /\ r.id[1] = client.id /\ client.op # "write" =>
         effects[r.id] = 0
Parts(res) == 1 .. IF res.op = "write" THEN res.parts ELSE 1
Meaning == result.status \in Success \/ (result.status \in HostErrors /\ result.op # "write")
Told ==
    (result.op # "none" /\ Meaning) => \A p \in Parts(result) :
        LET id == <<result.id, p>>
        IN /\ id \in Ids
           /\ result.status \in Success /\ "dropped" \notin events => effects[id] = 1
           /\ result.status \in HostErrors => effects[id] = 0
           /\ host.pc = "collect" => host.job.id # id
           /\ \A m \in ToSet(atou) : m.lead => m.id # id
TellsInv == result.mine /\ (\A r \in Answers : Tells(r)) /\ Told

QuietInv == Quiet => LeadsInv /\ PartInv /\ SingleInv /\ TellsInv

\* Where the handles stand: as long as nothing was lost on the server either.
Smooth == Without({"repeated", "refused", "dropped", "restart", "reboot"})

\* The last call's messages come last. Once it has been carried out, no first
\* message of a request is on its way; and when it is a read, no message at all.
Settled == (\A m \in ToSet(atou) : ~m.lead) /\ host.pc # "collect"
OrderInv ==
    /\ \A i, j \in DOMAIN atou :
          i < j /\ atou[i].id[1] = calls => ~atou[j].lead /\ atou[i].op = "write"
    /\ Working /\ host.job.id[1] = calls =>
         /\ \A m \in ToSet(atou) : ~m.lead
         /\ atou = <<>> \/ host.job.op = "write"
    /\ host.pc = "collect" => host.job.lead
    /\ Calling /\ effects[Current] # 0 =>
         /\ Settled
         /\ client.op = "read" => atou = <<>> /\ (Working => host.job.id = Current)
    /\ result.op # "none" /\ result.status \in Success => Settled

\* A message of a write carries one item. What is to be done for the call in
\* progress is what it asked for.
Pending == ToSet(atou) \cup (IF host.pc = "collect" THEN {host.job} ELSE {})
DataInv ==
    /\ \A m \in ToSet(atou) : m.op = "write" => Len(m.data) = 1
    /\ host.pc = "collect" => Len(host.buf) < host.job.total
    /\ Calling => \A m \in Pending :
         m.id = Current => Carries(m) /\ (m.lead => m.h = client.h)

\* Where a handle of known position stands, as far as the call in progress has
\* been carried out; what moves it otherwise is not on its way.
Moving(m) == m.lead /\ m.op \in {"read", "write", "seek"}
Known(h) == /\ h \in DOMAIN held /\ held[h].exp # Unknown
            /\ ~(client.op = "close" /\ client.h = h)
Done(p) == IF effects[<<client.id, p>>] # 0 THEN client.parts[p] ELSE 0
Stands(h) ==
    LET exp == held[h].exp
        pos == table[h].pos
        done == effects[Current] # 0
    IN /\ ~(Calling /\ client.h = h /\ client.op \in {"read", "write", "seek"}) => pos = exp
       /\ Calling /\ client.h = h =>
            /\ client.op \in {"read", "seek"} /\ ~done => pos = exp
            /\ client.op = "write" => pos = exp + Done(1) + Done(2)
PosInv ==
    /\ \A h \in DOMAIN held : Known(h) =>
         /\ held[h].exp \in Nat /\ Stands(h)
         /\ \A m \in Pending : Moving(m) /\ m.h = h => Calling /\ m.id = Current
    /\ client.op = "seek" /\ client.h \in DOMAIN held /\ effects[Current] # 0 =>
         table[client.h].pos = 0
    /\ client.op = "open" =>
         \A r \in Answers : r.id = Current /\ r.status = "OK" => table[r.h].pos = 0

\* A read that was carried out: its answer is on its way, but for what was
\* taken or lost of its beginning. Every message of it carries one item, or the
\* only one none, and has its place.
Reading == client.op = "read" /\ Known(client.h) /\ effects[Current] # 0
Start0 == held[client.h].exp
File0 == content[held[client.h].ino]
Count == table[client.h].pos - Start0
Chunk(r, k, n, all, p) ==
    /\ r.total = n /\ (r.lead <=> k = 1)
    /\ IF n = 0 THEN k = 1 /\ r.data = <<>>
       ELSE k \in 1 .. n /\ r.data = <<all[p + k]>>
Total == IF Count = 0 THEN 1 ELSE Count
PlaceOut(i) == Total - Len(host.out) + i
PlaceIn(i) == Total - Len(host.out) - Len(utoa) + i
Beyond(k) == /\ \A i \in DOMAIN utoa : utoa[i].id = Current => PlaceIn(i) > k
             /\ \A i \in DOMAIN host.out : PlaceOut(i) > k

\* What the library has received: all of it so far, or too little for ever.
Gathered(k) ==
    /\ client.want = Count /\ k # 0
    /\ \/ /\ k <= Count /\ Beyond(k)
          /\ \A i \in 1 .. k : client.got[i] = File0[Start0 + i]
       \/ k < Count /\ Beyond(k + 1)
OnItsWay ==
    /\ Count \in Nat
    /\ Count = client.n \/ table[client.h].pos >= Len(File0)
    /\ \A i \in DOMAIN utoa : utoa[i].id = Current =>
          Chunk(utoa[i], PlaceIn(i), Count, File0, Start0)
    /\ \A i \in DOMAIN host.out : Chunk(host.out[i], PlaceOut(i), Count, File0, Start0)
ReadInv ==
    /\ client.pc = "more" => effects[Current] # 0
    /\ ~Replying => host.out = <<>>
    /\ Reading =>
         /\ OnItsWay
         /\ client.pc = "more" /\ client.want # Garbage => Gathered(Len(client.got))

FollowInv == Smooth => OrderInv /\ DataInv /\ PosInv /\ ReadInv /\ ReadsFollow

IInv == TypeOK /\ CallInv /\ TagInv /\ HandleInv /\ HeldHandlesOpen /\ QuietInv

USE FileAssumption, BoundAssumption

-------------------------------------------------------------------------------
(* Sequences of messages.                                                  *)

LEMMA SeqFacts ==
    ASSUME NEW S, NEW s \in Seq(S)
    PROVE  /\ Len(s) \in Nat /\ DOMAIN s = 1 .. Len(s)
           /\ \A i \in DOMAIN s : s[i] \in S
           /\ ToSet(s) \subseteq S
           /\ s = <<>> <=> Len(s) = 0
<1>1. Len(s) \in Nat /\ DOMAIN s = 1 .. Len(s) /\ \A i \in DOMAIN s : s[i] \in S
  BY LenProperties, ElementOfSeq
<1>2. ToSet(s) \subseteq S
  BY <1>1 DEF ToSet
<1>3. s = <<>> <=> Len(s) = 0
  BY EmptySeq
<1> QED BY <1>1, <1>2, <1>3

LEMMA NoElements == ToSet(<<>>) = {} /\ \A S : <<>> \in Seq(S)
BY DEF ToSet

LEMMA TailFacts ==
    ASSUME NEW S, NEW s \in Seq(S), s # <<>>
    PROVE  /\ Head(s) \in S /\ Tail(s) \in Seq(S)
           /\ 1 \in DOMAIN s /\ Head(s) = s[1]
           /\ Len(Tail(s)) = Len(s) - 1
           /\ \A i \in DOMAIN Tail(s) : i + 1 \in DOMAIN s /\ Tail(s)[i] = s[i + 1]
           /\ Head(s) \in ToSet(s)
           /\ ToSet(Tail(s)) \subseteq ToSet(s)
<1>1. /\ Head(s) \in S /\ Tail(s) \in Seq(S) /\ Len(Tail(s)) = Len(s) - 1
      /\ \A i \in 1 .. Len(Tail(s)) : Tail(s)[i] = s[i + 1]
  BY HeadTailProperties
<1>2. Len(s) \in Nat \ {0} /\ DOMAIN s = 1 .. Len(s) /\ DOMAIN Tail(s) = 1 .. Len(Tail(s))
  BY <1>1, SeqFacts
<1>3. Head(s) = s[1] /\ 1 \in DOMAIN s
  BY <1>2
<1>4. \A i \in DOMAIN Tail(s) : i + 1 \in DOMAIN s /\ Tail(s)[i] = s[i + 1]
  BY <1>1, <1>2
<1>5. Head(s) \in ToSet(s) /\ ToSet(Tail(s)) \subseteq ToSet(s)
  BY <1>3, <1>4 DEF ToSet
<1> QED BY <1>1, <1>3, <1>4, <1>5

LEMMA AppendFacts ==
    ASSUME NEW S, NEW s \in Seq(S), NEW x \in S
    PROVE  /\ Append(s, x) \in Seq(S) /\ ToSet(Append(s, x)) = ToSet(s) \cup {x}
           /\ DOMAIN Append(s, x) = 1 .. Len(s) + 1
           /\ Append(s, x)[Len(s) + 1] = x
           /\ \A i \in DOMAIN s : Append(s, x)[i] = s[i]
<1>1. Len(s) \in Nat /\ DOMAIN s = 1 .. Len(s)
  BY SeqFacts
<1>2. /\ Append(s, x) \in Seq(S) /\ DOMAIN Append(s, x) = 1 .. Len(s) + 1
      /\ Append(s, x)[Len(s) + 1] = x
      /\ \A i \in DOMAIN s : Append(s, x)[i] = s[i]
  BY <1>1
<1>3. \A y : y \in ToSet(Append(s, x)) <=> y \in ToSet(s) \cup {x}
  BY <1>1, <1>2 DEF ToSet
<1> QED BY <1>2, <1>3

LEMMA TwiceFacts ==
    ASSUME NEW S, NEW s \in Seq(S), NEW x \in S
    PROVE  s \o <<x, x>> \in Seq(S) /\ ToSet(s \o <<x, x>>) = ToSet(s) \cup {x}
<1>1. Len(s) \in Nat /\ DOMAIN s = 1 .. Len(s)
  BY SeqFacts
<1>2. /\ <<x, x>> \in Seq(S) /\ Len(<<x, x>>) = 2
      /\ <<x, x>>[1] = x /\ <<x, x>>[2] = x
  OBVIOUS
<1>3. /\ s \o <<x, x>> \in Seq(S) /\ DOMAIN (s \o <<x, x>>) = 1 .. Len(s) + 2
      /\ \A i \in 1 .. Len(s) + 2 :
            (s \o <<x, x>>)[i] = IF i <= Len(s) THEN s[i] ELSE <<x, x>>[i - Len(s)]
  <2>1. /\ s \o <<x, x>> \in Seq(S) /\ Len(s \o <<x, x>>) = Len(s) + 2
        /\ \A i \in 1 .. Len(s) + 2 :
             (s \o <<x, x>>)[i] = IF i <= Len(s) THEN s[i] ELSE <<x, x>>[i - Len(s)]
    BY <1>2, ConcatProperties
  <2> QED BY <2>1, SeqFacts
<1>4. \A i \in 1 .. Len(s) + 2 : i \in DOMAIN s \/ i = Len(s) + 1 \/ i = Len(s) + 2
  BY <1>1
<1>5. \A i \in 1 .. Len(s) + 2 :
         (s \o <<x, x>>)[i] = IF i \in DOMAIN s THEN s[i] ELSE x
  BY <1>1, <1>2, <1>3, <1>4
<1>6. Len(s) + 1 \in 1 .. Len(s) + 2 /\ Len(s) + 1 \notin DOMAIN s
      /\ DOMAIN s \subseteq 1 .. Len(s) + 2
  BY <1>1
<1>7. \A y : y \in ToSet(s \o <<x, x>>) <=> y \in ToSet(s) \cup {x}
  BY <1>3, <1>5, <1>6 DEF ToSet
<1> QED BY <1>3, <1>7

\* The answer to a request in its messages.
LEMMA ChunksFacts ==
    ASSUME NEW m \in Requests, NEW st \in Statuses, NEW h \in Int, NEW ino \in Nat,
           NEW data \in Seq(Items)
    PROVE  /\ Chunks(m, st, h, ino, data) \in Seq(Replies)
           /\ Chunks(m, st, h, ino, data) # <<>>
           /\ \A r \in ToSet(Chunks(m, st, h, ino, data)) :
                 r.id = m.id /\ r.tag = m.tag /\ r.status = st /\ r.h = h /\ r.ino = ino
           /\ Len(Chunks(m, st, h, ino, data)) = IF data = <<>> THEN 1 ELSE Len(data)
<1> DEFINE n == IF data = <<>> THEN 1 ELSE Len(data)
           out == Chunks(m, st, h, ino, data)
           r(i) == [lead |-> i = 1, tag |-> m.tag, id |-> m.id, status |-> st,
                    h |-> h, ino |-> ino, total |-> Len(data),
                    data |-> IF data = <<>> THEN <<>> ELSE <<data[i]>>]
<1>1. n \in Nat \ {0} /\ (data = <<>> => n = 1) /\ Len(data) \in Nat
  BY SeqFacts
<1>2. out = [i \in 1 .. n |-> r(i)]
  BY DEF Chunks
<1>3. m.tag \in Nat /\ m.id \in Ids
  BY DEF Requests
<1>4. ASSUME NEW i \in 1 .. n
      PROVE  r(i) \in Replies
  <2>1. (IF data = <<>> THEN <<>> ELSE <<data[i]>>) \in Seq(Items)
    <3>1. CASE data = <<>>
      BY <3>1
    <3>2. CASE data # <<>>
      <4>1. data[i] \in Items
        BY <3>2, SeqFacts
      <4> QED BY <3>2, <4>1
    <3> QED BY <3>1, <3>2
  <2> HIDE DEF n
  <2> QED BY <1>1, <1>3, <2>1 DEF Replies
<1>5. out \in [1 .. n -> Replies] /\ DOMAIN out = 1 .. n
  <2> HIDE DEF n, r
  <2> QED BY <1>2, <1>4
<1>6. out \in Seq(Replies) /\ Len(out) = n
  <2> HIDE DEF n, r, out
  <2> QED BY <1>1, <1>5
<1>7. ASSUME NEW x \in ToSet(out)
      PROVE  x.id = m.id /\ x.tag = m.tag /\ x.status = st /\ x.h = h /\ x.ino = ino
  <2>1. PICK i \in 1 .. n : x = out[i]
    BY <1>5 DEF ToSet
  <2>2. x = r(i)
    BY <2>1, <1>2
  <2> QED BY <2>2
<1>8. out # <<>>
  BY <1>1, <1>6, SeqFacts
<1> QED BY <1>1, <1>6, <1>7, <1>8

-------------------------------------------------------------------------------
(* What the server does with a request.                                    *)

Bump(n) == IF n < 2 THEN n + 1 ELSE 2

\* Request m is answered with status st, handle h and file ino.
Replied(m, st, h, ino) ==
    /\ HostType' /\ host'.pc = "reply"
    /\ host'.job.id = m.id /\ host'.job.tag = m.tag /\ host'.job.op = m.op
    /\ m.op = "close" => host'.job.h = m.h
    /\ \A r \in ToSet(host'.out) : r.id = m.id /\ r.tag = m.tag /\ r.status = st
                                   /\ r.h = h /\ r.ino = ino
    /\ st = "EOF" => m.op = "read"
    /\ m.op # "read" => Len(host'.out) = 1

\* No other request takes effect, and no other handle is closed or moves to
\* another file.
Moves(m) ==
    /\ DiskType'
    /\ unique' \in {unique, unique + 1}
    /\ \A k \in DOMAIN table :
          (m.op = "close" /\ k = m.h) \/ (k \in DOMAIN table' /\ table'[k].ino = table[k].ino)
    /\ \A id \in Ids : id # m.id => effects'[id] = effects[id]

\* The request is carried out or rejected, and answered accordingly, unless
\* what was written is lost.
Served(m, st, h, ino) ==
    /\ Replied(m, st, h, ino) /\ Moves(m)
    /\ st \in Success => effects'[m.id] = Bump(effects[m.id]) \/ "dropped" \in events'
    /\ st \in HostErrors => effects' = effects
    /\ m.op = "open" /\ st = "OK" =>
         /\ h = unique + 1 /\ unique' = unique + 1
         /\ h \in DOMAIN table' /\ table'[h].ino = ino
    /\ m.op = "write" /\ m.h \notin DOMAIN table => st \in HostErrors

LEMMA JobFacts ==
    ASSUME NEW m \in Requests, NEW h \in Int, NEW mode \in SUBSET Modes
    PROVE  /\ [m EXCEPT !.h = h] \in Requests
           /\ [m EXCEPT !.h = h, !.mode = mode] \in Requests
           /\ \A j \in {[m EXCEPT !.h = h], [m EXCEPT !.h = h, !.mode = mode]} :
                j.id = m.id /\ j.tag = m.tag /\ j.op = m.op
BY DEF Requests

LEMMA RequestType ==
    ASSUME NEW m \in Requests
    PROVE  /\ m.tag \in Nat /\ m.id \in Ids /\ m.h \in Int /\ m.name \in Names
           /\ m.to \in Names /\ m.mode \in SUBSET Modes /\ m.n \in Nat /\ m.op \in Ops
           /\ m.data \in Seq(Items) /\ m.total \in Nat /\ m.lead \in BOOLEAN
BY DEF Requests

\* Every answer of the server is made by Reply, from the request it works on or
\* from one that differs from it in the handle and the mode only.
LEMMA ReplyReplied ==
    ASSUME NEW m \in Requests, NEW j \in Requests, NEW retry \in {0, 1},
           NEW st \in Statuses, NEW h \in Int, NEW ino \in Nat, NEW data \in Seq(Items),
           j.id = m.id, j.tag = m.tag, j.op = m.op, m.op = "close" => j.h = m.h,
           st = "EOF" \/ data # <<>> => m.op = "read",
           Reply(j, retry, st, h, ino, data)
    PROVE  Replied(m, st, h, ino)
<1> DEFINE out == Chunks(j, st, h, ino, data)
<1>1. /\ out \in Seq(Replies) /\ out # <<>>
      /\ \A r \in ToSet(out) :
            r.id = j.id /\ r.tag = j.tag /\ r.status = st /\ r.h = h /\ r.ino = ino
      /\ Len(out) = IF data = <<>> THEN 1 ELSE Len(data)
  BY ChunksFacts
<1>2. host' = [pc |-> "reply", job |-> j, retry |-> retry, buf |-> <<>>, out |-> out]
  BY DEF Reply
<1> HIDE DEF out
<1>3. /\ host'.pc = "reply" /\ host'.job = j /\ host'.retry = retry
      /\ host'.buf = <<>> /\ host'.out = out
  BY <1>2
<1>4. HostType'
  <2>1. host' = [pc |-> host'.pc, job |-> host'.job, out |-> host'.out,
                 retry |-> host'.retry, buf |-> host'.buf]
    BY <1>2
  <2> QED BY <1>1, <1>3, <2>1, NoElements DEF HostType, Working, Replying
<1> QED BY <1>1, <1>3, <1>4 DEF Replied

\* A request that is not carried out.
LEMMA NotDone ==
    ASSUME TypeOK, UNCHANGED diskVars, NEW m \in Requests
    PROVE  Moves(m) /\ effects' = effects
<1>1. table' = table /\ unique' = unique /\ dir' = dir /\ content' = content
      /\ effects' = effects
  BY DEF diskVars
<1>2. DiskType'
  BY <1>1 DEF TypeOK, DiskType
<1> QED BY <1>1, <1>2 DEF Moves

LEMMA Rejects ==
    ASSUME TypeOK, UNCHANGED diskVars, NEW m \in Requests, NEW retry \in {0, 1},
           NEW st \in HostErrors,
           Answered(m, retry, st) \/ (m.op # "close" /\ Rejected(m, retry, st))
    PROVE  \E h \in Int : Served(m, st, h, 0)
<1>1. Moves(m) /\ effects' = effects
  BY NotDone
<1>2. \E h \in Int : Replied(m, st, h, 0)
  <2>0. st \in Statuses /\ st # "EOF" /\ m.h \in Int /\ NoParent \in Int /\ <<>> \in Seq(Items)
    BY RequestType, NoElements DEF Statuses, HostErrors, NoParent
  <2>1. CASE Answered(m, retry, st)
    <3>1. Reply(m, retry, st, m.h, 0, <<>>)
      BY <2>1 DEF Answered
    <3> QED BY <2>0, <3>1, ReplyReplied
  <2>2. CASE m.op # "close" /\ Rejected(m, retry, st)
    <3> DEFINE j == [m EXCEPT !.h = NoParent]
    <3>1. Reply(j, retry, st, j.h, 0, <<>>)
      BY <2>2 DEF Rejected, Answered
    <3>2. j \in Requests /\ j.id = m.id /\ j.tag = m.tag /\ j.op = m.op
      BY <2>0, JobFacts
    <3>3. j.h \in Int
      BY <3>2, RequestType
    <3> HIDE DEF j
    <3> QED BY <2>0, <2>2, <3>1, <3>2, <3>3, ReplyReplied
  <2> QED BY <2>1, <2>2
<1>3. st \notin Success /\ st # "OK"
  BY DEF HostErrors, Success
<1> QED BY <1>1, <1>2, <1>3 DEF Served

\* A request whose answer says that it was carried out, and nothing else.
LEMMA Accepts ==
    ASSUME TypeOK, NEW m \in Requests, NEW retry \in {0, 1}, m.op # "open",
           m.op = "write" => m.h \in DOMAIN table, Answered(m, retry, "OK"), Moves(m),
           effects'[m.id] = Bump(effects[m.id]) \/ "dropped" \in events'
    PROVE  \E h \in Int : Served(m, "OK", h, 0)
<1>1. m.h \in Int /\ "OK" \in Statuses /\ <<>> \in Seq(Items) /\ 0 \in Nat
  BY RequestType, NoElements DEF Statuses, Success
<1>2. Reply(m, retry, "OK", m.h, 0, <<>>)
  BY DEF Answered
<1>3. Replied(m, "OK", m.h, 0)
  BY <1>1, <1>2, ReplyReplied
<1>4. "OK" \notin HostErrors
  BY DEF HostErrors
<1>5. Served(m, "OK", m.h, 0)
  BY <1>3, <1>4 DEF Served
<1> QED BY <1>1, <1>5

LEMMA EffectFacts ==
    ASSUME TypeOK, NEW m \in Requests, Effect(m)
    PROVE  /\ effects' \in [Ids -> 0 .. 2]
           /\ effects'[m.id] = Bump(effects[m.id])
           /\ \A id \in Ids : id # m.id => effects'[id] = effects[id]
<1>1. effects \in [Ids -> 0 .. 2] /\ m.id \in Ids
  BY RequestType DEF TypeOK, DiskType
<1>2. effects' = [effects EXCEPT ![m.id] = Bump(effects[m.id])]
  BY DEF Effect, Bump
<1>3. effects[m.id] \in 0 .. 2 /\ Bump(effects[m.id]) \in 0 .. 2
  BY <1>1 DEF Bump
<1> QED BY <1>1, <1>2, <1>3

\* A file position changes.
LEMMA PosFacts ==
    ASSUME TypeOK, NEW h \in DOMAIN table, NEW p \in Nat,
           table' = [table EXCEPT ![h].pos = p]
    PROVE  /\ DOMAIN table' = DOMAIN table /\ table' \in [DOMAIN table' -> Opens]
           /\ \A k \in DOMAIN table : table'[k].ino = table[k].ino
                                      /\ table'[k].mode = table[k].mode
<1>1. table \in [DOMAIN table -> Opens]
  BY DEF TypeOK, DiskType
<1>2. table' = [table EXCEPT ![h] = [table[h] EXCEPT !.pos = p]]
  OBVIOUS
<1>3. table[h] \in Opens
  BY <1>1
<1>4. /\ [table[h] EXCEPT !.pos = p] \in Opens
      /\ [table[h] EXCEPT !.pos = p].ino = table[h].ino
      /\ [table[h] EXCEPT !.pos = p].mode = table[h].mode
  BY <1>3 DEF Opens
<1>5. /\ DOMAIN table' = DOMAIN table
      /\ \A k \in DOMAIN table :
            table'[k] = IF k = h THEN [table[h] EXCEPT !.pos = p] ELSE table[k]
  BY <1>1, <1>2
<1>6. \A k \in DOMAIN table : table'[k] \in Opens
  BY <1>1, <1>4, <1>5
<1>7. table' \in [DOMAIN table' -> Opens]
  <2>1. table' = [k \in DOMAIN table |-> table'[k]]
    BY <1>1, <1>2
  <2> QED BY <1>5, <1>6, <2>1
<1> QED BY <1>4, <1>5, <1>7

\* The handlers, one by one.
Serves(m) == \E st \in Statuses, h \in Int, ino \in Nat : Served(m, st, h, ino)

LEMMA RejectsAs ==
    ASSUME TypeOK, UNCHANGED diskVars, NEW m \in Requests, NEW retry \in {0, 1},
           NEW st \in HostErrors,
           Answered(m, retry, st) \/ (m.op # "close" /\ Rejected(m, retry, st))
    PROVE  Serves(m)
<1>1. PICK h \in Int : Served(m, st, h, 0)
  BY Rejects
<1>2. st \in Statuses /\ 0 \in Nat
  BY DEF Statuses
<1> QED BY <1>1, <1>2 DEF Serves

LEMMA AcceptsAs ==
    ASSUME TypeOK, NEW m \in Requests, NEW retry \in {0, 1}, m.op # "open",
           m.op = "write" => m.h \in DOMAIN table, Answered(m, retry, "OK"), Moves(m),
           effects'[m.id] = Bump(effects[m.id]) \/ "dropped" \in events'
    PROVE  Serves(m)
<1>1. PICK h \in Int : Served(m, "OK", h, 0)
  BY Accepts
<1>2. "OK" \in Statuses /\ 0 \in Nat
  BY DEF Statuses, Success
<1> QED BY <1>1, <1>2 DEF Serves

\* An effect without a change of the handles' files.
LEMMA EffectMoves ==
    ASSUME TypeOK, NEW m \in Requests, Effect(m), unique' = unique,
           DOMAIN table' = DOMAIN table, table' \in [DOMAIN table' -> Opens],
           \A k \in DOMAIN table : table'[k].ino = table[k].ino
                                   /\ table'[k].mode = table[k].mode,
           content' \in Seq(Seq(Items)), Len(content') >= Len(content),
           dir' \in [Names -> 0 .. Len(content')]
    PROVE  Moves(m)
<1>1. DiskType
  BY DEF TypeOK
<1>2. Len(content) \in Nat /\ Len(content') \in Nat
  BY <1>1 DEF DiskType
<1>3. ASSUME NEW k \in DOMAIN table'
      PROVE  table'[k].ino <= Len(content') /\ (table'[k].mode # {} => table'[k].ino # 0)
  <2>1. table[k].ino \in Nat /\ table[k].ino <= Len(content)
        /\ (table[k].mode # {} => table[k].ino # 0)
    BY <1>1 DEF DiskType, Opens
  <2>2. \A i, a, b \in Nat : i <= a /\ b >= a => i <= b
    OBVIOUS
  <2>3. table'[k].ino = table[k].ino /\ table'[k].mode = table[k].mode
    OBVIOUS
  <2> QED BY <1>2, <2>1, <2>2, <2>3
<1>4. /\ effects' \in [Ids -> 0 .. 2]
      /\ \A id \in Ids : id # m.id => effects'[id] = effects[id]
  BY EffectFacts
<1>5. DiskType'
  BY <1>1, <1>3, <1>4 DEF DiskType
<1> QED BY <1>4, <1>5 DEF Moves

LEMMA OpenServes ==
    ASSUME TypeOK, NEW m \in Requests, NEW retry \in {0, 1}, m.op = "open",
           do_fopen(m, retry)
    PROVE  Serves(m)
<1> DEFINE f == dir[m.name]
           created == f = 0 /\ "create" \in m.mode
           type == IF "read" \in m.mode /\ f # 0 THEN "file" ELSE "unknown"
           opened == [m EXCEPT !.h = NextHandle, !.mode = {}]
           g == IF created THEN NewFile ELSE f
<1>1. CASE m.h # Root
  <2>1. Rejected(m, retry, IF m.h = NoParent THEN "NOEXIST" ELSE "FAIL")
        /\ UNCHANGED diskVars
    BY <1>1 DEF do_fopen
  <2>2. (IF m.h = NoParent THEN "NOEXIST" ELSE "FAIL") \in HostErrors
    BY DEF HostErrors
  <2> QED BY <2>1, <2>2, RejectsAs
<1>2. CASE m.h = Root /\ f = 0 /\ ~created
  <2>1. Rejected(m, retry, "NOEXIST") /\ UNCHANGED diskVars
    BY <1>2 DEF do_fopen
  <2>2. "NOEXIST" \in HostErrors
    BY DEF HostErrors
  <2> QED BY <2>1, <2>2, RejectsAs
<1>3. CASE m.h = Root /\ ~ (f = 0 /\ ~created)
  <2>1. /\ HandleNew(g, m.mode, type)
        /\ dir' = [dir EXCEPT ![m.name] = g]
        /\ content' = IF created THEN Append(content, <<>>)
                      ELSE IF "trunc" \in m.mode THEN [content EXCEPT ![g] = <<>>]
                      ELSE content
        /\ Effect(m)
        /\ Reply(opened, retry, "OK", NextHandle, g, <<>>)
    BY <1>3 DEF do_fopen
  <2>2. /\ DiskType /\ unique \in Nat /\ content \in Seq(Seq(Items))
        /\ dir \in [Names -> 0 .. Len(content)] /\ m.name \in Names
        /\ m.mode \in SUBSET Modes /\ Len(content) \in Nat
    BY RequestType DEF TypeOK, DiskType
  <2>3. f \in 0 .. Len(content)
    BY <2>2
  <2>4. /\ content' \in Seq(Seq(Items)) /\ Len(content') >= Len(content)
        /\ g \in Nat /\ g # 0 /\ g <= Len(content') /\ Len(content') \in Nat
    <3>1. CASE created
      <4>1. content' = Append(content, <<>>) /\ g = Len(content) + 1
        BY <2>1, <3>1 DEF NewFile
      <4>2. <<>> \in Seq(Items)
        BY NoElements
      <4> QED BY <2>2, <4>1, <4>2
    <3>2. CASE ~created
      <4>1. g = f /\ f # 0 /\ f \in 1 .. Len(content)
        BY <1>3, <2>3, <3>2
      <4>2. CASE "trunc" \in m.mode
        <5>1. content' = [content EXCEPT ![g] = <<>>]
          BY <2>1, <3>2, <4>2
        <5>2. <<>> \in Seq(Items)
          BY NoElements
        <5>3. content' \in Seq(Seq(Items)) /\ Len(content') = Len(content)
          BY <2>2, <4>1, <5>1, <5>2, ExceptSeq
        <5> QED BY <2>2, <4>1, <5>3
      <4>3. CASE "trunc" \notin m.mode
        <5>1. content' = content
          BY <2>1, <3>2, <4>3
        <5> QED BY <2>2, <4>1, <5>1
      <4> QED BY <4>2, <4>3
    <3> QED BY <3>1, <3>2
  <2>5. dir' \in [Names -> 0 .. Len(content')]
    <3>1. \A x \in Names : dir[x] \in 0 .. Len(content')
      BY <2>2, <2>4
    <3>2. g \in 0 .. Len(content')
      BY <2>4
    <3> HIDE DEF g
    <3> QED BY <2>1, <2>2, <3>1, <3>2
  <2>6. /\ unique' = unique + 1 /\ DOMAIN table' = DOMAIN table \cup {unique + 1}
        /\ \A h \in DOMAIN table' : table'[h] =
              IF h = unique + 1
              THEN [ino |-> g, pos |-> 0, mode |-> m.mode, type |-> type] ELSE table[h]
        /\ table' = [h \in DOMAIN table' |-> table'[h]]
    <3> HIDE DEF g, type
    <3> QED BY <2>1 DEF HandleNew, NextHandle
  <2>7. \A k \in DOMAIN table : k # unique + 1
    BY <2>2 DEF DiskType
  <2>8. [ino |-> g, pos |-> 0, mode |-> m.mode, type |-> type] \in Opens
    <3>1. type \in {"file", "unknown", "volume"}
      OBVIOUS
    <3> HIDE DEF g, type
    <3> QED BY <2>2, <2>4, <3>1 DEF Opens
  <2> HIDE DEF g, type, f, created, opened
  <2>9. table' \in [DOMAIN table' -> Opens]
    <3>1. \A h \in DOMAIN table' : table'[h] \in Opens
      BY <2>2, <2>6, <2>8 DEF DiskType
    <3> QED BY <2>6, <3>1
  <2>10. DOMAIN table' \subseteq 1 .. unique'
    BY <2>2, <2>6 DEF DiskType
  <2>11. ASSUME NEW h \in DOMAIN table'
         PROVE  table'[h].ino <= Len(content') /\ (table'[h].mode # {} => table'[h].ino # 0)
    <3>1. CASE h = unique + 1
      <4>1. table'[h].ino = g
        BY <2>6, <3>1
      <4> QED BY <2>4, <4>1
    <3>2. CASE h # unique + 1
      <4>1. h \in DOMAIN table /\ table'[h] = table[h]
        BY <2>6, <3>2
      <4>2. table[h].ino \in Nat /\ table[h].ino <= Len(content)
            /\ (table[h].mode # {} => table[h].ino # 0)
        BY <2>2, <4>1 DEF DiskType, Opens
      <4> QED BY <2>2, <2>4, <4>1, <4>2
    <3> QED BY <3>1, <3>2
  <2>12. /\ effects' \in [Ids -> 0 .. 2] /\ effects'[m.id] = Bump(effects[m.id])
         /\ \A id \in Ids : id # m.id => effects'[id] = effects[id]
    BY <2>1, EffectFacts
  <2>13. unique' \in Nat
    BY <2>2, <2>6
  <2>14. DiskType'
    BY <2>4, <2>5, <2>9, <2>10, <2>11, <2>12, <2>13 DEF DiskType
  <2>15. Moves(m)
    BY <2>6, <2>7, <2>12, <2>14 DEF Moves
  <2>16. Replied(m, "OK", NextHandle, g)
    <3>1. NextHandle \in Int /\ {} \in SUBSET Modes /\ NextHandle = unique + 1
      BY <2>2 DEF NextHandle
    <3>2. opened \in Requests /\ opened.id = m.id /\ opened.tag = m.tag /\ opened.op = m.op
      <4>1. opened \in Requests
        BY <3>1, JobFacts DEF opened
      <4>2. opened.id = m.id /\ opened.tag = m.tag /\ opened.op = m.op
        BY DEF opened, Requests
      <4> QED BY <4>1, <4>2
    <3>3. "OK" \in Statuses /\ <<>> \in Seq(Items)
      BY NoElements DEF Statuses, Success
    <3>4. Reply(opened, retry, "OK", NextHandle, g, <<>>) /\ g \in Nat
      BY <2>1, <2>4
    <3> QED BY <3>1, <3>2, <3>3, <3>4, ReplyReplied
  <2>17. NextHandle = unique + 1 /\ unique + 1 \in DOMAIN table'
         /\ table'[unique + 1].ino = g
    BY <2>6 DEF NextHandle
  <2>18. "OK" \notin HostErrors /\ "OK" \in Statuses /\ NextHandle \in Int /\ g \in Nat
    BY <2>2, <2>4, <2>17 DEF HostErrors, Statuses, Success
  <2>19. Served(m, "OK", NextHandle, g)
    BY <2>6, <2>12, <2>15, <2>16, <2>17, <2>18 DEF Served
  <2> QED BY <2>18, <2>19 DEF Serves
<1> QED BY <1>1, <1>2, <1>3

LEMMA CloseServes ==
    ASSUME TypeOK, NEW m \in Requests, NEW retry \in {0, 1}, m.op = "close",
           do_fclose(m, retry)
    PROVE  Serves(m)
<1>1. CASE m.h \notin DOMAIN table
  <2>1. Answered(m, retry, "FAIL") /\ UNCHANGED diskVars /\ "FAIL" \in HostErrors
    BY <1>1 DEF do_fclose, HostErrors
  <2> QED BY <2>1, RejectsAs
<1>2. CASE m.h \in DOMAIN table
  <2>1. /\ table' = [h \in DOMAIN table \ {m.h} |-> table[h]]
        /\ Effect(m) /\ Answered(m, retry, "OK")
        /\ unique' = unique /\ dir' = dir /\ content' = content
    BY <1>2 DEF do_fclose
  <2>2. DiskType
    BY DEF TypeOK
  <2>3. /\ effects' \in [Ids -> 0 .. 2] /\ effects'[m.id] = Bump(effects[m.id])
        /\ \A id \in Ids : id # m.id => effects'[id] = effects[id]
    BY <2>1, EffectFacts
  <2>4. /\ DOMAIN table' = DOMAIN table \ {m.h}
        /\ \A k \in DOMAIN table' : table'[k] = table[k]
    BY <2>1
  <2>5. table' \in [DOMAIN table' -> Opens]
    BY <2>1, <2>2 DEF DiskType
  <2>6. DiskType'
    BY <2>1, <2>2, <2>3, <2>4, <2>5 DEF DiskType
  <2>7. Moves(m)
    BY <2>1, <2>3, <2>4, <2>6 DEF Moves
  <2> QED BY <2>1, <2>3, <2>7, AcceptsAs
<1> QED BY <1>1, <1>2

LEMMA ReadServes ==
    ASSUME TypeOK, NEW m \in Requests, NEW retry \in {0, 1}, m.op = "read",
           do_fread(m, retry)
    PROVE  Serves(m)
<1> DEFINE p == table[m.h].pos
           all == content[table[m.h].ino]
           last == IF p + m.n <= Len(all) THEN p + m.n ELSE Len(all)
           data == SubSeq(all, p + 1, last)
           st == IF Len(data) < m.n THEN "EOF" ELSE "OK"
<1>1. CASE m.h \notin DOMAIN table
  <2>1. Answered(m, retry, "FAIL") /\ UNCHANGED diskVars /\ "FAIL" \in HostErrors
    BY <1>1 DEF do_fread, HostErrors
  <2> QED BY <2>1, RejectsAs
<1>2. CASE m.h \in DOMAIN table /\ "read" \notin table[m.h].mode
  <2>1. Answered(m, retry, "INVALID") /\ UNCHANGED diskVars /\ "INVALID" \in HostErrors
    BY <1>2 DEF do_fread, HostErrors
  <2> QED BY <2>1, RejectsAs
<1>3. CASE m.h \in DOMAIN table /\ "read" \in table[m.h].mode
  <2>1. /\ table' = [table EXCEPT ![m.h].pos = p + Len(data)]
        /\ Effect(m)
        /\ Reply(m, retry, st, m.h, 0, data)
        /\ unique' = unique /\ dir' = dir /\ content' = content
    BY <1>3 DEF do_fread
  <2>2. DiskType
    BY DEF TypeOK
  <2>3. table[m.h] \in Opens /\ table[m.h].ino \in 1 .. Len(content)
    BY <1>3, <2>2 DEF DiskType, Opens
  <2>4. p \in Nat /\ all \in Seq(Items) /\ m.n \in Nat /\ m.h \in Int
    BY <2>2, <2>3, RequestType DEF DiskType, Opens
  <2>5. data \in Seq(Items)
    <3>1. Len(all) \in Nat /\ last \in Int /\ last <= Len(all)
      BY <2>4
    <3> HIDE DEF p, all, last
    <3>2. DOMAIN all = 1 .. Len(all) /\ \A i \in DOMAIN all : all[i] \in Items
      BY <2>4, SeqFacts
    <3>3. \A i \in p + 1 .. last : i \in 1 .. Len(all)
      BY <2>4, <3>1
    <3>4. \A i \in p + 1 .. last : all[i] \in Items
      BY <3>2, <3>3
    <3> QED BY <2>4, <3>1, <3>4, SubSeqProperties
  <2>6. st \in Success
    BY DEF Success
  <2> HIDE DEF p, all, last, data, st
  <2>7. Len(data) \in Nat
    BY <2>5
  <2>8. /\ DOMAIN table' = DOMAIN table /\ table' \in [DOMAIN table' -> Opens]
        /\ \A k \in DOMAIN table : table'[k].ino = table[k].ino
                                   /\ table'[k].mode = table[k].mode
    <3>1. p + Len(data) \in Nat
      BY <2>4, <2>7
    <3> QED BY <1>3, <2>1, <3>1, PosFacts
  <2>9. Moves(m)
    <3>1. dir \in [Names -> 0 .. Len(content)] /\ content \in Seq(Seq(Items))
          /\ Len(content) >= Len(content)
      BY <2>2 DEF DiskType
    <3> QED BY <2>1, <2>8, <3>1, EffectMoves
  <2>10. Replied(m, st, m.h, 0)
    BY <2>1, <2>4, <2>5, <2>6, ReplyReplied DEF Statuses
  <2>11. effects'[m.id] = Bump(effects[m.id])
    BY <2>1, EffectFacts
  <2>12. Served(m, st, m.h, 0)
    BY <2>6, <2>9, <2>10, <2>11 DEF Served, Success, HostErrors
  <2> QED BY <2>4, <2>6, <2>12 DEF Serves, Statuses
<1> QED BY <1>1, <1>2, <1>3

LEMMA OverwriteType ==
    ASSUME NEW all \in Seq(Items), NEW p \in Nat, NEW data \in Seq(Items)
    PROVE  Overwrite(all, p, data) \in Seq(Items)
<1> DEFINE n == IF Len(all) > p + Len(data) THEN Len(all) ELSE p + Len(data)
           x(i) == IF i > p /\ i <= p + Len(data) THEN data[i - p]
                   ELSE IF i <= Len(all) THEN all[i] ELSE Junk
<1>1. n \in Nat /\ Len(all) \in Nat /\ Len(data) \in Nat
  OBVIOUS
<1>2. ASSUME NEW i \in 1 .. n
      PROVE  x(i) \in Items
  <2>1. CASE i > p /\ i <= p + Len(data)
    <3>1. i - p \in 1 .. Len(data)
      BY <1>1, <2>1
    <3> QED BY <2>1, <3>1
  <2>2. CASE ~(i > p /\ i <= p + Len(data)) /\ i <= Len(all)
    <3>1. i \in 1 .. Len(all)
      BY <1>1, <2>2
    <3> QED BY <2>2, <3>1
  <2>3. CASE ~(i > p /\ i <= p + Len(data)) /\ ~(i <= Len(all))
    BY <2>3 DEF Junk, Items
  <2> QED BY <2>1, <2>2, <2>3
<1>3. Overwrite(all, p, data) = [i \in 1 .. n |-> x(i)]
  BY DEF Overwrite
<1> HIDE DEF n, x
<1> QED BY <1>1, <1>2, <1>3

\* What was written takes effect once the data is there.
LEMMA WriteOutMoves ==
    ASSUME TypeOK, NEW m \in Requests, NEW data \in Seq(Items), m.h \in DOMAIN table,
           "write" \in table[m.h].mode, WriteOut(m, data)
    PROVE  Moves(m) /\ effects'[m.id] = Bump(effects[m.id])
<1> DEFINE t == table[m.h]
<1>1. DiskType
  BY DEF TypeOK
<1>2. t \in Opens /\ t.ino \in 1 .. Len(content) /\ t.pos \in Nat
  BY <1>1 DEF DiskType, Opens
<1>3. /\ content' = [content EXCEPT ![t.ino] = Overwrite(content[t.ino], t.pos, data)]
      /\ table' = [table EXCEPT ![m.h].pos = t.pos + Len(data)]
      /\ Effect(m) /\ unique' = unique /\ dir' = dir
  BY DEF WriteOut
<1>4. content \in Seq(Seq(Items)) /\ dir \in [Names -> 0 .. Len(content)]
  BY <1>1 DEF DiskType
<1>5. Overwrite(content[t.ino], t.pos, data) \in Seq(Items)
  <2>1. content[t.ino] \in Seq(Items)
    BY <1>2, <1>4
  <2> QED BY <1>2, <2>1, OverwriteType
<1>6. t.pos + Len(data) \in Nat
  BY <1>2
<1> HIDE DEF t
<1>7. content' \in Seq(Seq(Items)) /\ Len(content') = Len(content)
  BY <1>2, <1>3, <1>4, <1>5, ExceptSeq
<1>8. /\ DOMAIN table' = DOMAIN table /\ table' \in [DOMAIN table' -> Opens]
      /\ \A k \in DOMAIN table : table'[k].ino = table[k].ino
                                 /\ table'[k].mode = table[k].mode
  BY <1>3, <1>6, PosFacts
<1>9. Len(content') >= Len(content) /\ dir' \in [Names -> 0 .. Len(content')]
  BY <1>3, <1>4, <1>7
<1> QED BY <1>3, <1>7, <1>8, <1>9, EffectMoves, EffectFacts

\* A write is answered, or its data is collected.
Gathers(m) ==
    /\ m.op = "write" /\ m.h \in DOMAIN table /\ "write" \in table[m.h].mode
    /\ Len(m.data) < m.total
    /\ HostType' /\ host'.pc = "collect" /\ host'.job = m
    /\ UNCHANGED diskVars

LEMMA WriteServes ==
    ASSUME TypeOK, NEW m \in Requests, NEW retry \in {0, 1}, m.op = "write",
           do_fwrite(m, retry)
    PROVE  Serves(m) \/ Gathers(m)
<1>1. CASE m.h \notin DOMAIN table
  <2>1. Answered(m, retry, "FAIL") /\ UNCHANGED diskVars /\ "FAIL" \in HostErrors
    BY <1>1 DEF do_fwrite, HostErrors
  <2> QED BY <2>1, RejectsAs
<1>2. CASE m.h \in DOMAIN table /\ "write" \notin table[m.h].mode
  <2>1. Answered(m, retry, "INVALID") /\ UNCHANGED diskVars /\ "INVALID" \in HostErrors
    BY <1>2 DEF do_fwrite, HostErrors
  <2> QED BY <2>1, RejectsAs
<1>3. CASE m.h \in DOMAIN table /\ "write" \in table[m.h].mode /\ Len(m.data) < m.total
  <2>1. /\ host' = [pc |-> "collect", job |-> m, retry |-> retry,
                    out |-> <<>>, buf |-> m.data]
        /\ UNCHANGED diskVars
    BY <1>3 DEF do_fwrite
  <2>2. /\ host'.pc = "collect" /\ host'.job = m /\ host'.retry = retry
        /\ host'.out = <<>> /\ host'.buf = m.data
    BY <2>1
  <2>3. host' = [pc |-> host'.pc, job |-> host'.job, out |-> host'.out,
                 retry |-> host'.retry, buf |-> host'.buf]
    BY <2>1
  <2>4. HostType'
    BY <2>2, <2>3, NoElements, RequestType DEF HostType, Working, Replying
  <2> QED BY <1>3, <2>1, <2>2, <2>4 DEF Gathers
<1>4. CASE m.h \in DOMAIN table /\ "write" \in table[m.h].mode /\ ~(Len(m.data) < m.total)
  <2>1. WriteOut(m, m.data) /\ Answered(m, retry, "OK")
    BY <1>4 DEF do_fwrite
  <2>2. m.data \in Seq(Items)
    BY RequestType
  <2> QED BY <1>4, <2>1, <2>2, WriteOutMoves, AcceptsAs
<1> QED BY <1>1, <1>2, <1>3, <1>4

\* The other handlers change the position of a handle, or the directory.
LEMMA SeekServes ==
    ASSUME TypeOK, NEW m \in Requests, NEW retry \in {0, 1}, m.op = "seek",
           do_fseek(m, retry)
    PROVE  Serves(m)
<1>1. CASE m.h \notin DOMAIN table \/ table[m.h].type # "file"
  <2>1. PICK st \in HostErrors : Answered(m, retry, st) /\ UNCHANGED diskVars
    BY <1>1 DEF do_fseek, HostErrors
  <2> QED BY <2>1, RejectsAs
<1>2. CASE m.h \in DOMAIN table /\ table[m.h].type = "file"
  <2>1. /\ table' = [table EXCEPT ![m.h].pos = 0]
        /\ Effect(m) /\ Answered(m, retry, "OK")
        /\ unique' = unique /\ dir' = dir /\ content' = content
    BY <1>2 DEF do_fseek
  <2>2. /\ DOMAIN table' = DOMAIN table /\ table' \in [DOMAIN table' -> Opens]
        /\ \A k \in DOMAIN table : table'[k].ino = table[k].ino
                                   /\ table'[k].mode = table[k].mode
    BY <1>2, <2>1, PosFacts
  <2>3. dir \in [Names -> 0 .. Len(content)] /\ content \in Seq(Seq(Items))
        /\ Len(content) >= Len(content)
    BY DEF TypeOK, DiskType
  <2>4. Moves(m)
    BY <2>1, <2>2, <2>3, EffectMoves
  <2> QED BY <2>1, <2>4, EffectFacts, AcceptsAs
<1> QED BY <1>1, <1>2

\* A directory operation that is carried out.
LEMMA DirMoves ==
    ASSUME TypeOK, NEW m \in Requests, Effect(m), table' = table, unique' = unique,
           content' \in Seq(Seq(Items)), Len(content') >= Len(content),
           dir' \in [Names -> 0 .. Len(content')]
    PROVE  Moves(m)
<1>1. table \in [DOMAIN table -> Opens]
  BY DEF TypeOK, DiskType
<1> QED BY <1>1, EffectMoves

LEMMA DirServes ==
    ASSUME TypeOK, NEW m \in Requests, NEW retry \in {0, 1},
           \/ m.op = "delete" /\ do_fdelete(m, retry)
           \/ m.op = "rename" /\ do_frename(m, retry)
           \/ m.op = "create" /\ do_fcreate(m, retry)
           \/ m.op = "set" /\ do_fset(m, retry)
           \/ m.op = "path" /\ do_fpath(m, retry)
    PROVE  Serves(m)
<1>1. /\ dir \in [Names -> 0 .. Len(content)] /\ content \in Seq(Seq(Items))
      /\ Len(content) \in Nat /\ Len(content) >= Len(content)
      /\ m.name \in Names /\ m.to \in Names
  BY RequestType DEF TypeOK, DiskType
<1>2. ASSUME NEW st \in HostErrors, Rejected(m, retry, st), UNCHANGED diskVars,
             m.op # "close"
      PROVE  Serves(m)
  BY <1>2, RejectsAs
<1>3. ASSUME Effect(m), Answered(m, retry, "OK"), table' = table, unique' = unique,
             content' \in Seq(Seq(Items)), Len(content') >= Len(content),
             dir' \in [Names -> 0 .. Len(content')], m.op # "open", m.op # "write"
      PROVE  Serves(m)
  BY <1>3, DirMoves, EffectFacts, AcceptsAs
<1>4. "FAIL" \in HostErrors /\ "NOEXIST" \in HostErrors /\ "EXIST" \in HostErrors
  BY DEF HostErrors
<1>5. CASE m.op = "delete" /\ do_fdelete(m, retry)
  <2>1. CASE m.h # Root \/ dir[m.name] = 0
    BY <1>2, <1>4, <1>5, <2>1 DEF do_fdelete
  <2>2. CASE ~(m.h # Root \/ dir[m.name] = 0)
    <3>1. /\ dir' = [dir EXCEPT ![m.name] = 0] /\ content' = content
          /\ Effect(m) /\ Answered(m, retry, "OK") /\ table' = table /\ unique' = unique
      BY <1>5, <2>2 DEF do_fdelete
    <3>2. dir' \in [Names -> 0 .. Len(content')]
      BY <1>1, <3>1
    <3> QED BY <1>1, <1>3, <1>5, <3>1, <3>2
  <2> QED BY <2>1, <2>2
<1>6. CASE m.op = "rename" /\ do_frename(m, retry)
  <2>1. CASE m.h # Root \/ dir[m.name] = 0
    BY <1>2, <1>4, <1>6, <2>1 DEF do_frename
  <2>2. CASE ~(m.h # Root \/ dir[m.name] = 0)
    <3>1. /\ dir' = IF m.name = m.to THEN dir
                    ELSE [dir EXCEPT ![m.to] = dir[m.name], ![m.name] = 0]
          /\ content' = content
          /\ Effect(m) /\ Answered(m, retry, "OK") /\ table' = table /\ unique' = unique
      BY <1>6, <2>2 DEF do_frename
    <3>2. dir' \in [Names -> 0 .. Len(content')]
      <4>1. dir[m.name] \in 0 .. Len(content)
        BY <1>1
      <4> QED BY <1>1, <3>1, <4>1
    <3> QED BY <1>1, <1>3, <1>6, <3>1, <3>2
  <2> QED BY <2>1, <2>2
<1>7. CASE m.op = "create" /\ do_fcreate(m, retry)
  <2>1. CASE m.h # Root \/ dir[m.name] # 0
    BY <1>2, <1>4, <1>7, <2>1 DEF do_fcreate
  <2>2. CASE ~(m.h # Root \/ dir[m.name] # 0)
    <3>1. /\ dir' = [dir EXCEPT ![m.name] = NewFile] /\ content' = Append(content, <<>>)
          /\ Effect(m) /\ Answered(m, retry, "OK") /\ table' = table /\ unique' = unique
      BY <1>7, <2>2 DEF do_fcreate
    <3>2. content' \in Seq(Seq(Items)) /\ Len(content') = Len(content) + 1
      <4>1. <<>> \in Seq(Items)
        BY NoElements
      <4> QED BY <1>1, <3>1, <4>1
    <3>3. dir' \in [Names -> 0 .. Len(content')]
      <4>1. \A x \in Names : dir[x] \in 0 .. Len(content')
        BY <1>1, <3>2
      <4>2. NewFile \in 0 .. Len(content')
        BY <1>1, <3>2 DEF NewFile
      <4> QED BY <1>1, <3>1, <4>1, <4>2
    <3>4. Len(content') >= Len(content)
      BY <1>1, <3>2
    <3> QED BY <1>3, <1>7, <3>1, <3>2, <3>3, <3>4
  <2> QED BY <2>1, <2>2
<1>8. CASE m.op = "set" /\ do_fset(m, retry)
  <2>1. CASE m.h # Root \/ dir[m.name] = 0
    BY <1>2, <1>4, <1>8, <2>1 DEF do_fset
  <2>2. CASE ~(m.h # Root \/ dir[m.name] = 0)
    BY <1>1, <1>3, <1>8, <2>2 DEF do_fset
  <2> QED BY <2>1, <2>2
<1>9. CASE m.op = "path" /\ do_fpath(m, retry)
  BY <1>1, <1>3, <1>9 DEF do_fpath
<1> QED BY <1>5, <1>6, <1>7, <1>8, <1>9

LEMMA ProcessServes ==
    ASSUME TypeOK, NEW m \in Requests, NEW retry \in {0, 1}, Process(m, retry)
    PROVE  Serves(m) \/ Gathers(m)
BY OpenServes, CloseServes, ReadServes, WriteServes, SeekServes, DirServes DEF Process

-------------------------------------------------------------------------------
(* The steps of the server.                                                *)

\* What the server does with the request it takes, runs again, or finishes.
ServerWork ==
    /\ UNCHANGED <<clientVars, svc, utoa>>
    /\ trouble' \in Nat /\ events \subseteq events' /\ events' \subseteq events \cup {"dropped"}
    /\ \/ /\ host.pc = "idle" /\ atou # <<>> /\ atou' = Tail(atou)
          /\ Serves(Head(atou)) \/ Gathers(Head(atou))
       \/ /\ host.pc = "again" /\ atou' = atou
          /\ Serves(host.job) \/ Gathers(host.job)
       \/ /\ host.pc = "collect" /\ (atou' = atou \/ (atou # <<>> /\ atou' = Tail(atou)))
          /\ Serves(host.job) \/ (/\ host'.pc = "collect" /\ host'.job = host.job
                                  /\ HostType' /\ UNCHANGED diskVars)

LEMMA HeadRequest ==
    ASSUME TypeOK, atou # <<>>
    PROVE  /\ Head(atou) \in Requests /\ Tail(atou) \in Seq(Requests)
           /\ Head(atou) \in ToSet(atou) /\ ToSet(Tail(atou)) \subseteq ToSet(atou)
BY TailFacts DEF TypeOK

LEMMA TakeWorks ==
    ASSUME TypeOK, Take
    PROVE  ServerWork
<1>1. /\ host.pc = "idle" /\ atou # <<>> /\ atou' = Tail(atou) /\ Process(Head(atou), 1)
      /\ UNCHANGED <<clientVars, svc, utoa>> /\ trouble' = trouble /\ events' = events
  BY DEF Take
<1>2. Serves(Head(atou)) \/ Gathers(Head(atou))
  BY <1>1, HeadRequest, ProcessServes
<1>3. trouble \in Nat
  BY DEF TypeOK
<1> QED BY <1>1, <1>2, <1>3 DEF ServerWork

LEMMA AgainWorks ==
    ASSUME TypeOK, Again
    PROVE  ServerWork
<1>1. /\ host.pc = "again" /\ atou' = atou /\ Process(host.job, 0)
      /\ UNCHANGED <<clientVars, svc, utoa>> /\ trouble' = trouble /\ events' = events
  BY DEF Again
<1>2. host.job \in Requests /\ trouble \in Nat
  BY <1>1 DEF TypeOK, HostType, Working
<1>3. Serves(host.job) \/ Gathers(host.job)
  BY <1>1, <1>2, ProcessServes
<1> QED BY <1>1, <1>2, <1>3 DEF ServerWork

\* What has been collected is answered with OK.
LEMMA CollectedServes ==
    ASSUME TypeOK, host.pc = "collect",
           Answered(host.job, host.retry, "OK"),
           \/ \E buf \in Seq(Items) : WriteOut(host.job, buf)
           \/ UNCHANGED diskVars /\ "dropped" \in events'
    PROVE  Serves(host.job)
<1>1. /\ host.job \in Requests /\ host.retry \in {0, 1}
      /\ host.job.h \in DOMAIN table /\ "write" \in table[host.job.h].mode
      /\ host.job.op = "write"
  BY DEF TypeOK, HostType, CollectType, Working
<1>2. CASE \E buf \in Seq(Items) : WriteOut(host.job, buf)
  <2>1. Moves(host.job) /\ effects'[host.job.id] = Bump(effects[host.job.id])
    BY <1>1, <1>2, WriteOutMoves
  <2> QED BY <1>1, <2>1, AcceptsAs
<1>3. CASE UNCHANGED diskVars /\ "dropped" \in events'
  <2>1. Moves(host.job)
    BY <1>1, <1>3, NotDone
  <2> QED BY <1>1, <1>3, <2>1, AcceptsAs
<1> QED BY <1>2, <1>3

LEMMA CollectWorks ==
    ASSUME TypeOK, Collect
    PROVE  ServerWork
<1> DEFINE m == Head(atou)
           buf == host.buf \o (IF m.lead THEN <<Junk>> ELSE m.data)
<1>1. /\ host.pc = "collect" /\ atou # <<>> /\ atou' = Tail(atou)
      /\ UNCHANGED <<clientVars, svc, utoa>> /\ trouble' = trouble /\ events' = events
      /\ IF Len(buf) < host.job.total
         THEN host' = [host EXCEPT !.buf = buf] /\ UNCHANGED diskVars
         ELSE WriteOut(host.job, buf) /\ Answered(host.job, host.retry, "OK")
  BY DEF Collect
<1>2. buf \in Seq(Items)
  <2>1. host.buf \in Seq(Items)
    BY DEF TypeOK, HostType
  <2>2. m.data \in Seq(Items)
    BY <1>1, HeadRequest, RequestType
  <2>3. <<Junk>> \in Seq(Items)
    BY DEF Junk, Items
  <2>4. (IF m.lead THEN <<Junk>> ELSE m.data) \in Seq(Items)
    BY <2>2, <2>3
  <2> QED BY <2>1, <2>4, ConcatProperties
<1>3. trouble \in Nat
  BY DEF TypeOK
<1> HIDE DEF m, buf
<1>4. CASE Len(buf) < host.job.total
  <2>1. host' = [host EXCEPT !.buf = buf] /\ UNCHANGED diskVars
    BY <1>1, <1>4
  <2>2. /\ HostType
        /\ host = [pc |-> host.pc, job |-> host.job, out |-> host.out,
                   retry |-> host.retry, buf |-> host.buf]
    BY DEF TypeOK, HostType
  <2>3. host' = [pc |-> host.pc, job |-> host.job, out |-> host.out,
                 retry |-> host.retry, buf |-> buf]
    BY <2>1, <2>2
  <2>4. /\ host'.pc = host.pc /\ host'.job = host.job /\ host'.out = host.out
        /\ host'.retry = host.retry /\ host'.buf = buf
    BY <2>3
  <2>5. HostType'
    BY <1>2, <2>2, <2>3, <2>4 DEF HostType, Working, Replying
  <2> QED BY <1>1, <1>3, <2>1, <2>4, <2>5 DEF ServerWork
<1>5. CASE ~(Len(buf) < host.job.total)
  <2>1. Serves(host.job)
    BY <1>1, <1>2, <1>5, CollectedServes
  <2> QED BY <1>1, <1>3, <2>1 DEF ServerWork
<1> QED BY <1>4, <1>5

LEMMA CollectFailsWorks ==
    ASSUME TypeOK, CollectFails
    PROVE  ServerWork
<1>1. /\ host.pc = "collect" /\ (atou' = atou \/ (atou # <<>> /\ atou' = Tail(atou)))
      /\ Answered(host.job, host.retry, "OK") /\ events' = events \cup {"dropped"}
      /\ UNCHANGED <<clientVars, svc, utoa>> /\ UNCHANGED diskVars /\ trouble' = trouble
  BY DEF CollectFails, Happened
<1>2. Serves(host.job)
  BY <1>1, CollectedServes
<1>3. trouble \in Nat
  BY DEF TypeOK
<1> QED BY <1>1, <1>2, <1>3 DEF ServerWork

LEMMA DiskFullWorks ==
    ASSUME TypeOK, DiskFull
    PROVE  ServerWork
<1>1. /\ atou # <<>> /\ atou' = Tail(atou) /\ trouble' = trouble + 1
      /\ events' = events \cup {"dropped"} /\ UNCHANGED diskVars
      /\ UNCHANGED <<clientVars, svc, utoa>>
  BY DEF DiskFull, Happened, Trouble
<1>2. trouble' \in Nat
  BY <1>1 DEF TypeOK
<1>3. CASE /\ host.pc = "idle" /\ Head(atou).op = "write"
           /\ Head(atou).h \in DOMAIN table /\ Answered(Head(atou), 1, "OK")
  <2>1. Head(atou) \in Requests
    BY <1>1, HeadRequest
  <2>2. Moves(Head(atou))
    BY <1>1, <2>1, NotDone
  <2>3. Serves(Head(atou))
    BY <1>1, <1>3, <2>1, <2>2, AcceptsAs
  <2> QED BY <1>1, <1>2, <1>3, <2>3 DEF ServerWork
<1>4. CASE host.pc = "collect" /\ Answered(host.job, host.retry, "OK")
  <2>1. Serves(host.job)
    BY <1>1, <1>4, CollectedServes
  <2> QED BY <1>1, <1>2, <1>4, <2>1 DEF ServerWork
<1> QED BY <1>3, <1>4 DEF DiskFull

\* The types after a step of the server.
LEMMA SameClientType ==
    ASSUME ClientType, UNCHANGED clientVars
    PROVE  ClientType'
BY DEF ClientType, clientVars

LEMMA SameHostType ==
    ASSUME HostType, CollectType, host' = host, UNCHANGED diskVars
    PROVE  HostType' /\ CollectType'
BY DEF HostType, CollectType, Working, Replying, diskVars

LEMMA SameDiskType ==
    ASSUME DiskType, UNCHANGED diskVars
    PROVE  DiskType'
BY DEF DiskType, diskVars

LEMMA WorkType ==
    ASSUME TypeOK, ServerWork
    PROVE  TypeOK'
<1>1. /\ ClientType /\ DiskType /\ HostType /\ svc \in BOOLEAN
      /\ atou \in Seq(Requests) /\ utoa \in Seq(Replies) /\ events \subseteq Faults
  BY DEF TypeOK
<1>2. ClientType' /\ svc' \in BOOLEAN /\ utoa' \in Seq(Replies) /\ trouble' \in Nat
      /\ events' \subseteq Faults
  <2>1. UNCHANGED clientVars /\ svc' = svc /\ utoa' = utoa /\ trouble' \in Nat
        /\ events' \subseteq events \cup {"dropped"}
    BY DEF ServerWork
  <2> QED BY <1>1, <2>1, SameClientType DEF Faults
<1>3. atou' \in Seq(Requests)
  <2>1. atou' = atou \/ (atou # <<>> /\ atou' = Tail(atou))
    BY DEF ServerWork
  <2> QED BY <1>1, <2>1, HeadRequest
<1>4. ASSUME NEW m \in Requests, Serves(m)
      PROVE  HostType' /\ DiskType' /\ CollectType'
  <2>1. HostType' /\ DiskType' /\ host'.pc = "reply"
    BY <1>4 DEF Serves, Served, Replied, Moves
  <2> QED BY <2>1 DEF CollectType
<1>5. ASSUME NEW m \in Requests, Gathers(m)
      PROVE  HostType' /\ DiskType' /\ CollectType'
  <2>1. /\ HostType' /\ host'.pc = "collect" /\ host'.job = m /\ m.op = "write"
        /\ m.h \in DOMAIN table /\ "write" \in table[m.h].mode
        /\ UNCHANGED diskVars
    BY <1>5 DEF Gathers
  <2>2. DiskType' /\ table' = table
    BY <1>1, <2>1, SameDiskType DEF diskVars
  <2> QED BY <2>1, <2>2 DEF CollectType
<1>6. HostType' /\ DiskType' /\ CollectType'
  <2>1. CASE host.pc = "idle" /\ atou # <<>> /\ (Serves(Head(atou)) \/ Gathers(Head(atou)))
    BY <1>4, <1>5, <2>1, HeadRequest
  <2>2. CASE Working /\ (Serves(host.job) \/ Gathers(host.job))
    BY <1>1, <1>4, <1>5, <2>2 DEF HostType
  <2>3. CASE /\ host.pc = "collect" /\ host'.pc = "collect" /\ host'.job = host.job
             /\ HostType' /\ UNCHANGED diskVars
    <3>1. DiskType' /\ table' = table /\ CollectType
      BY <1>1, <2>3, SameDiskType DEF diskVars, TypeOK
    <3> QED BY <2>3, <3>1 DEF CollectType
  <2> QED BY <2>1, <2>2, <2>3 DEF ServerWork, Working
<1> QED BY <1>2, <1>3, <1>6 DEF TypeOK

\* A message of a reply is sent, lost, or sent with its status lost.
ServerSends ==
    /\ UNCHANGED <<clientVars, svc, atou, diskVars>>
    /\ trouble' \in Nat /\ events \subseteq events'
    /\ events' \subseteq events \cup {"refused", "repeated"}
    /\ host.pc = "reply"
    /\ \/ utoa' = Append(utoa, Head(host.out))
       \/ utoa' = utoa /\ events' \cap {"refused", "repeated"} # {}
    /\ \/ /\ HostType' /\ host'.pc = "reply" /\ host'.job = host.job
          /\ Len(host.out) > 1 /\ host'.out = Tail(host.out)
       \/ /\ HostType' /\ host'.pc = "idle"
       \/ /\ HostType' /\ host'.pc = "again" /\ host'.job = host.job
          /\ events' \cap {"refused", "repeated"} # {}

LEMMA IdleHost ==
    ASSUME NEW pc \in {"idle", "down", "flush"}, host' = [Idle EXCEPT !.pc = pc]
    PROVE  HostType' /\ host'.pc = pc /\ CollectType'
<1>1. host' = [pc |-> pc, job |-> <<>>, out |-> <<>>, retry |-> 0, buf |-> <<>>]
  BY DEF Idle
<1>2. host'.pc = pc /\ host'.out = <<>> /\ host'.retry = 0 /\ host'.buf = <<>>
  BY <1>1
<1>3. host' = [pc |-> host'.pc, job |-> host'.job, out |-> host'.out,
               retry |-> host'.retry, buf |-> host'.buf]
  BY <1>1
<1>4. HostType'
  <2>1. <<>> \in Seq(Items) /\ <<>> \in Seq(Replies)
    BY NoElements
  <2>2. ~Working' /\ ~Replying'
    BY <1>2 DEF Working, Replying
  <2>3. host'.pc \in {"idle", "reply", "collect", "again", "down", "flush"}
    BY <1>2
  <2> QED BY <1>2, <1>3, <2>1, <2>2, <2>3 DEF HostType
<1> QED BY <1>2, <1>4 DEF CollectType

LEMMA RunAgainHost ==
    ASSUME TypeOK, NEW sent \in BOOLEAN, host.pc = "reply", RunAgain(sent)
    PROVE  /\ HostType'
           /\ \/ host'.pc = "idle"
              \/ host'.pc = "again" /\ host'.job = host.job /\ ~sent
<1>1. CASE sent \/ host.retry = 0
  <2>1. host' = [Idle EXCEPT !.pc = "idle"]
    BY <1>1 DEF RunAgain, Idle
  <2> QED BY <2>1, IdleHost
<1>2. CASE ~(sent \/ host.retry = 0)
  <2>1. host' = [host EXCEPT !.pc = "again", !.out = <<>>]
    BY <1>2 DEF RunAgain
  <2>2. /\ HostType /\ host.job \in Requests
        /\ host = [pc |-> host.pc, job |-> host.job, out |-> host.out,
                   retry |-> host.retry, buf |-> host.buf]
    BY DEF TypeOK, HostType, Working
  <2>3. host' = [pc |-> "again", job |-> host.job, out |-> <<>>,
                 retry |-> host.retry, buf |-> host.buf]
    BY <2>1, <2>2
  <2>4. /\ host'.pc = "again" /\ host'.job = host.job /\ host'.out = <<>>
        /\ host'.retry = host.retry /\ host'.buf = host.buf
    BY <2>3
  <2>5. HostType'
    BY <2>2, <2>3, <2>4, NoElements DEF HostType, Working, Replying
  <2> QED BY <1>2, <2>4, <2>5
<1> QED BY <1>1, <1>2

LEMMA ReplyHead ==
    ASSUME TypeOK, host.pc = "reply"
    PROVE  /\ host.out \in Seq(Replies) /\ host.out # <<>>
           /\ Head(host.out) \in Replies /\ Head(host.out) \in ToSet(host.out)
           /\ Tail(host.out) \in Seq(Replies) /\ ToSet(Tail(host.out)) \subseteq ToSet(host.out)
           /\ Len(host.out) \in Nat /\ Len(Tail(host.out)) = Len(host.out) - 1
           /\ host.job \in Requests
<1>1. host.out \in Seq(Replies) /\ host.out # <<>> /\ host.job \in Requests
  BY DEF TypeOK, HostType, Replying, Working
<1> QED BY <1>1, TailFacts, SeqFacts

LEMMA SendReplySends ==
    ASSUME TypeOK, SendReply
    PROVE  ServerSends
<1> DEFINE room == Fits(Head(host.out), utoa)
<1>1. /\ host.pc = "reply" /\ UNCHANGED <<clientVars, svc, atou, diskVars, trouble>>
      /\ utoa' = IF room THEN Append(utoa, Head(host.out)) ELSE utoa
      /\ events' = IF room THEN events ELSE events \cup {"refused"}
      /\ IF Len(host.out) > 1 THEN host' = [host EXCEPT !.out = Tail(host.out)]
         ELSE RunAgain(room)
  BY DEF SendReply
<1>2. room \in BOOLEAN
  BY DEF Fits
<1> HIDE DEF room
<1>3. trouble \in Nat
  BY DEF TypeOK
<1>4. \/ utoa' = Append(utoa, Head(host.out))
      \/ utoa' = utoa /\ events' \cap {"refused", "repeated"} # {}
  BY <1>1
<1>5. /\ events \subseteq events' /\ events' \subseteq events \cup {"refused", "repeated"}
  BY <1>1
<1>6. CASE Len(host.out) > 1
  <2>1. host' = [host EXCEPT !.out = Tail(host.out)]
    BY <1>1, <1>6
  <2>2. /\ HostType /\ host.job \in Requests
        /\ host = [pc |-> host.pc, job |-> host.job, out |-> host.out,
                   retry |-> host.retry, buf |-> host.buf]
    BY <1>1 DEF TypeOK, HostType, Working
  <2>3. host' = [pc |-> host.pc, job |-> host.job, out |-> Tail(host.out),
                 retry |-> host.retry, buf |-> host.buf]
    BY <2>1, <2>2
  <2>4. /\ host'.pc = "reply" /\ host'.job = host.job /\ host'.out = Tail(host.out)
        /\ host'.retry = host.retry /\ host'.buf = host.buf
    BY <1>1, <2>3
  <2>5. Tail(host.out) \in Seq(Replies) /\ Tail(host.out) # <<>>
    <3>1. Tail(host.out) \in Seq(Replies) /\ Len(Tail(host.out)) > 0
      BY <1>1, <1>6, ReplyHead
    <3>2. \A n \in Nat : n > 0 => n # 0
      OBVIOUS
    <3> QED BY <3>1, <3>2, SeqFacts
  <2>6. HostType'
    BY <1>1, <2>2, <2>3, <2>4, <2>5 DEF HostType, Working, Replying
  <2> QED BY <1>1, <1>3, <1>4, <1>5, <1>6, <2>4, <2>6 DEF ServerSends
<1>7. CASE ~(Len(host.out) > 1)
  <2>1. RunAgain(room)
    BY <1>1, <1>7
  <2>2. /\ HostType'
        /\ \/ host'.pc = "idle"
           \/ host'.pc = "again" /\ host'.job = host.job /\ ~room
    BY <1>1, <1>2, <2>1, RunAgainHost
  <2>3. ~room => events' \cap {"refused", "repeated"} # {}
    BY <1>1
  <2> QED BY <1>1, <1>3, <1>4, <1>5, <2>2, <2>3 DEF ServerSends
<1> QED BY <1>6, <1>7

LEMMA SendReplyFailsSends ==
    ASSUME TypeOK, SendReplyFails
    PROVE  ServerSends
<1>1. /\ host.pc = "reply" /\ UNCHANGED <<clientVars, svc, atou, diskVars>>
      /\ trouble' = trouble + 1 /\ events' = events \cup {"repeated"}
      /\ utoa' = utoa \/ utoa' = Append(utoa, Head(host.out))
      /\ RunAgain(FALSE)
  BY DEF SendReplyFails, Trouble, Happened
<1>2. trouble' \in Nat
  BY <1>1 DEF TypeOK
<1>3. /\ HostType'
      /\ host'.pc = "idle" \/ (host'.pc = "again" /\ host'.job = host.job)
  BY <1>1, RunAgainHost
<1>4. /\ events \subseteq events' /\ events' \subseteq events \cup {"refused", "repeated"}
      /\ events' \cap {"refused", "repeated"} # {}
  BY <1>1
<1> QED BY <1>1, <1>2, <1>3, <1>4 DEF ServerSends

LEMMA SendsType ==
    ASSUME TypeOK, ServerSends
    PROVE  TypeOK'
<1>1. /\ ClientType /\ DiskType /\ HostType /\ svc \in BOOLEAN
      /\ atou \in Seq(Requests) /\ utoa \in Seq(Replies) /\ events \subseteq Faults
  BY DEF TypeOK
<1>2. /\ UNCHANGED clientVars /\ svc' = svc /\ atou' = atou /\ UNCHANGED diskVars
      /\ trouble' \in Nat /\ events' \subseteq events \cup {"refused", "repeated"}
      /\ utoa' = utoa \/ utoa' = Append(utoa, Head(host.out))
      /\ HostType' /\ host'.pc # "collect" /\ host.pc = "reply"
  BY DEF ServerSends
<1>3. utoa' \in Seq(Replies)
  <2>1. Head(host.out) \in Replies
    BY <1>2, ReplyHead
  <2>2. Append(utoa, Head(host.out)) \in Seq(Replies)
    BY <1>1, <2>1
  <2> QED BY <1>1, <1>2, <2>2
<1>4. events' \subseteq Faults
  BY <1>1, <1>2 DEF Faults
<1>5. ClientType' /\ DiskType' /\ CollectType'
  BY <1>1, <1>2, SameClientType, SameDiskType DEF CollectType
<1> QED BY <1>1, <1>2, <1>3, <1>4, <1>5 DEF TypeOK

\* The server ends, starts again, and discards what was sent meanwhile.
ServerRestarts == Stop \/ Start \/ Flush \/ Expire

LEMMA RestartType ==
    ASSUME TypeOK, ServerRestarts
    PROVE  TypeOK'
<1>1. /\ ClientType /\ DiskType /\ HostType /\ CollectType /\ svc \in BOOLEAN
      /\ atou \in Seq(Requests) /\ utoa \in Seq(Replies) /\ events \subseteq Faults
      /\ trouble \in Nat
  BY DEF TypeOK
<1>2. ClientType'
  <2>1. UNCHANGED clientVars
    BY DEF ServerRestarts, Stop, Start, Flush, Expire
  <2> QED BY <1>1, <2>1, SameClientType
<1>3. /\ svc' \in BOOLEAN /\ atou' \in Seq(Requests) /\ utoa' \in Seq(Replies)
      /\ trouble' \in Nat /\ events' \subseteq Faults
  <2>1. utoa' = utoa /\ (atou' = atou \/ atou' = <<>>) /\ svc' \in {svc, TRUE, FALSE}
        /\ trouble' \in {trouble, trouble + 1} /\ events' \subseteq events \cup {"restart"}
    BY DEF ServerRestarts, Stop, Start, Flush, Expire, Trouble, Happened
  <2>2. <<>> \in Seq(Requests)
    BY NoElements
  <2>3. svc' \in BOOLEAN
    BY <1>1, <2>1, Zenon
  <2>4. trouble' \in Nat /\ events' \subseteq Faults
    BY <1>1, <2>1 DEF Faults
  <2> QED BY <1>1, <2>1, <2>2, <2>3, <2>4
<1>4. HostType' /\ CollectType'
  <2>1. CASE Stop \/ Start \/ Flush
    <3>1. PICK pc \in {"idle", "down", "flush"} : host' = [Idle EXCEPT !.pc = pc]
      BY <2>1 DEF Stop, Start, Flush, Idle
    <3> QED BY <3>1, IdleHost
  <2>2. CASE Expire
    <3>1. host' = host /\ UNCHANGED diskVars
      BY <2>2 DEF Expire
    <3> QED BY <1>1, <3>1, SameHostType
  <2> QED BY <2>1, <2>2 DEF ServerRestarts
<1>5. DiskType'
  <2>1. CASE Stop
    <3>1. table' = <<>> /\ unique' = unique /\ dir' = dir /\ content' = content
          /\ effects' = effects
      BY <2>1 DEF Stop
    <3>2. DOMAIN table' = {}
      BY <3>1
    <3>3. table' \in [DOMAIN table' -> Opens]
      BY <3>1, <3>2
    <3> QED BY <1>1, <3>1, <3>2, <3>3 DEF DiskType
  <2>2. CASE Start
    <3>1. /\ table' = [h \in {1} |->
                         [ino |-> 0, pos |-> 0, mode |-> {}, type |-> "volume"]]
          /\ unique' = 1 /\ dir' = dir /\ content' = content /\ effects' = effects
      BY <2>2 DEF Start, VolumeTable, VolumeHandle
    <3>2. [ino |-> 0, pos |-> 0, mode |-> {}, type |-> "volume"] \in Opens
      BY DEF Opens
    <3>3. table' \in [DOMAIN table' -> Opens] /\ DOMAIN table' \subseteq 1 .. unique'
      BY <3>1, <3>2
    <3>4. \A h \in DOMAIN table' : table'[h].ino = 0 /\ table'[h].mode = {}
      BY <3>1
    <3>5. Len(content') \in Nat
      BY <1>1, <3>1 DEF DiskType
    <3> QED BY <1>1, <3>1, <3>3, <3>4, <3>5 DEF DiskType
  <2>3. CASE Flush \/ Expire
    <3>1. UNCHANGED diskVars
      BY <2>3 DEF Flush, Expire
    <3> QED BY <1>1, <3>1, SameDiskType
  <2> QED BY <2>1, <2>2, <2>3 DEF ServerRestarts
<1> QED BY <1>2, <1>3, <1>4, <1>5 DEF TypeOK

-------------------------------------------------------------------------------
(* The steps of the client library.                                        *)

LEMMA ClientFields ==
    ASSUME NEW c \in Clients
    PROVE  /\ c.pc \in {"idle", "send", "wait", "more"} /\ c.op \in Ops \cup {"none"}
           /\ c.id \in Nat /\ c.tag \in Nat /\ c.h \in Int /\ c.name \in Names
           /\ c.to \in Names /\ c.mode \in SUBSET Modes /\ c.n \in Nat
           /\ c.parts \in Seq(Nat \ {0}) /\ c.part \in {1, 2}
           /\ c.todo \in Seq(Requests) /\ c.want \in Int /\ c.got \in Seq(Items)
BY DEF Clients

LEMMA NoCallFacts ==
    /\ NoCall \in Clients /\ NoCall.pc = "idle" /\ NoCall.op = "none"
    /\ NoCall.todo = <<>> /\ NoCall.part = 1
<1>1. /\ <<>> \in Seq(Requests) /\ <<>> \in Seq(Items) /\ <<>> \in Seq(Nat \ {0})
  BY NoElements
<1>2. /\ Root \in Int /\ FirstFile \in Names /\ {} \in SUBSET Modes
  BY DEF Root
<1> QED BY <1>1, <1>2 DEF NoCall, Clients

LEMMA NoResultFacts ==
    NoResult \in Results /\ NoResult.op = "none"
<1>1. <<>> \in Seq(Items)
  BY NoElements
<1> QED BY <1>1 DEF NoResult, Results, Statuses, Success, Unknown

\* The messages of a request.
LEMMA MessagesFacts ==
    ASSUME NEW c \in Clients, c.op \in Ops, <<c.id, c.part>> \in Ids,
           c.op = "write" => c.part \in DOMAIN c.parts
    PROVE  /\ Messages(c) \in Seq(Requests) /\ Messages(c) # <<>>
           /\ \A i \in DOMAIN Messages(c) :
                LET m == Messages(c)[i]
                IN /\ m.op = c.op /\ m.tag = c.tag /\ m.id = <<c.id, c.part>>
                   /\ m.lead => i = 1 /\ m.h = c.h
                   /\ ~m.lead => m.op = "write" /\ m.h = Garbage
                   /\ m.n = c.n
                   /\ m.op = "write" => Len(m.data) = 1 /\ m.total = c.parts[c.part]
           /\ c.op = "write" /\ c.parts[c.part] = 1 =>
                \A m \in ToSet(Messages(c)) : Whole(m)
<1>0. /\ c.id \in Nat /\ c.tag \in Nat /\ c.h \in Int /\ c.name \in Names
      /\ c.to \in Names /\ c.mode \in SUBSET Modes /\ c.n \in Nat
      /\ c.parts \in Seq(Nat \ {0}) /\ c.part \in {1, 2}
  BY ClientFields
<1>2. CASE c.op # "write"
  <2>0. PICK m : m = Request(c, TRUE, <<>>, 0)
    OBVIOUS
  <2>1. Messages(c) = <<m>>
    BY <1>2, <2>0 DEF Messages
  <2>2. <<>> \in Seq(Items) /\ TRUE \in BOOLEAN /\ 0 \in Nat
    BY NoElements
  <2>3. m \in Requests /\ m.op = c.op /\ m.tag = c.tag /\ m.id = <<c.id, c.part>>
        /\ m.lead /\ m.h = c.h /\ m.n = c.n
    BY <1>0, <2>0, <2>2 DEF Request, Requests
  <2>4. Messages(c) \in Seq(Requests) /\ Messages(c) # <<>> /\ DOMAIN Messages(c) = {1}
        /\ Messages(c)[1] = m
    BY <2>1, <2>3
  <2> QED BY <1>2, <2>3, <2>4
<1>3. CASE c.op = "write"
  <2> DEFINE n == c.parts[c.part]
             m(i) == Request(c, i = 1, <<<<c.id, c.part, i>>>>, n)
  <2>1. n \in Nat \ {0}
    BY <1>0, <1>3, SeqFacts
  <2>2. Messages(c) = [i \in 1 .. n |-> m(i)]
    BY <1>3 DEF Messages
  <2>3. ASSUME NEW i \in 1 .. n
        PROVE  /\ m(i) \in Requests /\ m(i).op = c.op /\ m(i).tag = c.tag
               /\ m(i).id = <<c.id, c.part>>
               /\ m(i).lead <=> i = 1
               /\ m(i).h = (IF m(i).lead THEN c.h ELSE Garbage)
               /\ Len(m(i).data) = 1 /\ m(i).total = n /\ m(i).n = c.n
    <3>1. PICK data : data = <<<<c.id, c.part, i>>>>
      OBVIOUS
    <3>2. data \in Seq(Items) /\ Len(data) = 1
      BY <1>0, <3>1 DEF Items
    <3>3. PICK h \in Int : h = IF i = 1 THEN c.h ELSE Garbage
      <4>1. Garbage \in Int
        BY DEF Garbage
      <4> QED BY <1>0, <4>1
    <3>4. PICK b \in BOOLEAN : b <=> (i = 1)
      <4>1. CASE i = 1
        BY <4>1
      <4>2. CASE i # 1
        BY <4>2
      <4> QED BY <4>1, <4>2
    <3>5. m(i) = [lead |-> b, op |-> c.op, tag |-> c.tag, id |-> <<c.id, c.part>>,
                  h |-> h, name |-> c.name, to |-> c.to, mode |-> c.mode, n |-> c.n,
                  data |-> data, total |-> n]
      <4>1. CASE i = 1
        <5>1. b = TRUE /\ (i = 1) = TRUE
          BY <3>4, <4>1
        <5> QED BY <3>1, <3>3, <5>1 DEF Request
      <4>2. CASE i # 1
        <5>1. b = FALSE /\ (i = 1) = FALSE
          BY <3>4, <4>2
        <5> QED BY <3>1, <3>3, <5>1 DEF Request
      <4> QED BY <4>1, <4>2
    <3> HIDE DEF n, m
    <3>6. /\ m(i).op = c.op /\ m(i).tag = c.tag /\ m(i).id = <<c.id, c.part>>
          /\ m(i).h = h /\ m(i).data = data /\ m(i).total = n /\ m(i).lead = b
          /\ m(i).n = c.n
      BY <3>5
    <3>7. m(i).lead <=> i = 1
      BY <3>4, <3>6
    <3>8. m(i) \in Requests
      BY <1>0, <2>1, <3>2, <3>5 DEF Requests
    <3> QED BY <3>2, <3>3, <3>6, <3>7, <3>8
  <2> HIDE DEF n, m
  <2>4. /\ Messages(c) \in [1 .. n -> Requests] /\ DOMAIN Messages(c) = 1 .. n
        /\ \A i \in 1 .. n : Messages(c)[i] = m(i)
    BY <2>2, <2>3
  <2>5. Messages(c) \in Seq(Requests) /\ Len(Messages(c)) = n
    BY <2>1, <2>4
  <2>6. Messages(c) # <<>>
    BY <2>1, <2>5, SeqFacts
  <2>7. ASSUME NEW i \in DOMAIN Messages(c)
        PROVE  LET k == Messages(c)[i]
               IN /\ k.op = c.op /\ k.tag = c.tag /\ k.id = <<c.id, c.part>>
                  /\ k.lead => i = 1 /\ k.h = c.h
                  /\ ~k.lead => k.op = "write" /\ k.h = Garbage
                  /\ k.n = c.n /\ Len(k.data) = 1 /\ k.total = n
    BY <1>3, <2>3, <2>4
  <2>8. ASSUME n = 1, NEW k \in ToSet(Messages(c))
        PROVE  k.lead /\ Len(k.data) = 1 /\ k.total = 1
    <3>1. k = m(1)
      BY <2>4, <2>8 DEF ToSet
    <3> QED BY <2>3, <2>8, <3>1
  <2> QED BY <2>5, <2>6, <2>7, <2>8 DEF n, Whole
<1> QED BY <1>2, <1>3

\* A call begins, or is refused because there is no service.
Begins ==
    /\ client.pc = "idle" /\ client'.pc = "send" /\ calls' = calls + 1
    /\ client'.id = calls' /\ client'.part = 1 /\ client'.tag = tag /\ tag' = tag + 1
    /\ client'.op \in Ops /\ (client'.op = "close" => client'.h \in DOMAIN held)
    /\ result' = NoResult
    /\ UNCHANGED <<held, svc, atou, utoa, host, diskVars, trouble, events>>
    /\ Halfway' => \A m \in ToSet(client'.todo) : Whole(m)
Unavailable ==
    /\ client.pc = "idle" /\ calls' = calls + 1
    /\ result'.op # "none" /\ result'.id = calls' /\ result'.status = "UNAVAIL"
    /\ result'.mine
    /\ UNCHANGED <<client, tag, active, held, svc, atou, utoa, host, diskVars, trouble,
                   events>>

LEMMA BeginShape ==
    ASSUME TypeOK, CallInv, NEW op \in Ops, NEW h \in Int, op = "close" => h \in DOMAIN held,
           Call(op, h)
    PROVE  TypeOK' /\ CallInv' /\ (Begins \/ Unavailable)
<1>1. PICK q \in Menu :
        LET c == [NoCall EXCEPT !.pc = "send", !.op = op, !.id = calls + 1,
                    !.tag = tag, !.h = h, !.name = q.name, !.to = q.to,
                    !.mode = q.mode, !.n = q.n, !.parts = q.parts]
        IN /\ client.pc = "idle" /\ q.op = op /\ calls < MaxCalls
           /\ calls' = calls + 1
           /\ IF op \in Checked /\ ~active /\ ~svc
              THEN /\ result' = [NoResult EXCEPT !.op = op, !.id = calls + 1,
                                                 !.status = "UNAVAIL"]
                   /\ UNCHANGED <<client, tag, active>>
              ELSE /\ client' = [c EXCEPT !.todo = Messages(c)]
                   /\ active' = (active \/ op \in Checked)
                   /\ tag' = NextTag(tag)
                   /\ result' = NoResult
           /\ UNCHANGED <<held, svc, atou, utoa, host, diskVars, trouble, events>>
  BY DEF Call
<1> DEFINE c == [NoCall EXCEPT !.pc = "send", !.op = op, !.id = calls + 1,
                    !.tag = tag, !.h = h, !.name = q.name, !.to = q.to,
                    !.mode = q.mode, !.n = q.n, !.parts = q.parts]
<1>2. /\ ClientType /\ HostType /\ DiskType /\ CollectType
      /\ svc \in BOOLEAN /\ atou \in Seq(Requests) /\ utoa \in Seq(Replies)
      /\ trouble \in Nat /\ events \subseteq Faults /\ tag \in Nat /\ active \in BOOLEAN
      /\ calls \in 0 .. MaxCalls /\ MaxCalls \in Nat /\ result \in Results /\ client \in Clients
      /\ held \in [DOMAIN held -> [ino : Nat, exp : Int]] /\ DOMAIN held \subseteq Int
  BY DEF TypeOK, ClientType
<1>3. calls' = calls + 1 /\ calls' \in 1 .. MaxCalls
  BY <1>1, <1>2
<1>4. /\ held' = held /\ svc' = svc /\ atou' = atou /\ utoa' = utoa /\ host' = host
      /\ UNCHANGED diskVars /\ trouble' = trouble /\ events' = events
  BY <1>1
<1>5. ClientType' => TypeOK'
  <2>1. HostType' /\ CollectType'
    BY <1>2, <1>4, SameHostType
  <2>2. DiskType'
    BY <1>2, <1>4, SameDiskType
  <2> QED BY <1>2, <1>4, <2>1, <2>2 DEF TypeOK
<1>6. CASE op \in Checked /\ ~active /\ ~svc
  <2>1. /\ result' = [NoResult EXCEPT !.op = op, !.id = calls + 1, !.status = "UNAVAIL"]
        /\ client' = client /\ tag' = tag /\ active' = active
    BY <1>1, <1>6
  <2>2. /\ result'.op = op /\ result'.id = calls' /\ result'.status = "UNAVAIL"
        /\ result'.mine = TRUE
    BY <1>3, <2>1 DEF NoResult
  <2>3. result' \in Results
    <3>1. <<>> \in Seq(Items)
      BY NoElements
    <3>2. result' = [op |-> op, id |-> calls', parts |-> 0, status |-> "UNAVAIL",
             data |-> <<>>, n |-> 0, ino |-> 0, exp |-> Unknown, mine |-> TRUE]
      BY <1>3, <2>1 DEF NoResult
    <3> QED BY <1>3, <3>1, <3>2 DEF Results, Unknown
  <2>4. ClientType'
    BY <1>2, <1>3, <1>4, <2>1, <2>3 DEF ClientType
  <2>5. op # "none"
    BY DEF Ops
  <2>6. CallInv'
    <3>1. ~Calling /\ ~Calling' /\ client = NoCall /\ TodoInv
      BY <1>1, <2>1 DEF CallInv, Calling
    <3>2. TodoInv'
      BY <2>1, <3>1 DEF TodoInv, Current, Carries
    <3>3. result'.op # "none" /\ result'.id = calls'
      BY <2>2, <2>5
    <3>4. atou' = atou /\ client' = client
      BY <1>4, <2>1
    <3> QED BY <3>1, <3>2, <3>3, <3>4 DEF CallInv
  <2>7. Unavailable
    BY <1>1, <1>3, <1>4, <2>1, <2>2, <2>5 DEF Unavailable
  <2> QED BY <1>5, <2>4, <2>6, <2>7
<1>7. CASE ~(op \in Checked /\ ~active /\ ~svc)
  <2>1. /\ client' = [c EXCEPT !.todo = Messages(c)]
        /\ active' = (active \/ op \in Checked) /\ tag' = tag + 1 /\ result' = NoResult
    BY <1>1, <1>7 DEF NextTag
  <2>2. /\ q.name \in Names /\ q.to \in Names /\ q.n \in Nat /\ q.mode \in SUBSET Modes
        /\ q.parts \in Seq(Nat \ {0}) /\ Len(q.parts) <= 2 /\ Len(q.parts) \in Nat
        /\ op = "write" => Len(q.parts) # 0
        /\ Len(q.parts) = 2 => q.parts[1] = 1
        /\ Len(q.parts) \in {0, 1, 2}
    <3>1. /\ q.name \in Names /\ q.to \in Names /\ q.n \in Nat /\ q.mode \subseteq Modes
          /\ q.parts \in Seq(Nat \ {0}) /\ Len(q.parts) <= 2
          /\ q.op = "write" => Len(q.parts) # 0
          /\ Len(q.parts) = 2 => q.parts[1] = 1
      BY MenuAssumption DEF Modes
    <3>2. Len(q.parts) \in {0, 1, 2}
      <4>1. Len(q.parts) \in Nat
        BY <3>1, SeqFacts
      <4>2. Len(q.parts) <= 2
        BY <3>1
      <4>3. \A k \in Nat : k <= 2 => k \in {0, 1, 2}
        OBVIOUS
      <4> QED BY <4>1, <4>2, <4>3
    <3> QED BY <1>1, <3>1, <3>2
  <2>4. /\ c.pc = "send" /\ c.op = op /\ c.id = calls + 1 /\ c.tag = tag /\ c.h = h
        /\ c.parts = q.parts /\ c.part = 1
    <3>1. c.pc = "send" /\ c.op = op /\ c.id = calls + 1
      BY Zenon DEF NoCall
    <3>2. c.tag = tag /\ c.h = h
      BY Zenon DEF NoCall
    <3>3. c.parts = q.parts /\ c.part = 1
      BY Zenon DEF NoCall
    <3> QED BY <3>1, <3>2, <3>3
  <2>5. c \in Clients
    <3> DEFINE c1 == [NoCall EXCEPT !.pc = "send", !.op = op]
               c2 == [c1 EXCEPT !.id = calls + 1, !.tag = tag]
               c3 == [c2 EXCEPT !.h = h, !.name = q.name]
               c4 == [c3 EXCEPT !.to = q.to, !.mode = q.mode]
    <3>0. c = [c4 EXCEPT !.n = q.n, !.parts = q.parts]
      OBVIOUS
    <3>1. c1 \in Clients
      BY NoCallFacts DEF Clients
    <3> HIDE DEF c, c1
    <3>2. c2 \in Clients
      <4>1. calls + 1 \in Nat
        BY <1>2
      <4> QED BY <1>2, <3>1, <4>1 DEF Clients
    <3> HIDE DEF c2
    <3>3. c3 \in Clients
      BY <2>2, <3>2 DEF Clients
    <3> HIDE DEF c3
    <3>4. c4 \in Clients
      BY <2>2, <3>3 DEF Clients
    <3> HIDE DEF c4
    <3> QED BY <2>2, <3>0, <3>4 DEF Clients
  <2> HIDE DEF c
  <2>6. <<c.id, c.part>> \in Ids
    BY <1>2, <1>3, <2>4 DEF Ids
  <2>7. c.op = "write" => c.part \in DOMAIN c.parts
    BY <2>2, <2>4, SeqFacts
  <2>8. /\ Messages(c) \in Seq(Requests) /\ Messages(c) # <<>>
        /\ \A i \in DOMAIN Messages(c) :
             LET m == Messages(c)[i]
             IN /\ m.op = c.op /\ m.tag = c.tag /\ m.id = <<c.id, c.part>>
                /\ m.lead => i = 1 /\ m.h = c.h
                /\ ~m.lead => m.op = "write" /\ m.h = Garbage
                /\ m.n = c.n
                /\ m.op = "write" => Len(m.data) = 1 /\ m.total = c.parts[c.part]
        /\ c.op = "write" /\ c.parts[c.part] = 1 => \A m \in ToSet(Messages(c)) : Whole(m)
    BY <2>4, <2>5, <2>6, <2>7, MessagesFacts
  <2>9. /\ client' \in Clients /\ client'.pc = "send" /\ client'.op = op
        /\ client'.id = calls' /\ client'.tag = tag /\ client'.h = h
        /\ client'.parts = q.parts /\ client'.part = 1 /\ client'.todo = Messages(c)
        /\ client'.n = c.n
    <3>1. /\ client' \in Clients /\ client'.pc = c.pc /\ client'.op = c.op
          /\ client'.id = c.id /\ client'.tag = c.tag /\ client'.h = c.h
          /\ client'.parts = c.parts /\ client'.part = c.part /\ client'.todo = Messages(c)
          /\ client'.n = c.n
      BY <2>1, <2>5, <2>8 DEF Clients
    <3> QED BY <1>3, <2>4, <3>1
  <2>10. ClientType'
    <3>1. active' \in BOOLEAN
      BY <2>1
    <3> QED BY <1>2, <1>3, <1>4, <2>1, <2>9, <3>1, NoResultFacts DEF ClientType
  <2>11. TodoInv'
    <3>1. <<client'.id, client'.part>> = <<c.id, c.part>> /\ client'.tag = c.tag
          /\ client'.op = c.op /\ client'.h = c.h /\ client'.todo = Messages(c)
          /\ client'.n = c.n /\ client'.parts[client'.part] = c.parts[c.part]
      BY <1>3, <2>4, <2>9
    <3> QED BY <2>8, <3>1 DEF TodoInv, Current, Carries
  <2>12. CurrentCall' /\ Calling'
    <3>1. op = "write" => /\ Len(client'.parts) \in {1, 2}
                          /\ Len(client'.parts) = 2 => client'.parts[1] = 1
      <4>1. op = "write" => Len(q.parts) \in {1, 2}
        BY <2>2
      <4> QED BY <2>2, <2>9, <4>1
    <3>2. client'.id = calls' /\ calls' # 0 /\ result' = NoResult /\ client'.pc # "more"
          /\ client'.pc # "idle" /\ client'.op \in Ops
      BY <1>3, <2>1, <2>9
    <3> QED BY <2>9, <3>1, <3>2 DEF CurrentCall, Calling
  <2>13. CallInv'
    BY <1>3, <1>4, <2>1, <2>8, <2>9, <2>11, <2>12, NoResultFacts DEF CallInv, Calling
  <2>14. Halfway' => \A m \in ToSet(client'.todo) : Whole(m)
    <3> HAVE Halfway'
    <3>1. op = "write" /\ 1 < Len(q.parts)
      BY <2>9 DEF Halfway
    <3>2. c.parts[c.part] = 1
      <4>1. Len(q.parts) = 2
        <5>1. Len(q.parts) \in {0, 1, 2}
          BY <2>2
        <5>2. 1 < Len(q.parts)
          BY <3>1
        <5>3. \A k \in {0, 1, 2} : 1 < k => k = 2
          OBVIOUS
        <5> QED BY <5>1, <5>2, <5>3
      <4> QED BY <2>2, <2>4, <4>1
    <3> QED BY <2>4, <2>8, <2>9, <3>1, <3>2
  <2>15. Begins
    BY <1>1, <1>3, <1>4, <2>1, <2>9, <2>14 DEF Begins
  <2> QED BY <1>5, <2>10, <2>13, <2>15
<1> QED BY <1>6, <1>7

\* The call in progress goes on.
SameCall ==
    /\ client.pc # "idle" /\ client'.pc # "idle"
    /\ client'.id = client.id /\ client'.tag = client.tag /\ client'.op = client.op
    /\ client'.h = client.h /\ client'.parts = client.parts /\ client'.n = client.n

\* A message of the request is sent, once or twice.
Sends ==
    /\ client.pc = "send" /\ client.todo # <<>> /\ SameCall /\ client'.part = client.part
    /\ Head(client.todo) \in Requests /\ Head(client.todo) = client.todo[1]
    /\ Head(client.todo) \in ToSet(client.todo)
    /\ client'.pc \in {"send", "wait"}
    /\ ToSet(client'.todo) \subseteq ToSet(client.todo)
    /\ \A m \in ToSet(client'.todo) : ~m.lead
    /\ ToSet(atou') = ToSet(atou) \cup {Head(client.todo)}
    /\ atou' = Append(atou, Head(client.todo)) \/ "repeated" \in events'
    /\ events \subseteq events'
    /\ UNCHANGED <<tag, active, held, calls, result, svc, utoa, host, diskVars>>

LEMMA SentFacts ==
    ASSUME TypeOK, CallInv, client.pc = "send", client' = Sent
    PROVE  /\ client' \in Clients /\ SameCall /\ client'.part = client.part
           /\ client.todo # <<>> /\ Head(client.todo) \in Requests
           /\ Head(client.todo) = client.todo[1] /\ 1 \in DOMAIN client.todo
           /\ Head(client.todo) \in ToSet(client.todo)
           /\ client'.pc \in {"send", "wait"} /\ (client'.pc = "send" <=> client'.todo # <<>>)
           /\ client'.todo = Tail(client.todo)
           /\ ToSet(client'.todo) \subseteq ToSet(client.todo)
           /\ \A m \in ToSet(client'.todo) : ~m.lead
           /\ TodoInv'
<1>1. client \in Clients /\ client.todo # <<>> /\ client.todo \in Seq(Requests) /\ TodoInv
  BY ClientFields DEF TypeOK, ClientType, CallInv
<1>2. /\ Head(client.todo) \in Requests /\ Tail(client.todo) \in Seq(Requests)
      /\ 1 \in DOMAIN client.todo /\ Head(client.todo) = client.todo[1]
      /\ Len(Tail(client.todo)) = Len(client.todo) - 1
      /\ \A i \in DOMAIN Tail(client.todo) :
            i + 1 \in DOMAIN client.todo /\ Tail(client.todo)[i] = client.todo[i + 1]
      /\ Head(client.todo) \in ToSet(client.todo)
      /\ ToSet(Tail(client.todo)) \subseteq ToSet(client.todo)
  BY <1>1, TailFacts
<1>3. Len(client.todo) \in Nat /\ DOMAIN Tail(client.todo) = 1 .. Len(Tail(client.todo))
      /\ (Tail(client.todo) = <<>> <=> Len(Tail(client.todo)) = 0)
  BY <1>1, <1>2, SeqFacts
<1>4. /\ client' \in Clients /\ client'.todo = Tail(client.todo)
      /\ client'.pc \in {"send", "wait"} /\ (client'.pc = "send" <=> client'.todo # <<>>)
      /\ client'.id = client.id /\ client'.tag = client.tag /\ client'.op = client.op
      /\ client'.h = client.h /\ client'.parts = client.parts /\ client'.part = client.part
      /\ client'.n = client.n
  <2>1. CASE Len(client.todo) = 1
    <3>1. client' = [client EXCEPT !.todo = <<>>, !.pc = "wait"]
      BY <2>1 DEF Sent
    <3>2. Tail(client.todo) = <<>>
      BY <1>2, <1>3, <2>1
    <3>3. <<>> \in Seq(Requests)
      BY NoElements
    <3> QED BY <1>1, <3>1, <3>2, <3>3 DEF Clients
  <2>2. CASE Len(client.todo) # 1
    <3>1. client' = [client EXCEPT !.todo = Tail(client.todo)]
      BY <2>2 DEF Sent
    <3>2. Tail(client.todo) # <<>>
      BY <1>2, <1>3, <2>2
    <3> QED BY <1>1, <1>2, <3>1, <3>2 DEF Clients
  <2> QED BY <2>1, <2>2
<1>5. ASSUME NEW i \in DOMAIN Tail(client.todo)
      PROVE  /\ ~Tail(client.todo)[i].lead
             /\ Tail(client.todo)[i] = client.todo[i + 1] /\ i + 1 \in DOMAIN client.todo
  <2>1. i \in Nat /\ i + 1 # 1
    BY <1>3
  <2> QED BY <1>1, <1>2, <2>1 DEF TodoInv
<1>6. \A m \in ToSet(client'.todo) : ~m.lead
  BY <1>4, <1>5 DEF ToSet
<1>7. TodoInv'
  <2> SUFFICES ASSUME NEW i \in DOMAIN client'.todo
               PROVE  LET m == client'.todo[i]
                      IN /\ m.op = client'.op /\ m.tag = client'.tag
                         /\ m.id = <<client'.id, client'.part>>
                         /\ m.lead => i = 1 /\ m.h = client'.h
                         /\ ~m.lead => m.op = "write" /\ m.h = Garbage
                         /\ m.n = client'.n
                         /\ m.op = "write" =>
                              Len(m.data) = 1 /\ m.total = client'.parts[client'.part]
    BY DEF TodoInv, Current, Carries
  <2>1. client'.todo[i] = client.todo[i + 1] /\ i + 1 \in DOMAIN client.todo
        /\ ~client'.todo[i].lead
    BY <1>4, <1>5
  <2>2. LET m == client.todo[i + 1]
        IN /\ m.op = client.op /\ m.tag = client.tag
           /\ m.id = <<client.id, client.part>>
           /\ ~m.lead => m.op = "write" /\ m.h = Garbage
           /\ m.n = client.n
           /\ m.op = "write" => Len(m.data) = 1 /\ m.total = client.parts[client.part]
    BY <1>1, <2>1 DEF TodoInv, Current, Carries
  <2> QED BY <1>4, <2>1, <2>2
<1> QED BY <1>1, <1>2, <1>4, <1>6, <1>7 DEF SameCall

\* The parts of the type and of the invariant that only a call can break.
LEMMA SameCallInv ==
    ASSUME CallInv, SameCall, client'.part = client.part, calls' = calls, result' = result,
           client'.pc = "more" => client.op = "read"
    PROVE  CurrentCall'
BY DEF CallInv, SameCall, CurrentCall, Calling

LEMMA SendShape ==
    ASSUME TypeOK, CallInv, SendOne \/ SendTwice
    PROVE  TypeOK' /\ CallInv' /\ Sends
<1> DEFINE m == Head(client.todo)
<1>1. /\ client.pc = "send" /\ client' = Sent
      /\ UNCHANGED <<tag, active, held, calls, result, svc, utoa, host, diskVars>>
      /\ trouble' \in {trouble, trouble + 1}
      /\ events' \in {events, events \cup {"repeated"}}
      /\ \/ atou' = Append(atou, m)
         \/ atou' = atou \o <<m, m>> /\ "repeated" \in events'
  BY DEF SendOne, SendTwice, Trouble, Happened
<1>2. /\ client' \in Clients /\ SameCall /\ client'.part = client.part
      /\ client.todo # <<>> /\ m \in Requests
      /\ m = client.todo[1] /\ 1 \in DOMAIN client.todo
      /\ m \in ToSet(client.todo)
      /\ client'.pc \in {"send", "wait"} /\ (client'.pc = "send" <=> client'.todo # <<>>)
      /\ ToSet(client'.todo) \subseteq ToSet(client.todo)
      /\ \A k \in ToSet(client'.todo) : ~k.lead
      /\ TodoInv'
  BY <1>1, SentFacts
<1>3. /\ ClientType /\ HostType /\ DiskType /\ CollectType
      /\ svc \in BOOLEAN /\ atou \in Seq(Requests) /\ utoa \in Seq(Replies)
      /\ trouble \in Nat /\ events \subseteq Faults
  BY DEF TypeOK
<1> HIDE DEF m
<1>4. atou' \in Seq(Requests) /\ ToSet(atou') = ToSet(atou) \cup {m}
  <2>1. Append(atou, m) \in Seq(Requests) /\ ToSet(Append(atou, m)) = ToSet(atou) \cup {m}
    BY <1>2, <1>3, AppendFacts
  <2>2. atou \o <<m, m>> \in Seq(Requests) /\ ToSet(atou \o <<m, m>>) = ToSet(atou) \cup {m}
    BY <1>2, <1>3, TwiceFacts
  <2> QED BY <1>1, <2>1, <2>2
<1>5. events \subseteq events' /\ events' \subseteq Faults
  BY <1>1, <1>3 DEF Faults
<1>6. Sends
  BY <1>1, <1>2, <1>4, <1>5 DEF Sends, m
<1>7. TypeOK'
  <2>1. ClientType'
    BY <1>1, <1>2, <1>3 DEF ClientType
  <2>2. HostType' /\ CollectType' /\ DiskType'
    BY <1>1, <1>3, SameHostType, SameDiskType
  <2>3. trouble' \in Nat
    BY <1>1, <1>3
  <2> QED BY <1>1, <1>3, <1>4, <1>5, <2>1, <2>2, <2>3 DEF TypeOK
<1>8. CallInv'
  <2>1. CurrentCall'
    BY <1>1, <1>2, SameCallInv
  <2>2. \A k \in ToSet(atou') : Follows(k)
    <3>1. Follows(m)
      BY <1>2 DEF CallInv, TodoInv, Follows
    <3> QED BY <1>4, <3>1 DEF CallInv
  <2>3. result' = NoResult \/ (result'.op # "none" /\ result'.id = calls')
    BY <1>1 DEF CallInv
  <2>4. Calling'
    BY <1>2 DEF Calling
  <2> QED BY <1>2, <2>1, <2>2, <2>3, <2>4 DEF CallInv
<1> QED BY <1>6, <1>7, <1>8

\* What the program holds when a call ends.
HeldAfter(status, h, ino) == \A k \in DOMAIN held' :
    \/ /\ k \in DOMAIN held /\ held'[k].ino = held[k].ino
       /\ ~(client.op = "close" /\ client.h = k)
    \/ client.op = "open" /\ status = "OK" /\ k = h /\ held'[k].ino = ino

LEMMA ExpectFacts ==
    ASSUME ClientType, NEW h \in Int, NEW p, h \in DOMAIN held => p \in Int,
           held' = Expect(h, p)
    PROVE  /\ DOMAIN held' = DOMAIN held /\ held' \in [DOMAIN held' -> [ino : Nat, exp : Int]]
           /\ \A k \in DOMAIN held : held'[k].ino = held[k].ino
<1>1. held \in [DOMAIN held -> [ino : Nat, exp : Int]]
  BY DEF ClientType
<1>2. held' = [k \in DOMAIN held |-> IF k = h THEN [held[k] EXCEPT !.exp = p] ELSE held[k]]
  BY DEF Expect
<1>3. ASSUME NEW k \in DOMAIN held
      PROVE  held'[k] \in [ino : Nat, exp : Int] /\ held'[k].ino = held[k].ino
  <2>1. held[k] \in [ino : Nat, exp : Int]
    BY <1>1
  <2>2. CASE k = h
    <3>1. held'[k] = [held[k] EXCEPT !.exp = p] /\ p \in Int
      BY <1>2, <2>2
    <3> QED BY <2>1, <3>1
  <2>3. CASE k # h
    BY <1>2, <2>1, <2>3
  <2> QED BY <2>2, <2>3
<1>4. DOMAIN held' = DOMAIN held /\ held' = [k \in DOMAIN held' |-> held'[k]]
  BY <1>2
<1> QED BY <1>3, <1>4

LEMMA HeldFacts ==
    ASSUME TypeOK, CallInv, Calling, NEW status, NEW data \in Seq(Items), NEW h \in Int,
           NEW ino \in Nat, NEW mine, Return(status, data, h, ino, mine)
    PROVE  /\ held' \in [DOMAIN held' -> [ino : Nat, exp : Int]] /\ DOMAIN held' \subseteq Int
           /\ HeldAfter(status, h, ino)
<1>1. held' = CASE client.op = "open" /\ status = "OK" ->
                         [k \in DOMAIN held \cup {h} |->
                            IF k = h THEN [ino |-> ino, exp |-> 0] ELSE held[k]]
                    [] client.op = "close" -> Dropping(client.h)
                    [] client.op = "read" ->
                         IF status \in Success THEN Advance(client.h, Len(data))
                         ELSE Expect(client.h, Unknown)
                    [] client.op = "write" ->
                         IF status = "OK" THEN Advance(client.h, Written(client))
                         ELSE Expect(client.h, Unknown)
                    [] client.op = "seek" ->
                         Expect(client.h, IF status = "OK" THEN 0 ELSE Unknown)
                    [] OTHER -> held
  BY DEF Return
<1>2. ClientType /\ client.h \in Int /\ Len(data) \in Nat
      /\ held \in [DOMAIN held -> [ino : Nat, exp : Int]] /\ DOMAIN held \subseteq Int
  BY ClientFields, SeqFacts DEF TypeOK, ClientType
<1>3. ASSUME NEW p, client.h \in DOMAIN held => p \in Int, held' = Expect(client.h, p),
             client.op # "close"
      PROVE  /\ held' \in [DOMAIN held' -> [ino : Nat, exp : Int]] /\ DOMAIN held' \subseteq Int
             /\ HeldAfter(status, h, ino)
  <2>1. /\ DOMAIN held' = DOMAIN held /\ held' \in [DOMAIN held' -> [ino : Nat, exp : Int]]
        /\ \A k \in DOMAIN held : held'[k].ino = held[k].ino
    BY <1>2, <1>3, ExpectFacts
  <2> QED BY <1>2, <1>3, <2>1 DEF HeldAfter
<1>4. ASSUME NEW n \in Nat, held' = Advance(client.h, n), client.op # "close"
      PROVE  /\ held' \in [DOMAIN held' -> [ino : Nat, exp : Int]] /\ DOMAIN held' \subseteq Int
             /\ HeldAfter(status, h, ino)
  <2> DEFINE p == IF held[client.h].exp = Unknown THEN Unknown ELSE held[client.h].exp + n
  <2>1. held' = Expect(client.h, p)
    BY <1>4 DEF Advance
  <2>2. ASSUME client.h \in DOMAIN held
        PROVE  p \in Int
    <3>1. held[client.h].exp \in Int
      BY <1>2, <2>2
    <3> QED BY <1>4, <3>1 DEF Unknown
  <2> HIDE DEF p
  <2> QED BY <1>3, <1>4, <2>1, <2>2
<1>5. CASE client.op = "open" /\ status = "OK"
  <2>1. held' = [k \in DOMAIN held \cup {h} |->
                    IF k = h THEN [ino |-> ino, exp |-> 0] ELSE held[k]]
    BY <1>1, <1>5
  <2>2. ASSUME NEW k \in DOMAIN held \cup {h}
        PROVE  /\ held'[k] \in [ino : Nat, exp : Int]
               /\ k = h => held'[k].ino = ino
               /\ k # h => held'[k] = held[k] /\ k \in DOMAIN held
    <3>1. CASE k = h
      BY <2>1, <3>1
    <3>2. CASE k # h
      BY <1>2, <2>1, <3>2
    <3> QED BY <3>1, <3>2
  <2>3. DOMAIN held' = DOMAIN held \cup {h} /\ held' = [k \in DOMAIN held' |-> held'[k]]
    BY <2>1
  <2>4. held' \in [DOMAIN held' -> [ino : Nat, exp : Int]] /\ DOMAIN held' \subseteq Int
    BY <1>2, <2>2, <2>3
  <2> QED BY <1>5, <2>2, <2>3, <2>4 DEF HeldAfter
<1>6. CASE client.op = "close"
  <2>1. held' = [k \in DOMAIN held \ {client.h} |-> held[k]]
    BY <1>1, <1>6 DEF Dropping
  <2>2. held' \in [DOMAIN held' -> [ino : Nat, exp : Int]]
    BY <1>2, <2>1
  <2> QED BY <1>2, <2>1, <2>2 DEF HeldAfter
<1>7. CASE client.op = "read"
  <2>1. CASE status \in Success
    <3>1. held' = Advance(client.h, Len(data))
      BY <1>1, <1>7, <2>1
    <3> QED BY <1>2, <1>4, <1>7, <3>1
  <2>2. CASE status \notin Success
    <3>1. held' = Expect(client.h, Unknown) /\ Unknown \in Int
      BY <1>1, <1>7, <2>2 DEF Unknown
    <3> QED BY <1>3, <1>7, <3>1
  <2> QED BY <2>1, <2>2
<1>8. CASE client.op = "write"
  <2>1. CASE status = "OK"
    <3>1. held' = Advance(client.h, Written(client))
      BY <1>1, <1>8, <2>1
    <3>2. Written(client) \in Nat
      <4>1. client.parts \in Seq(Nat \ {0}) /\ Len(client.parts) \in {1, 2}
        BY <1>8, ClientFields DEF CallInv, CurrentCall, TypeOK, ClientType
      <4>2. client.parts[1] \in Nat /\ (Len(client.parts) = 2 => client.parts[2] \in Nat)
        BY <4>1
      <4> QED BY <4>2 DEF Written
    <3> QED BY <1>4, <1>8, <3>1, <3>2
  <2>2. CASE status # "OK"
    <3>1. held' = Expect(client.h, Unknown) /\ Unknown \in Int
      BY <1>1, <1>8, <2>2 DEF Unknown
    <3> QED BY <1>3, <1>8, <3>1
  <2> QED BY <2>1, <2>2
<1>9. CASE client.op = "seek"
  <2>1. PICK p \in Int : held' = Expect(client.h, p)
    <3>1. held' = Expect(client.h, IF status = "OK" THEN 0 ELSE Unknown)
      BY <1>1, <1>9
    <3>2. (IF status = "OK" THEN 0 ELSE Unknown) \in Int
      BY DEF Unknown
    <3> QED BY <3>1, <3>2
  <2> QED BY <1>3, <1>9, <2>1
<1>10. CASE /\ client.op \notin {"close", "read", "write", "seek"}
            /\ ~(client.op = "open" /\ status = "OK")
  <2>1. held' = held
    BY <1>1, <1>10
  <2> QED BY <1>2, <1>10, <2>1 DEF HeldAfter
<1> QED BY <1>5, <1>6, <1>7, <1>8, <1>9, <1>10

LEMMA ReturnFacts ==
    ASSUME TypeOK, CallInv, Calling,
           NEW status \in Statuses \cup {"BADLEN", "NODATA", "GAVEUP"},
           NEW data \in Seq(Items), NEW h \in Int, NEW ino \in Nat, NEW mine \in BOOLEAN,
           Return(status, data, h, ino, mine)
    PROVE  /\ ClientType' /\ client' = NoCall /\ tag' = tag /\ calls' = calls
           /\ result'.op = client.op /\ result'.id = client.id /\ result'.status = status
           /\ result'.parts = Len(client.parts) /\ result'.mine = mine
           /\ HeldAfter(status, h, ino)
<1>1. /\ held' \in [DOMAIN held' -> [ino : Nat, exp : Int]] /\ DOMAIN held' \subseteq Int
      /\ HeldAfter(status, h, ino)
  BY HeldFacts
<1>2. /\ client \in Clients /\ client.op \in Ops \cup {"none"} /\ client.id \in Nat
      /\ client.n \in Nat /\ Len(client.parts) \in Nat /\ client.h \in Int
  <2>1. client \in Clients
    BY DEF TypeOK, ClientType
  <2> QED BY <2>1, ClientFields, SeqFacts
<1>3. PICK i \in Nat : i = IF client.h \in DOMAIN held THEN held[client.h].ino ELSE ino
  BY DEF TypeOK, ClientType
<1>4. PICK e \in Int : e = IF client.h \in DOMAIN held THEN held[client.h].exp ELSE Unknown
  <2>1. ASSUME client.h \in DOMAIN held
        PROVE  held[client.h].exp \in Int
    BY <2>1 DEF TypeOK, ClientType
  <2>2. Unknown \in Int
    BY DEF Unknown
  <2> QED BY <2>1, <2>2
<1>5. result' = [op |-> client.op, id |-> client.id, parts |-> Len(client.parts),
                 status |-> status, data |-> data, n |-> client.n, ino |-> i,
                 exp |-> e, mine |-> mine]
  BY <1>3, <1>4 DEF Return
<1>6. /\ result'.op = client.op /\ result'.id = client.id /\ result'.status = status
      /\ result'.parts = Len(client.parts) /\ result'.mine = mine
  BY <1>5
<1>7. result' \in Results
  BY <1>2, <1>5 DEF Results
<1>8. client' = NoCall /\ tag' = tag /\ calls' = calls
      /\ active' = IF status = "NODATA" /\ client.op \in Checked \ {"path"} THEN svc ELSE active
  BY DEF Return
<1>9. active' \in BOOLEAN
  BY <1>8 DEF TypeOK, ClientType
<1>10. ClientType'
  BY <1>1, <1>7, <1>8, <1>9, NoCallFacts DEF TypeOK, ClientType
<1> QED BY <1>1, <1>6, <1>8, <1>10

\* An answer is taken: for another call, or the first of several, or for the
\* first part of a write; or the call ends, with an answer or without.
Taken == utoa # <<>> /\ utoa' = Tail(utoa)
Rest == UNCHANGED <<svc, atou, host, diskVars>> /\ trouble' \in {trouble, trouble + 1}

Drops == Taken /\ Rest /\ UNCHANGED clientVars /\ events' = events
Proceeds ==
    /\ Taken /\ Rest /\ events' = events
    /\ SameCall /\ client'.part = client.part /\ client'.pc = "more" /\ client.op = "read"
    /\ UNCHANGED <<tag, active, held, calls, result>>
NextPart ==
    /\ Taken /\ Rest /\ events' = events
    /\ SameCall /\ client'.pc = "send" /\ client.op = "write"
    /\ client.part = 1 /\ Len(client.parts) = 2 /\ client'.part = 2
    /\ Head(utoa).tag = client.tag /\ Head(utoa).status = "OK"
    /\ UNCHANGED <<tag, active, held, calls, result>>

\* What the program is told is what answer r says.
Repeats(r) ==
    /\ r.tag = client.tag /\ (r.id = Current => result'.mine)
    /\ result'.status \in Statuses
    /\ result'.status \in Success => r.status \in Success
    /\ result'.status \in HostErrors => r.status \in HostErrors
    /\ client.op = "write" =>
         /\ result'.status = r.status
         /\ r.status = "OK" => client.part = Len(client.parts)
    /\ HeldAfter(r.status, r.h, r.ino)
Ends ==
    /\ Calling /\ client' = NoCall /\ Rest /\ events' = events
    /\ tag' = tag /\ calls' = calls
    /\ result'.op = client.op /\ result'.id = client.id
    /\ result'.parts = Len(client.parts)
    /\ \/ /\ (utoa' = utoa \/ Taken)
          /\ result'.mine /\ result'.status \in {"BADLEN", "NODATA", "GAVEUP"}
          /\ HeldAfter(result'.status, NoParent, 0)
       \/ Taken /\ Repeats(Head(utoa))

LEMMA ReplyType ==
    ASSUME NEW r \in Replies
    PROVE  /\ r.tag \in Nat /\ r.id \in Ids /\ r.status \in Statuses /\ r.h \in Int
           /\ r.ino \in Nat /\ r.total \in Nat /\ r.data \in Seq(Items) /\ r.lead \in BOOLEAN
BY DEF Replies

LEMMA HeadReply ==
    ASSUME TypeOK, utoa # <<>>
    PROVE  Head(utoa) \in Replies /\ Tail(utoa) \in Seq(Replies)
BY TailFacts DEF TypeOK

LEMMA TakenType ==
    ASSUME TypeOK, ClientType', Rest, utoa' = utoa \/ Taken, events' = events
    PROVE  TypeOK'
<1>1. /\ HostType /\ DiskType /\ CollectType /\ svc \in BOOLEAN /\ atou \in Seq(Requests)
      /\ utoa \in Seq(Replies) /\ trouble \in Nat /\ events \subseteq Faults
  BY DEF TypeOK
<1>2. svc' = svc /\ atou' = atou /\ host' = host /\ UNCHANGED diskVars /\ trouble' \in Nat
  BY <1>1 DEF Rest
<1>3. HostType' /\ CollectType' /\ DiskType'
  BY <1>1, <1>2, SameHostType, SameDiskType
<1>4. utoa' \in Seq(Replies)
  BY <1>1, HeadReply DEF Taken
<1> QED BY <1>1, <1>2, <1>3, <1>4 DEF TypeOK

LEMMA EndsInv ==
    ASSUME TypeOK, CallInv, Ends, ClientType'
    PROVE  TypeOK' /\ CallInv'
<1>1. TypeOK'
  BY TakenType DEF Ends
<1>2. CallInv'
  <2>1. ~Calling' /\ client' = NoCall /\ client'.pc = "idle" /\ client'.todo = <<>>
    BY NoCallFacts DEF Ends, Calling
  <2>2. TodoInv'
    BY <2>1 DEF TodoInv
  <2>3. \A m \in ToSet(atou') : Follows(m)
    BY DEF CallInv, Ends, Rest
  <2>4. result'.op # "none" /\ result'.id = calls'
    BY DEF CallInv, CurrentCall, Ends, Ops
  <2> QED BY <2>1, <2>2, <2>3, <2>4 DEF CallInv
<1> QED BY <1>1, <1>2

LEMMA FailShape ==
    ASSUME TypeOK, CallInv, SendRefused \/ TimeOut \/ GiveUp
    PROVE  TypeOK' /\ CallInv' /\ Ends
<1>1. PICK status \in {"BADLEN", "NODATA", "GAVEUP"} :
        Return(status, <<>>, NoParent, 0, TRUE)
  BY DEF SendRefused, TimeOut, GiveUp, Fail
<1>2. /\ Calling /\ (utoa' = utoa \/ Taken)
      /\ UNCHANGED <<svc, atou, host, diskVars, trouble, events>>
  BY DEF SendRefused, TimeOut, GiveUp, Calling, Waits, Taken
<1>3. <<>> \in Seq(Items) /\ NoParent \in Int
  BY NoElements DEF NoParent
<1>4. /\ ClientType' /\ client' = NoCall /\ tag' = tag /\ calls' = calls
      /\ result'.op = client.op /\ result'.id = client.id /\ result'.status = status
      /\ result'.parts = Len(client.parts) /\ result'.mine = TRUE
      /\ HeldAfter(status, NoParent, 0)
  BY <1>1, <1>2, <1>3, ReturnFacts
<1>5. Ends
  BY <1>2, <1>4 DEF Ends, Rest
<1> QED BY <1>4, <1>5, EndsInv

LEMMA DropShape ==
    ASSUME TypeOK, CallInv, Discard \/ ReceiveLost
    PROVE  TypeOK' /\ CallInv' /\ Drops
<1>1. Drops
  BY DEF Discard, ReceiveLost, Drops, Taken, Rest, Trouble
<1>2. UNCHANGED <<client, tag, active, held, calls, result>> /\ atou' = atou
  BY <1>1 DEF Drops, clientVars, Rest
<1>3. ClientType'
  BY <1>2, SameClientType DEF TypeOK, clientVars
<1>4. TypeOK'
  BY <1>1, <1>3, TakenType DEF Drops
<1>5. CallInv'
  BY <1>2 DEF CallInv, TodoInv, Carries, CurrentCall, Calling, Current
<1> QED BY <1>1, <1>4, <1>5

\* A read has received some of its messages.
LEMMA ProceedShape ==
    ASSUME TypeOK, CallInv, Waits(client), client.op = "read", Taken, Rest, events' = events,
           NEW want \in Int, NEW got \in Seq(Items),
           client' = [client EXCEPT !.pc = "more", !.want = want, !.got = got],
           UNCHANGED <<tag, active, held, calls, result>>
    PROVE  TypeOK' /\ CallInv' /\ Proceeds
<1>1. client \in Clients /\ client.pc \in {"wait", "more"}
  BY DEF TypeOK, ClientType, Waits
<1>2. /\ client' \in Clients /\ client'.pc = "more" /\ client'.id = client.id
      /\ client'.tag = client.tag /\ client'.op = client.op /\ client'.h = client.h
  BY <1>1 DEF Clients
<1>3. /\ client'.parts = client.parts /\ client'.part = client.part
      /\ client'.todo = client.todo /\ client'.n = client.n
  BY <1>1 DEF Clients
<1>4. Proceeds
  BY <1>1, <1>2, <1>3 DEF Proceeds, SameCall
<1>5. ClientType'
  BY <1>2 DEF TypeOK, ClientType
<1>6. TypeOK'
  BY <1>5, TakenType
<1>7. CallInv'
  <2>1. CurrentCall'
    BY <1>2, <1>3, <1>4, SameCallInv DEF Proceeds
  <2>2. client.todo = <<>> /\ client'.todo = <<>> /\ client'.pc = "more"
    BY <1>1, <1>2, <1>3 DEF CallInv
  <2>3. TodoInv'
    BY <2>2 DEF TodoInv
  <2>4. atou' = atou /\ result' = result /\ calls' = calls
    BY DEF Rest
  <2> QED BY <2>1, <2>2, <2>3, <2>4 DEF CallInv, Calling
<1> QED BY <1>4, <1>6, <1>7

\* The second part of a write begins.
LEMMA NextShape ==
    ASSUME TypeOK, CallInv, client.pc = "wait", client.op = "write", Taken, Rest,
           events' = events, client.part < Len(client.parts),
           Head(utoa).tag = client.tag, Head(utoa).status = "OK",
           LET d == [client EXCEPT !.part = @ + 1, !.pc = "send"]
           IN client' = [d EXCEPT !.todo = Messages(d)],
           UNCHANGED <<tag, active, held, calls, result>>
    PROVE  TypeOK' /\ CallInv' /\ NextPart
<1> DEFINE d == [client EXCEPT !.part = @ + 1, !.pc = "send"]
<1>1. /\ client \in Clients /\ client.part \in {1, 2} /\ client.parts \in Seq(Nat \ {0})
      /\ calls \in 0 .. MaxCalls
  BY ClientFields DEF TypeOK, ClientType
<1>2. CurrentCall /\ Len(client.parts) \in {1, 2}
  BY DEF CallInv, Calling, CurrentCall
<1>3. client.part = 1 /\ Len(client.parts) = 2
  <2>1. client.part < Len(client.parts)
    OBVIOUS
  <2>2. \A i, n \in {1, 2} : i < n => i = 1 /\ n = 2
    OBVIOUS
  <2> QED BY <1>1, <1>2, <2>1, <2>2
<1>4. /\ d \in Clients /\ d.part = 2 /\ d.pc = "send" /\ d.op = "write" /\ d.id = client.id
      /\ d.tag = client.tag /\ d.h = client.h /\ d.parts = client.parts /\ d.n = client.n
  <2>1. d = [client EXCEPT !.part = 2, !.pc = "send"]
    <3>1. client.part + 1 = 2
      BY <1>3
    <3> QED BY <3>1
  <2> HIDE DEF d
  <2> QED BY <1>1, <2>1 DEF Clients
<1>5. client' = [d EXCEPT !.todo = Messages(d)]
  OBVIOUS
<1> HIDE DEF d
<1>6. <<d.id, d.part>> \in Ids
  <2>1. client.id = calls /\ calls # 0
    BY <1>2 DEF CurrentCall
  <2>2. d.id \in 1 .. MaxCalls
    BY <1>1, <1>4, <2>1
  <2> QED BY <1>4, <2>2 DEF Ids
<1>7. d.op \in Ops /\ (d.op = "write" => d.part \in DOMAIN d.parts)
  BY <1>1, <1>3, <1>4 DEF Ops
<1>8. /\ Messages(d) \in Seq(Requests) /\ Messages(d) # <<>>
      /\ \A i \in DOMAIN Messages(d) :
           LET m == Messages(d)[i]
           IN /\ m.op = d.op /\ m.tag = d.tag /\ m.id = <<d.id, d.part>>
              /\ m.lead => i = 1 /\ m.h = d.h
              /\ ~m.lead => m.op = "write" /\ m.h = Garbage
              /\ m.n = d.n
              /\ m.op = "write" => Len(m.data) = 1 /\ m.total = d.parts[d.part]
  BY <1>4, <1>6, <1>7, MessagesFacts
<1>9. /\ client' \in Clients /\ client'.pc = "send" /\ client'.part = d.part
      /\ client'.op = d.op /\ client'.id = d.id /\ client'.tag = d.tag
  BY <1>4, <1>5, <1>8 DEF Clients
<1>10. /\ client'.h = d.h /\ client'.parts = d.parts /\ client'.todo = Messages(d)
       /\ client'.n = d.n
  BY <1>4, <1>5, <1>8 DEF Clients
<1>11. NextPart
  BY <1>3, <1>4, <1>9, <1>10 DEF NextPart, SameCall
<1>12. TypeOK'
  <2>1. ClientType'
    BY <1>9 DEF TypeOK, ClientType
  <2> QED BY <2>1, TakenType
<1>13. CallInv'
  <2>1. CurrentCall' /\ Calling'
    <3>1. /\ client'.id = calls' /\ calls' # 0 /\ client'.op = "write" /\ client'.op \in Ops
          /\ result' = NoResult /\ client'.pc # "more" /\ client'.pc # "idle"
      BY <1>2, <1>4, <1>9 DEF CurrentCall, Ops
    <3>2. Len(client'.parts) = 2 /\ client'.parts[1] = 1
      BY <1>2, <1>3, <1>4, <1>10 DEF CurrentCall
    <3> QED BY <3>1, <3>2 DEF CurrentCall, Calling
  <2>2. TodoInv'
    <3>1. client'.n = d.n /\ client'.parts[client'.part] = d.parts[d.part]
      BY <1>9, <1>10
    <3> QED BY <1>8, <1>9, <1>10, <3>1 DEF TodoInv, Current, Carries
  <2>3. atou' = atou /\ result' = result /\ calls' = calls
    BY DEF Rest
  <2> QED BY <1>8, <1>9, <1>10, <2>1, <2>2, <2>3 DEF CallInv
<1> QED BY <1>11, <1>12, <1>13

\* The call returns what the answer says.
LEMMA RepeatsFacts ==
    ASSUME TypeOK, CallInv, Calling, Taken, Rest, events' = events,
           Head(utoa).tag = client.tag,
           NEW status \in Statuses, NEW data \in Seq(Items), NEW h \in Int, NEW ino \in Nat,
           NEW mine \in BOOLEAN, Head(utoa).id = Current => mine,
           status \in Success => Head(utoa).status \in Success,
           status \in HostErrors => Head(utoa).status \in HostErrors,
           client.op = "write" =>
              status = Head(utoa).status /\ (status = "OK" => client.part = Len(client.parts)),
           client.op = "open" =>
              status = Head(utoa).status /\ h = Head(utoa).h /\ ino = Head(utoa).ino,
           Return(status, data, h, ino, mine)
    PROVE  TypeOK' /\ CallInv' /\ Ends
<1>1. /\ ClientType' /\ client' = NoCall /\ tag' = tag /\ calls' = calls
      /\ result'.op = client.op /\ result'.id = client.id /\ result'.status = status
      /\ result'.parts = Len(client.parts) /\ result'.mine = mine
      /\ HeldAfter(status, h, ino)
  BY ReturnFacts
<1>2. HeldAfter(Head(utoa).status, Head(utoa).h, Head(utoa).ino)
  BY <1>1 DEF HeldAfter
<1>3. Repeats(Head(utoa))
  BY <1>1, <1>2 DEF Repeats
<1>4. Ends
  BY <1>1, <1>3 DEF Ends
<1> QED BY <1>1, <1>4, EndsInv

LEMMA AnswerShape ==
    ASSUME TypeOK, CallInv, Answer
    PROVE  TypeOK' /\ CallInv' /\ (Proceeds \/ NextPart \/ Ends)
<1> DEFINE r == Head(utoa)
           more(want, got) ==
             /\ client' = [client EXCEPT !.pc = "more", !.want = want, !.got = got]
             /\ UNCHANGED <<tag, active, held, calls, result>>
<1>1. /\ client.pc = "wait" /\ utoa # <<>> /\ r.tag = client.tag /\ utoa' = Tail(utoa)
      /\ UNCHANGED <<svc, atou, host, diskVars, trouble, events>>
  BY DEF Answer, Wanted
<1>2. Taken /\ Rest /\ events' = events /\ Calling /\ Waits(client)
  BY <1>1 DEF Taken, Rest, Calling, Waits
<1>3. /\ r \in Replies /\ r.status \in Statuses /\ r.h \in Int /\ r.ino \in Nat
      /\ r.total \in Nat /\ r.data \in Seq(Items) /\ r.lead \in BOOLEAN
  BY <1>1, HeadReply, ReplyType
<1>4. CASE client.op = "read" /\ r.status \in Success /\ ~r.lead
  <2>1. more(Garbage, <<Junk>>)
    BY <1>4 DEF Answer
  <2>2. Garbage \in Int /\ <<Junk>> \in Seq(Items)
    BY DEF Garbage, Junk, Items
  <2>3. TypeOK' /\ CallInv' /\ Proceeds
    BY <1>2, <1>4, <2>1, <2>2, ProceedShape
  <2> QED BY <2>3
<1>5. CASE client.op = "read" /\ r.status \in Success /\ r.lead /\ r.total # Len(r.data)
  <2>1. more(r.total, r.data)
    BY <1>5 DEF Answer
  <2>2. r.total \in Int
    BY <1>3
  <2>3. TypeOK' /\ CallInv' /\ Proceeds
    BY <1>2, <1>3, <1>5, <2>1, <2>2, ProceedShape
  <2> QED BY <2>3
<1>6. CASE client.op = "write" /\ r.status = "OK" /\ client.part < Len(client.parts)
  <2>1. /\ LET d == [client EXCEPT !.part = @ + 1, !.pc = "send"]
           IN client' = [d EXCEPT !.todo = Messages(d)]
        /\ UNCHANGED <<tag, active, held, calls, result>>
    BY <1>6 DEF Answer
  <2>2. TypeOK' /\ CallInv' /\ NextPart
    BY <1>1, <1>2, <1>6, <2>1, NextShape
  <2> QED BY <2>2
<1>7. CASE /\ ~(client.op = "read" /\ r.status \in Success /\ ~r.lead)
           /\ ~(client.op = "read" /\ r.status \in Success /\ r.lead /\ r.total # Len(r.data))
           /\ ~(client.op = "write" /\ r.status = "OK" /\ client.part < Len(client.parts))
  <2>1. PICK mine \in BOOLEAN : /\ mine <=> r.id = Current
                                /\ Return(r.status, r.data, r.h, r.ino, mine)
    <3>1. CASE r.id = Current
      <4>1. (r.id = <<client.id, client.part>>) = TRUE
        BY <3>1 DEF Current
      <4>2. Return(r.status, r.data, r.h, r.ino, TRUE)
        BY <1>7, <4>1 DEF Answer
      <4> QED BY <3>1, <4>2
    <3>2. CASE r.id # Current
      <4>1. (r.id = <<client.id, client.part>>) = FALSE
        BY <3>2 DEF Current
      <4>2. Return(r.status, r.data, r.h, r.ino, FALSE)
        BY <1>7, <4>1 DEF Answer
      <4> QED BY <3>2, <4>2
    <3> QED BY <3>1, <3>2
  <2>2. ASSUME client.op = "write", r.status = "OK"
        PROVE  client.part = Len(client.parts)
    <3>1. ~(client.part < Len(client.parts))
      BY <1>7, <2>2
    <3>2. Len(client.parts) \in {1, 2} /\ (client.part = 1 \/ Len(client.parts) = 2)
      BY <1>2, <2>2 DEF CallInv, CurrentCall
    <3>3. client.part \in {1, 2}
      BY ClientFields DEF TypeOK, ClientType
    <3>4. \A i, n \in {1, 2} : ~(i < n) /\ (i = 1 \/ n = 2) => i = n
      OBVIOUS
    <3> QED BY <3>1, <3>2, <3>3, <3>4
  <2>3. TypeOK' /\ CallInv' /\ Ends
    <3> HIDE DEF more
    <3> QED BY <1>1, <1>2, <1>3, <2>1, <2>2, RepeatsFacts
  <2> QED BY <2>3
<1> QED BY <1>3, <1>4, <1>5, <1>6, <1>7

LEMMA AnswerMoreShape ==
    ASSUME TypeOK, CallInv, AnswerMore
    PROVE  TypeOK' /\ CallInv' /\ (Proceeds \/ Ends)
<1> DEFINE r == Head(utoa)
           got == client.got \o (IF r.lead THEN <<Junk>> ELSE r.data)
<1>1. /\ client.pc = "more" /\ utoa # <<>> /\ r.tag = client.tag /\ utoa' = Tail(utoa)
      /\ UNCHANGED <<svc, atou, host, diskVars, trouble, events>>
      /\ IF r.status \notin Success THEN Fail(r.status)
         ELSE IF Len(got) = client.want
         THEN Return("OK", got, NoParent, 0, r.id = <<client.id, client.part>>)
         ELSE /\ client' = [client EXCEPT !.got = got]
              /\ UNCHANGED <<tag, active, held, calls, result>>
  BY DEF AnswerMore, Wanted
<1>2. Taken /\ Rest /\ events' = events /\ Calling /\ Waits(client) /\ client.op = "read"
  BY <1>1 DEF Taken, Rest, Calling, Waits, CallInv, CurrentCall
<1>3. /\ r \in Replies /\ r.status \in Statuses /\ r.data \in Seq(Items)
      /\ client \in Clients /\ client.got \in Seq(Items) /\ client.want \in Int
      /\ NoParent \in Int /\ <<>> \in Seq(Items) /\ 0 \in Nat
  <2>1. r \in Replies
    BY <1>1, HeadReply
  <2>2. r.status \in Statuses /\ r.data \in Seq(Items)
    BY <2>1, ReplyType
  <2>3. client \in Clients
    BY DEF TypeOK, ClientType
  <2>4. client.got \in Seq(Items) /\ client.want \in Int
    BY <2>3, ClientFields
  <2>5. NoParent \in Int /\ <<>> \in Seq(Items) /\ 0 \in Nat
    BY NoElements DEF NoParent
  <2> HIDE DEF r
  <2> QED BY <2>1, <2>2, <2>3, <2>4, <2>5
<1>4. got \in Seq(Items)
  <2>1. <<Junk>> \in Seq(Items)
    BY DEF Junk, Items
  <2>2. (IF r.lead THEN <<Junk>> ELSE r.data) \in Seq(Items)
    BY <1>3, <2>1
  <2> QED BY <1>3, <2>2, ConcatProperties
<1> HIDE DEF got
<1>5. CASE r.status \notin Success
  <2>1. Return(r.status, <<>>, NoParent, 0, TRUE)
    BY <1>1, <1>5 DEF Fail
  <2>2. TypeOK' /\ CallInv' /\ Ends
    BY <1>1, <1>2, <1>3, <2>1, RepeatsFacts
  <2> QED BY <2>2
<1>6. CASE r.status \in Success /\ Len(got) = client.want
  <2>1. PICK mine \in BOOLEAN : /\ mine <=> r.id = Current
                                /\ Return("OK", got, NoParent, 0, mine)
    <3>1. CASE r.id = Current
      <4>1. (r.id = <<client.id, client.part>>) = TRUE
        BY <3>1 DEF Current
      <4>2. Return("OK", got, NoParent, 0, TRUE)
        BY <1>1, <1>6, <4>1
      <4> QED BY <3>1, <4>2
    <3>2. CASE r.id # Current
      <4>1. (r.id = <<client.id, client.part>>) = FALSE
        BY <3>2 DEF Current
      <4>2. Return("OK", got, NoParent, 0, FALSE)
        BY <1>1, <1>6, <4>1
      <4> QED BY <3>2, <4>2
    <3> QED BY <3>1, <3>2
  <2>2. "OK" \in Statuses /\ "OK" \notin HostErrors
    BY DEF Statuses, Success, HostErrors
  <2>3. TypeOK' /\ CallInv' /\ Ends
    BY <1>1, <1>2, <1>3, <1>4, <1>6, <2>1, <2>2, RepeatsFacts
  <2> QED BY <2>3
<1>7. CASE r.status \in Success /\ Len(got) # client.want
  <2>1. client' = [client EXCEPT !.got = got] /\ UNCHANGED <<tag, active, held, calls, result>>
    BY <1>1, <1>7
  <2>2. client' = [client EXCEPT !.pc = "more", !.want = client.want, !.got = got]
    BY <1>1, <1>3, <2>1 DEF Clients
  <2>3. TypeOK' /\ CallInv' /\ Proceeds
    BY <1>2, <1>3, <1>4, <2>1, <2>2, ProceedShape
  <2> QED BY <2>3
<1> QED BY <1>5, <1>6, <1>7

\* A new program starts.
Restarts ==
    /\ client' = NoCall /\ tag' = 0 /\ held' = <<>> /\ result' = NoResult
    /\ "reboot" \in events' /\ events \subseteq events'
    /\ UNCHANGED <<calls, svc, atou, utoa, host, diskVars>>

LEMMA RebootShape ==
    ASSUME TypeOK, CallInv, Reboot
    PROVE  TypeOK' /\ CallInv' /\ Restarts
<1>1. /\ client' = NoCall /\ tag' = 0 /\ active' = FALSE /\ held' = <<>>
      /\ result' = NoResult /\ trouble' = trouble + 1 /\ events' = events \cup {"reboot"}
      /\ UNCHANGED <<calls, svc, atou, utoa, host, diskVars>>
  BY DEF Reboot, Trouble, Happened
<1>2. /\ HostType /\ DiskType /\ CollectType /\ svc \in BOOLEAN /\ atou \in Seq(Requests)
      /\ utoa \in Seq(Replies) /\ trouble \in Nat /\ events \subseteq Faults
      /\ calls \in 0 .. MaxCalls
  BY DEF TypeOK, ClientType
<1>3. ClientType'
  <2>1. held' \in [DOMAIN held' -> [ino : Nat, exp : Int]] /\ DOMAIN held' \subseteq Int
    BY <1>1
  <2> QED BY <1>1, <1>2, <2>1, NoCallFacts, NoResultFacts DEF ClientType
<1>4. TypeOK'
  <2>1. HostType' /\ CollectType' /\ DiskType'
    BY <1>1, <1>2, SameHostType, SameDiskType
  <2>2. trouble' \in Nat /\ events' \subseteq Faults
    BY <1>1, <1>2 DEF Faults
  <2> QED BY <1>1, <1>2, <1>3, <2>1, <2>2 DEF TypeOK
<1>5. CallInv'
  <2>1. TodoInv'
    BY <1>1, NoCallFacts DEF TodoInv
  <2> QED BY <1>1, <2>1, NoCallFacts, NoResultFacts DEF CallInv, Calling
<1>6. Restarts
  BY <1>1 DEF Restarts
<1> QED BY <1>4, <1>5, <1>6

-------------------------------------------------------------------------------
(* The steps of the whole system.                                          *)

LEMMA ServerCallInv ==
    ASSUME CallInv, UNCHANGED clientVars, ToSet(atou') \subseteq ToSet(atou)
    PROVE  CallInv'
<1>1. client' = client /\ calls' = calls /\ result' = result
  BY DEF clientVars
<1>2. TodoInv' /\ (Calling' <=> Calling) /\ (Calling => CurrentCall')
  BY <1>1 DEF CallInv, TodoInv, Carries, Current, Calling, CurrentCall
<1> QED BY <1>1, <1>2 DEF CallInv

\* The commands on their way become fewer.
LEMMA FewerCommands ==
    ASSUME TypeOK, ServerWork \/ ServerSends \/ ServerRestarts
    PROVE  /\ UNCHANGED clientVars /\ ToSet(atou') \subseteq ToSet(atou)
           /\ atou' = atou \/ (atou # <<>> /\ atou' = Tail(atou)) \/ atou' = <<>>
<1>1. /\ UNCHANGED clientVars
      /\ atou' = atou \/ (atou # <<>> /\ atou' = Tail(atou)) \/ atou' = <<>>
  BY DEF ServerWork, ServerSends, ServerRestarts, Stop, Start, Flush, Expire
<1>2. atou # <<>> => ToSet(Tail(atou)) \subseteq ToSet(atou)
  BY HeadRequest
<1> QED BY <1>1, <1>2, NoElements

LEMMA CallStep ==
    ASSUME TypeOK, CallInv, Program
    PROVE  TypeOK' /\ CallInv' /\ (Begins \/ Unavailable)
<1>1. CASE \E op \in {"open", "delete", "rename", "create", "set"} : Call(op, Root)
  <2>1. PICK op \in {"open", "delete", "rename", "create", "set"} : Call(op, Root)
    BY <1>1
  <2>2. op \in Ops /\ Root \in Int /\ op # "close"
    BY DEF Ops, Root
  <2> QED BY <2>1, <2>2, BeginShape
<1>2. CASE \E op \in {"close", "read", "write", "seek", "path"} :
             \E h \in DOMAIN held : Call(op, h)
  <2>1. PICK op \in {"close", "read", "write", "seek", "path"}, h \in DOMAIN held : Call(op, h)
    BY <1>2
  <2>2. op \in Ops /\ h \in Int
    BY DEF Ops, TypeOK, ClientType
  <2> QED BY <2>1, <2>2, BeginShape
<1> QED BY <1>1, <1>2 DEF Program, sm_fopen, sm_fclose, sm_fread, sm_fwrite, sm_fseek,
                          sm_fdelete, sm_frename, sm_fcreate, sm_fset, sm_fpath

ClientStep == Begins \/ Unavailable \/ Sends \/ Drops \/ Proceeds \/ NextPart \/ Ends \/ Restarts
ServerStep == ServerWork \/ ServerSends \/ ServerRestarts

LEMMA Steps ==
    ASSUME TypeOK, CallInv, Next
    PROVE  TypeOK' /\ CallInv' /\ (ClientStep \/ ServerStep)
<1>1. CASE Program
  <2>1. TypeOK' /\ CallInv' /\ (Begins \/ Unavailable)
    BY <1>1, CallStep
  <2> QED BY <2>1 DEF ClientStep
<1>2. CASE SendOne \/ SendTwice
  <2>1. TypeOK' /\ CallInv' /\ Sends
    BY <1>2, SendShape
  <2> QED BY <2>1 DEF ClientStep
<1>3. CASE SendRefused \/ TimeOut \/ GiveUp
  <2>1. TypeOK' /\ CallInv' /\ Ends
    BY <1>3, FailShape
  <2> QED BY <2>1 DEF ClientStep
<1>4. CASE Discard \/ ReceiveLost
  <2>1. TypeOK' /\ CallInv' /\ Drops
    BY <1>4, DropShape
  <2> QED BY <2>1 DEF ClientStep
<1>5. CASE Answer
  <2>1. TypeOK' /\ CallInv' /\ (Proceeds \/ NextPart \/ Ends)
    BY <1>5, AnswerShape
  <2> QED BY <2>1 DEF ClientStep
<1>6. CASE AnswerMore
  <2>1. TypeOK' /\ CallInv' /\ (Proceeds \/ Ends)
    BY <1>6, AnswerMoreShape
  <2> QED BY <2>1 DEF ClientStep
<1>7. CASE Reboot
  <2>1. TypeOK' /\ CallInv' /\ Restarts
    BY <1>7, RebootShape
  <2> QED BY <2>1 DEF ClientStep
<1>8. CASE Take \/ Collect \/ CollectFails \/ Again \/ DiskFull
  <2>1. ServerWork
    BY <1>8, TakeWorks, CollectWorks, CollectFailsWorks, AgainWorks, DiskFullWorks
  <2>2. TypeOK'
    BY <2>1, WorkType
  <2>3. CallInv'
    BY <2>1, FewerCommands, ServerCallInv
  <2> QED BY <2>1, <2>2, <2>3 DEF ServerStep
<1>9. CASE SendReply \/ SendReplyFails
  <2>1. ServerSends
    BY <1>9, SendReplySends, SendReplyFailsSends
  <2>2. TypeOK'
    BY <2>1, SendsType
  <2>3. CallInv'
    BY <2>1, FewerCommands, ServerCallInv
  <2> QED BY <2>1, <2>2, <2>3 DEF ServerStep
<1>10. CASE Start \/ Flush \/ Stop \/ Expire
  <2>1. ServerRestarts
    BY <1>10 DEF ServerRestarts
  <2>2. TypeOK'
    BY <2>1, RestartType
  <2>3. CallInv'
    BY <2>1, FewerCommands, ServerCallInv
  <2> QED BY <2>1, <2>2, <2>3 DEF ServerStep
<1> QED BY <1>1, <1>2, <1>3, <1>4, <1>5, <1>6, <1>7, <1>8, <1>9, <1>10
        DEF Next, Library, Server, Environment

-------------------------------------------------------------------------------
(* What is on its way after a step of the server.                          *)

Like(m, k) == k.id = m.id /\ k.tag = m.tag /\ k.op = m.op /\ (m.op = "close" => k.h = m.h)
Made(r, m) ==
    /\ r.id = m.id /\ r.tag = m.tag
    /\ r.status = "EOF" => m.op = "read"
    /\ m.op = "open" /\ r.status = "OK" =>
         /\ r.h = unique + 1 /\ unique' = unique + 1
         /\ r.h \in DOMAIN table' /\ table'[r.h].ino = r.ino
Gone(h) == h \notin DOMAIN table' \/ table'[h].ino # table[h].ino

ServerFlow ==
    /\ \A k \in Commands' : \E m \in Commands : Like(m, k)
    /\ \A r \in Answers' : r \in Answers \/ \E m \in Commands : Made(r, m)
    /\ \A id \in Ids : effects'[id] = effects[id] \/ \E m \in Commands : m.id = id
    /\ \/ "restart" \in events'
       \/ /\ unique' \in {unique, unique + 1} /\ host'.pc \notin {"down", "flush"}
          /\ \A h \in DOMAIN table : Gone(h) => \E m \in Commands : m.op = "close" /\ m.h = h
    /\ events \subseteq events'

\* The server has request m in work afterwards, and has done nothing yet.
Stays(m) == /\ host'.pc = "collect" /\ host'.job = m /\ HostType' /\ UNCHANGED diskVars

LEMMA WorkRequest ==
    ASSUME TypeOK, ServerWork
    PROVE  \E m \in Commands : m \in Requests /\ (Serves(m) \/ Stays(m))
<1>1. CASE host.pc = "idle" /\ atou # <<>> /\ (Serves(Head(atou)) \/ Gathers(Head(atou)))
  BY <1>1, HeadRequest DEF Commands, Gathers, Stays
<1>2. CASE Working /\ (Serves(host.job) \/ Gathers(host.job) \/ Stays(host.job))
  BY <1>2 DEF Commands, Gathers, Stays, TypeOK, HostType
<1> QED BY <1>1, <1>2 DEF ServerWork, Stays, Working

LEMMA WorkFlow ==
    ASSUME TypeOK, ServerWork
    PROVE  ServerFlow
<1>1. PICK m \in Commands : m \in Requests /\ (Serves(m) \/ Stays(m))
  BY WorkRequest
<1>2. /\ ToSet(atou') \subseteq ToSet(atou) /\ utoa' = utoa /\ events \subseteq events'
  BY FewerCommands DEF ServerWork
<1>3. CASE Stays(m)
  <2>1. /\ Working' /\ ~Replying' /\ host'.job = m /\ host'.pc = "collect"
        /\ effects' = effects /\ unique' = unique /\ table' = table
    BY <1>3 DEF Stays, Working, Replying, diskVars
  <2>2. \A k \in Commands' : k \in Commands
    BY <1>2, <2>1 DEF Commands
  <2>3. Answers' \subseteq Answers
    BY <1>2, <2>1 DEF Answers
  <2>4. \A k \in Commands' : \E j \in Commands : Like(j, k)
    BY <2>2 DEF Like
  <2> QED BY <1>2, <2>1, <2>3, <2>4 DEF ServerFlow, Gone
<1>4. CASE Serves(m)
  <2>1. PICK st \in Statuses, h \in Int, ino \in Nat : Served(m, st, h, ino)
    BY <1>4 DEF Serves
  <2>2. Replied(m, st, h, ino) /\ Moves(m)
    BY <2>1 DEF Served
  <2>3. /\ Working' /\ Replying' /\ host'.pc = "reply" /\ Like(m, host'.job)
    BY <2>2 DEF Replied, Working, Replying, Like
  <2>4. ASSUME NEW k \in Commands'
        PROVE  \E j \in Commands : Like(j, k)
    <3>1. k \in ToSet(atou) \/ k = host'.job
      BY <1>2, <2>3 DEF Commands
    <3>2. k \in ToSet(atou) => k \in Commands /\ Like(k, k)
      BY DEF Commands, Like
    <3> QED BY <2>3, <3>1, <3>2
  <2>5. ASSUME NEW r \in Answers'
        PROVE  r \in Answers \/ Made(r, m)
    <3>1. r \in ToSet(utoa) \/ r \in ToSet(host'.out)
      BY <1>2 DEF Answers
    <3>2. CASE r \in ToSet(host'.out)
      <4>1. r.id = m.id /\ r.tag = m.tag /\ r.status = st /\ r.h = h /\ r.ino = ino
        BY <2>2, <3>2 DEF Replied
      <4>2. st = "EOF" => m.op = "read"
        BY <2>2 DEF Replied
      <4>3. m.op = "open" /\ st = "OK" =>
              /\ h = unique + 1 /\ unique' = unique + 1
              /\ h \in DOMAIN table' /\ table'[h].ino = ino
        BY <2>1 DEF Served
      <4> QED BY <4>1, <4>2, <4>3 DEF Made
    <3> QED BY <3>1, <3>2 DEF Answers
  <2>6. \A id \in Ids : effects'[id] = effects[id] \/ m.id = id
    BY <2>2 DEF Moves
  <2>7. unique' \in {unique, unique + 1}
        /\ \A k \in DOMAIN table : Gone(k) => m.op = "close" /\ m.h = k
    BY <2>2 DEF Moves, Gone
  <2> QED BY <1>2, <2>3, <2>4, <2>5, <2>6, <2>7 DEF ServerFlow
<1> QED BY <1>1, <1>3, <1>4

LEMMA SendsFlow ==
    ASSUME TypeOK, ServerSends
    PROVE  ServerFlow /\ Answers' \subseteq Answers /\ Commands' \subseteq Commands
<1>1. /\ atou' = atou /\ effects' = effects /\ unique' = unique /\ table' = table
      /\ events \subseteq events' /\ Working /\ Replying
      /\ host'.pc \in {"reply", "idle", "again"}
      /\ host'.pc # "idle" => host'.job = host.job
      /\ host'.pc = "reply" => host'.out = Tail(host.out)
      /\ utoa' = utoa \/ utoa' = Append(utoa, Head(host.out))
  BY DEF ServerSends, Working, Replying, diskVars
<1>2. Commands' \subseteq Commands
  BY <1>1 DEF Commands, Working
<1>3. Answers' \subseteq Answers
  <2>1. /\ Head(host.out) \in Replies /\ Head(host.out) \in ToSet(host.out)
        /\ ToSet(Tail(host.out)) \subseteq ToSet(host.out)
    BY <1>1, ReplyHead DEF Replying
  <2>2. ToSet(utoa') \subseteq ToSet(utoa) \cup {Head(host.out)}
    <3>1. utoa \in Seq(Replies)
      BY DEF TypeOK
    <3>2. ToSet(Append(utoa, Head(host.out))) = ToSet(utoa) \cup {Head(host.out)}
      BY <2>1, <3>1, AppendFacts
    <3> QED BY <1>1, <3>2
  <2> QED BY <1>1, <2>1, <2>2 DEF Answers, Replying
<1>4. \A k \in Commands' : \E m \in Commands : Like(m, k)
  BY <1>2 DEF Like
<1> QED BY <1>1, <1>2, <1>3, <1>4 DEF ServerFlow, Gone

LEMMA RestartsFlow ==
    ASSUME TypeOK, ServerRestarts, host.pc \in {"down", "flush"} => "restart" \in events
    PROVE  ServerFlow /\ Answers' \subseteq Answers /\ Commands' \subseteq Commands
<1>1. /\ ToSet(atou') \subseteq ToSet(atou) /\ utoa' = utoa /\ effects' = effects
      /\ events \subseteq events'
      /\ host' = host \/ host'.pc \in {"idle", "down", "flush"}
      /\ \/ "restart" \in events'
         \/ unique' = unique /\ table' = table /\ host' = host
  <2>1. ToSet(atou') \subseteq ToSet(atou)
    BY FewerCommands
  <2> QED BY <2>1 DEF ServerRestarts, Stop, Start, Flush, Expire, Happened, Idle, diskVars
<1>2. Commands' \subseteq Commands /\ Answers' \subseteq Answers
  BY <1>1 DEF Commands, Answers, Working, Replying
<1>3. \A k \in Commands' : \E m \in Commands : Like(m, k)
  BY <1>2 DEF Like
<1>4. CASE "restart" \in events'
  BY <1>1, <1>2, <1>3, <1>4 DEF ServerFlow
<1>5. CASE "restart" \notin events'
  <2>1. host'.pc \notin {"down", "flush"}
    BY <1>1, <1>5
  <2> QED BY <1>1, <1>2, <1>3, <1>5, <2>1 DEF ServerFlow, Gone
<1> QED BY <1>2, <1>4, <1>5

LEMMA Flows ==
    ASSUME TypeOK, ServerStep, host.pc \in {"down", "flush"} => "restart" \in events
    PROVE  ServerFlow
BY WorkFlow, SendsFlow, RestartsFlow DEF ServerStep

\* After a step of the client library.
LEMMA ClientFlow ==
    ASSUME TypeOK, ClientStep
    PROVE  /\ Commands' = Commands \cup (IF Sends THEN {Head(client.todo)} ELSE {})
           /\ Answers' \subseteq Answers
           /\ UNCHANGED <<svc, host, diskVars>> /\ events \subseteq events'
           /\ (Working' <=> Working) /\ (Replying' <=> Replying)
<1>1. /\ UNCHANGED <<svc, host, diskVars>> /\ events \subseteq events'
      /\ Sends \/ atou' = atou
      /\ (utoa' = utoa \/ Taken)
  BY DEF ClientStep, Begins, Unavailable, Sends, Drops, Proceeds, NextPart, Ends, Restarts,
         Rest
<1>2. (Working' <=> Working) /\ (Replying' <=> Replying)
  BY <1>1 DEF Working, Replying
<1>3. ToSet(utoa') \subseteq ToSet(utoa)
  <2>1. utoa # <<>> => ToSet(Tail(utoa)) \subseteq ToSet(utoa)
    BY TailFacts DEF TypeOK
  <2> QED BY <1>1, <2>1 DEF Taken
<1>4. Answers' \subseteq Answers
  BY <1>1, <1>2, <1>3 DEF Answers
<1>5. Commands' = Commands \cup (IF Sends THEN {Head(client.todo)} ELSE {})
  <2>1. CASE Sends
    <3>1. ToSet(atou') = ToSet(atou) \cup {Head(client.todo)}
      BY <2>1 DEF Sends
    <3> QED BY <1>1, <1>2, <2>1, <3>1 DEF Commands
  <2>2. CASE ~Sends
    BY <1>1, <1>2, <2>2 DEF Commands
  <2> QED BY <2>1, <2>2
<1> QED BY <1>1, <1>2, <1>4, <1>5

-------------------------------------------------------------------------------
(* Tags and handles.                                                       *)

LEMMA CommandType ==
    ASSUME TypeOK
    PROVE  /\ \A m \in Commands : m \in Requests /\ m.id \in Ids /\ m.id[1] \in Nat
                                  /\ m.id[1] # 0 /\ m.tag \in Nat
           /\ \A r \in Answers : r \in Replies /\ r.id \in Ids /\ r.id[1] \in Nat
                                 /\ r.id[1] # 0 /\ r.tag \in Nat
<1>1. \A m \in Commands : m \in Requests
  <2>1. ToSet(atou) \subseteq Requests
    BY SeqFacts DEF TypeOK
  <2> QED BY <2>1 DEF Commands, TypeOK, HostType
<1>2. \A r \in Answers : r \in Replies
  <2>1. ToSet(utoa) \subseteq Replies /\ ToSet(host.out) \subseteq Replies
    BY SeqFacts DEF TypeOK, HostType
  <2> QED BY <2>1 DEF Answers
<1>3. \A id \in Ids : id[1] \in Nat /\ id[1] # 0
  BY DEF Ids
<1> QED BY <1>1, <1>2, <1>3, RequestType, ReplyType

\* The parts of TagInv.
Made1 == \A x \in Commands \cup Answers : x.id[1] <= calls
TagsFresh ==
    /\ Calling => client.tag < tag
    /\ \A x \in Commands \cup Answers : Fresh(x)
    /\ \A m \in Commands : Calling /\ m.tag = client.tag => m.op = client.op
    /\ \A r \in Answers : Calling /\ r.tag = client.tag /\ r.status = "EOF"
                             => client.op = "read"
LEMMA TagInvParts == TagInv <=> Made1 /\ (Without({"reboot"}) => TagsFresh)
BY DEF TagInv, Made1, TagsFresh

LEMMA ServerTags ==
    ASSUME TypeOK, TagInv, ServerStep, ServerFlow
    PROVE  TagInv'
<1>1. client' = client /\ tag' = tag /\ calls' = calls /\ events \subseteq events'
  BY FewerCommands DEF ServerFlow, ServerStep, clientVars
<1>2. ASSUME NEW k \in Commands'
      PROVE  \E m \in Commands : Like(m, k)
  BY DEF ServerFlow
<1>3. ASSUME NEW r \in Answers'
      PROVE  r \in Answers \/ \E m \in Commands : Made(r, m)
  BY DEF ServerFlow
<1>4. Made1'
  <2>1. \A x \in Commands \cup Answers : x.id[1] <= calls
    BY TagInvParts DEF Made1
  <2>2. ASSUME NEW x \in (Commands \cup Answers)'
        PROVE  x.id[1] <= calls'
    <3>1. \E y \in Commands \cup Answers : x.id = y.id
      BY <1>2, <1>3 DEF Like, Made
    <3> QED BY <1>1, <2>1, <3>1
  <2> QED BY <2>2 DEF Made1
<1>5. ASSUME Without({"reboot"})'
      PROVE  TagsFresh'
  <2>1. TagsFresh
    BY <1>1, <1>5, TagInvParts DEF Without
  <2>2. (Calling' <=> Calling) /\ (Calling' => client'.tag < tag')
    BY <1>1, <2>1 DEF Calling, TagsFresh
  <2>3. ASSUME NEW x \in (Commands \cup Answers)'
        PROVE  Fresh(x)'
    <3>1. \E y \in Commands \cup Answers : x.id = y.id /\ x.tag = y.tag
      BY <1>2, <1>3 DEF Like, Made
    <3> QED BY <1>1, <2>1, <2>2, <3>1 DEF TagsFresh, Fresh
  <2>4. ASSUME NEW k \in Commands', Calling', k.tag = client'.tag
        PROVE  k.op = client'.op
    BY <1>1, <1>2, <2>1, <2>2, <2>4 DEF TagsFresh, Like
  <2>5. ASSUME NEW r \in Answers', Calling', r.tag = client'.tag, r.status = "EOF"
        PROVE  client'.op = "read"
    <3>1. CASE r \in Answers
      BY <1>1, <2>1, <2>2, <2>5, <3>1 DEF TagsFresh
    <3>2. CASE \E m \in Commands : Made(r, m)
      <4>1. PICK m \in Commands : Made(r, m)
        BY <3>2
      <4>2. m.tag = client.tag /\ m.op = "read"
        BY <1>1, <2>5, <4>1 DEF Made
      <4> QED BY <1>1, <2>1, <2>2, <2>5, <4>2 DEF TagsFresh
    <3> QED BY <1>3, <3>1, <3>2
  <2> QED BY <2>2, <2>3, <2>4, <2>5 DEF TagsFresh
<1>6. Made1' /\ (Without({"reboot"})' => TagsFresh') => TagInv'
  BY DEF TagInv, Made1, TagsFresh
<1> QED BY <1>4, <1>5, <1>6

LEMMA ClientTags ==
    ASSUME TypeOK, CallInv, TagInv, ClientStep, TypeOK'
    PROVE  TagInv'
<1>1. /\ Commands' = Commands \cup (IF Sends THEN {Head(client.todo)} ELSE {})
      /\ Answers' \subseteq Answers /\ events \subseteq events'
  BY ClientFlow
<1>2. calls \in Nat /\ tag \in Nat
  BY DEF TypeOK, ClientType
<1>3. calls' \in {calls, calls + 1}
  BY DEF ClientStep, Begins, Unavailable, Sends, Drops, Proceeds, NextPart, Ends, Restarts,
         clientVars
<1>4. ASSUME Sends
      PROVE  /\ Head(client.todo).tag = client.tag /\ Head(client.todo).id[1] = client.id
             /\ Head(client.todo).op = client.op /\ client.id = calls /\ Calling
  <2>1. 1 \in DOMAIN client.todo
    BY <1>4, TailFacts, ClientFields DEF Sends, TypeOK, ClientType
  <2>2. LET m == Head(client.todo)
        IN m.op = client.op /\ m.tag = client.tag /\ m.id = <<client.id, client.part>>
    BY <1>4, <2>1 DEF Sends, CallInv, TodoInv, Current
  <2> QED BY <1>4, <2>2 DEF Sends, CallInv, CurrentCall, Calling
<1>5. Made1'
  <2>1. \A x \in Commands \cup Answers : x.id[1] <= calls
    BY TagInvParts DEF Made1
  <2>2. ASSUME NEW x \in (Commands \cup Answers)'
        PROVE  x.id[1] <= calls'
    <3>1. CASE x \in Commands \cup Answers
      <4>1. x.id[1] <= calls /\ x.id[1] \in Nat
        BY <2>1, <3>1, CommandType
      <4> QED BY <1>2, <1>3, <4>1
    <3>2. CASE Sends /\ x = Head(client.todo)
      <4>1. x.id[1] = calls
        BY <1>4, <3>2
      <4> QED BY <1>2, <1>3, <4>1
    <3> QED BY <1>1, <3>1, <3>2
  <2> QED BY <2>2 DEF Made1
<1>6. ASSUME Without({"reboot"})'
      PROVE  TagsFresh'
  <2>1. TagsFresh
    BY <1>1, <1>6, TagInvParts DEF Without
  <2>2. ASSUME NEW x \in Commands \cup Answers
        PROVE  x.tag \in Nat /\ x.tag < tag
    BY <2>1, CommandType DEF TagsFresh, Fresh
  <2>3. CASE Begins
    <3>1. client'.tag = tag /\ tag' = tag + 1 /\ ~Sends
      BY <2>3 DEF Begins, Sends
    <3>2. \A x \in (Commands \cup Answers)' : x \in Commands \cup Answers
      BY <1>1, <3>1
    <3>3. ASSUME NEW x \in (Commands \cup Answers)'
          PROVE  x.tag < tag' /\ x.tag # client'.tag
      <4>1. x.tag \in Nat /\ x.tag < tag
        BY <2>2, <3>2
      <4> QED BY <1>2, <3>1, <4>1
    <3>4. client'.tag < tag'
      BY <1>2, <3>1
    <3> QED BY <3>3, <3>4 DEF TagsFresh, Fresh
  <2>4. CASE ~Begins /\ client' = NoCall
    <3>1. tag' = tag /\ ~Calling' /\ ~Sends
      <4>1. ~Calling'
        BY <2>4, NoCallFacts DEF Calling
      <4>2. ~Sends
        BY <4>1 DEF Sends, SameCall, Calling
      <4>3. ~Restarts
        BY <1>6 DEF Restarts, Without
      <4> QED BY <2>4, <4>1, <4>2, <4>3 DEF ClientStep, Unavailable, Drops, Proceeds, NextPart,
                                           Ends, clientVars
    <3>2. \A x \in (Commands \cup Answers)' : x \in Commands \cup Answers
      BY <1>1, <3>1
    <3> QED BY <2>2, <3>1, <3>2 DEF TagsFresh, Fresh
  <2>5. CASE ~Begins /\ client' # NoCall
    <3>1. /\ client'.tag = client.tag /\ client'.id = client.id /\ client'.op = client.op
          /\ Calling' /\ Calling /\ tag' = tag
      <4>1. CASE Sends \/ Proceeds \/ NextPart
        BY <4>1 DEF Sends, Proceeds, NextPart, SameCall, Calling
      <4>2. CASE Drops \/ Unavailable
        <5>1. client' = client /\ tag' = tag
          BY <4>2 DEF Drops, Unavailable, clientVars
        <5> QED BY <2>5, <5>1 DEF CallInv, Calling
      <4> QED BY <2>5, <4>1, <4>2 DEF ClientStep, Ends, Restarts
    <3>2. ASSUME NEW x \in (Commands \cup Answers)'
          PROVE  Fresh(x)'
      <4>1. CASE x \in Commands \cup Answers
        BY <2>1, <3>1, <4>1 DEF TagsFresh, Fresh
      <4>2. CASE Sends /\ x = Head(client.todo)
        BY <1>4, <2>1, <3>1, <4>2 DEF TagsFresh, Fresh
      <4> QED BY <1>1, <4>1, <4>2
    <3>3. \A m \in Commands' : m.tag = client'.tag => m.op = client'.op
      BY <1>1, <1>4, <2>1, <3>1 DEF TagsFresh
    <3> QED BY <1>1, <2>1, <3>1, <3>2, <3>3 DEF TagsFresh
  <2> QED BY <2>3, <2>4, <2>5
<1>7. Made1' /\ (Without({"reboot"})' => TagsFresh') => TagInv'
  BY DEF TagInv, Made1, TagsFresh
<1> QED BY <1>5, <1>6, <1>7

\* The parts of HandleInv and of HeldHandlesOpen.
HandlesKept ==
    /\ DOMAIN held \subseteq 1 .. unique
    /\ client.op = "close" => client.h \in 1 .. unique
    /\ \A m \in Commands : Closes(m)
    /\ \A r \in Answers : Brings(r)
OpenThere(h) ==
    \/ h \in DOMAIN table /\ table[h].ino = held[h].ino
    \/ client.op = "close" /\ client.h = h
Undisturbed == Without({"restart", "reboot"})

LEMMA UndisturbedFacts ==
    ASSUME HandleInv, HeldHandlesOpen, TagInv, events \subseteq events', Undisturbed'
    PROVE  /\ HandlesKept /\ TagsFresh
           /\ \A h \in DOMAIN held : OpenThere(h)
<1>1. Undisturbed /\ Without({"reboot"})
  BY DEF Undisturbed, Without
<1> QED BY <1>1, TagInvParts
        DEF HandleInv, HandlesKept, HeldHandlesOpen, OpenThere, Undisturbed

LEMMA ServerHandles ==
    ASSUME TypeOK, CallInv, TagInv, HandleInv, HeldHandlesOpen, ServerStep, ServerFlow
    PROVE  HandleInv' /\ HeldHandlesOpen'
<1>1. client' = client /\ held' = held /\ events \subseteq events'
  BY FewerCommands DEF ServerFlow, ServerStep, clientVars
<1>2. host'.pc \in {"down", "flush"} => "restart" \in events'
  BY DEF ServerFlow
<1>3. ASSUME Undisturbed'
      PROVE  HandlesKept' /\ \A h \in DOMAIN held' : OpenThere(h)'
  <2>1. HandlesKept /\ TagsFresh /\ \A h \in DOMAIN held : OpenThere(h)
    BY <1>1, <1>3, UndisturbedFacts
  <2>2. /\ unique' \in {unique, unique + 1} /\ unique \in Nat
        /\ \A h \in DOMAIN table : Gone(h) => \E m \in Commands : m.op = "close" /\ m.h = h
    BY <1>3 DEF ServerFlow, Undisturbed, Without, TypeOK, DiskType
  <2>3. \A h \in 1 .. unique : h \in 1 .. unique' /\ h # unique + 1
    BY <2>2
  <2>4. ASSUME NEW k \in Commands', k.op = "close"
        PROVE  \E m \in Commands : m.op = "close" /\ m.h = k.h /\ k.h \in 1 .. unique
    <3>1. PICK m \in Commands : Like(m, k)
      BY DEF ServerFlow
    <3> QED BY <2>1, <2>4, <3>1 DEF Like, HandlesKept, Closes
  <2>5. ASSUME NEW k \in Commands'
        PROVE  Closes(k)'
    BY <1>1, <2>1, <2>3, <2>4 DEF HandlesKept, Closes
  <2>6. ASSUME NEW r \in Answers', client.op = "open", r.tag = client.tag, r.status = "OK"
        PROVE  /\ r.h \in DOMAIN table' /\ table'[r.h].ino = r.ino
               /\ \A m \in Commands' : m.op = "close" => m.h # r.h
    <3>1. CASE r \in Answers
      <4>1. /\ r.h \in DOMAIN table /\ table[r.h].ino = r.ino
            /\ \A m \in Commands : m.op = "close" => m.h # r.h
        BY <2>1, <2>6, <3>1 DEF HandlesKept, Brings
      <4>2. ~Gone(r.h)
        BY <2>2, <4>1
      <4> QED BY <2>4, <4>1, <4>2 DEF Gone
    <3>2. CASE \E m \in Commands : Made(r, m)
      <4>1. PICK m \in Commands : Made(r, m)
        BY <3>2
      <4>2. Calling
        BY <2>6, NoCallFacts DEF CallInv
      <4>3. m.op = "open"
        BY <2>1, <2>6, <4>1, <4>2 DEF TagsFresh, Made
      <4>4. r.h = unique + 1 /\ r.h \in DOMAIN table' /\ table'[r.h].ino = r.ino
        BY <2>6, <4>1, <4>3 DEF Made
      <4> QED BY <2>3, <2>4, <4>4
    <3> QED BY <3>1, <3>2 DEF ServerFlow
  <2>7. \A r \in Answers' : Brings(r)'
    BY <1>1, <2>6 DEF Brings
  <2>8. ASSUME NEW h \in DOMAIN held
        PROVE  OpenThere(h)'
    <3>1. CASE client.op = "close" /\ client.h = h
      BY <1>1, <3>1 DEF OpenThere
    <3>2. CASE h \in DOMAIN table /\ table[h].ino = held[h].ino /\ Gone(h)
      BY <1>1, <2>1, <2>2, <3>2 DEF HandlesKept, Closes, OpenThere
    <3>3. CASE h \in DOMAIN table /\ table[h].ino = held[h].ino /\ ~Gone(h)
      BY <1>1, <3>3 DEF Gone, OpenThere
    <3> QED BY <2>1, <3>1, <3>2, <3>3 DEF OpenThere
  <2>9. DOMAIN held' \subseteq 1 .. unique' /\ (client'.op = "close" => client'.h \in 1 .. unique')
    BY <1>1, <2>1, <2>3 DEF HandlesKept
  <2> QED BY <1>1, <2>5, <2>7, <2>8, <2>9 DEF HandlesKept
<1> QED BY <1>2, <1>3 DEF HandleInv, HandlesKept, HeldHandlesOpen, OpenThere, Undisturbed

LEMMA ClientHandles ==
    ASSUME TypeOK, CallInv, TagInv, HandleInv, HeldHandlesOpen, ClientStep
    PROVE  HandleInv' /\ HeldHandlesOpen'
<1>1. /\ Commands' = Commands \cup (IF Sends THEN {Head(client.todo)} ELSE {})
      /\ Answers' \subseteq Answers
      /\ host' = host /\ table' = table /\ unique' = unique /\ events \subseteq events'
  BY ClientFlow DEF diskVars
<1>2. host'.pc \in {"down", "flush"} => "restart" \in events'
  BY <1>1 DEF HandleInv
<1>3. ASSUME Undisturbed'
      PROVE  HandlesKept' /\ \A h \in DOMAIN held' : OpenThere(h)'
  <2>1. HandlesKept /\ TagsFresh /\ \A h \in DOMAIN held : OpenThere(h)
    BY <1>1, <1>3, UndisturbedFacts
  <2>2. ~Restarts
    BY <1>3 DEF Restarts, Undisturbed, Without
  <2>3. DOMAIN table \subseteq 1 .. unique
    BY DEF TypeOK, DiskType
  <2>4. CASE Begins
    <3>1. ~Sends /\ client.op = "none" /\ held' = held /\ client'.tag = tag
          /\ (client'.op = "close" => client'.h \in DOMAIN held)
      BY <2>4, NoCallFacts DEF Begins, Sends, CallInv, Calling
    <3>2. \A m \in Commands' : Closes(m)'
      BY <1>1, <2>1, <3>1 DEF HandlesKept, Closes
    <3>3. ASSUME NEW r \in Answers'
          PROVE  Brings(r)'
      <4>1. r.tag < tag /\ r.tag \in Nat /\ tag \in Nat
        BY <1>1, <2>1, CommandType DEF TagsFresh, Fresh, TypeOK, ClientType
      <4>2. r.tag # client'.tag
        BY <3>1, <4>1
      <4> QED BY <4>2 DEF Brings
    <3>4. \A h \in DOMAIN held' : OpenThere(h)'
      BY <1>1, <2>1, <3>1 DEF OpenThere
    <3> QED BY <1>1, <2>1, <3>1, <3>2, <3>3, <3>4 DEF HandlesKept
  <2>5. CASE Ends
    <3>1. /\ ~Sends /\ client'.op = "none" /\ Calling /\ Answers' \subseteq Answers
          /\ ~Begins
      BY <1>1, <2>5, NoCallFacts DEF Ends, Sends, SameCall, Begins, Calling
    <3>2. PICK status, k, ino :
              /\ HeldAfter(status, k, ino)
              /\ client.op = "open" /\ status = "OK" =>
                   /\ k \in DOMAIN table /\ table[k].ino = ino
                   /\ \A m \in Commands : m.op = "close" => m.h # k
      <4>1. CASE /\ HeldAfter(result'.status, NoParent, 0)
                 /\ result'.status \in {"BADLEN", "NODATA", "GAVEUP"}
        BY <4>1
      <4>2. CASE Taken /\ Repeats(Head(utoa))
        <5>1. HeldAfter(Head(utoa).status, Head(utoa).h, Head(utoa).ino)
              /\ Head(utoa).tag = client.tag
          BY <4>2 DEF Repeats
        <5>2. Head(utoa) \in Answers
          BY <4>2, TailFacts DEF Taken, TypeOK, Answers
        <5>3. Brings(Head(utoa))
          BY <2>1, <5>2 DEF HandlesKept
        <5> QED BY <5>1, <5>3 DEF Brings
      <4> QED BY <2>5, <4>1, <4>2 DEF Ends
    <3>3. ASSUME NEW h \in DOMAIN held'
          PROVE  /\ h \in 1 .. unique /\ h \in DOMAIN table /\ table[h].ino = held'[h].ino
                 /\ \A m \in Commands : m.op = "close" => m.h # h
      <4>1. CASE /\ h \in DOMAIN held /\ held'[h].ino = held[h].ino
                 /\ ~(client.op = "close" /\ client.h = h)
        BY <2>1, <4>1 DEF HandlesKept, OpenThere, Closes
      <4>2. CASE client.op = "open" /\ status = "OK" /\ h = k /\ held'[h].ino = ino
        BY <2>3, <3>2, <4>2
      <4> QED BY <3>2, <4>1, <4>2 DEF HeldAfter
    <3>4. \A m \in Commands' : Closes(m)'
      BY <1>1, <2>1, <3>1, <3>3 DEF HandlesKept, Closes
    <3>5. \A r \in Answers' : Brings(r)'
      BY <3>1 DEF Brings
    <3>6. \A h \in DOMAIN held' : OpenThere(h)'
      BY <1>1, <3>3 DEF OpenThere
    <3> QED BY <1>1, <3>1, <3>3, <3>4, <3>5, <3>6 DEF HandlesKept
  <2>6. CASE Unavailable \/ Sends \/ Drops \/ Proceeds \/ NextPart
    <3>1. /\ client'.op = client.op /\ client'.h = client.h /\ client'.tag = client.tag
          /\ held' = held
      BY <2>6 DEF Unavailable, Sends, Drops, Proceeds, NextPart, SameCall, clientVars
    <3>2. ASSUME Sends
          PROVE  /\ Head(client.todo).op = client.op
                 /\ client.op = "close" => Head(client.todo).h = client.h
      <4>1. 1 \in DOMAIN client.todo
        BY <3>2, TailFacts, ClientFields DEF Sends, TypeOK, ClientType
      <4>2. LET m == Head(client.todo)
            IN /\ m.op = client.op /\ (m.lead => m.h = client.h)
               /\ ~m.lead => m.op = "write"
        BY <3>2, <4>1 DEF Sends, CallInv, TodoInv
      <4> QED BY <4>2
    <3>3. ASSUME NEW m \in Commands'
          PROVE  Closes(m)'
      <4>1. CASE m \in Commands
        BY <1>1, <2>1, <3>1, <4>1 DEF HandlesKept, Closes
      <4>2. CASE Sends /\ m = Head(client.todo)
        BY <1>1, <2>1, <3>1, <3>2, <4>2 DEF HandlesKept, Closes
      <4> QED BY <1>1, <4>1, <4>2
    <3>4. ASSUME NEW r \in Answers'
          PROVE  Brings(r)'
      <4>1. Brings(r)
        BY <1>1, <2>1 DEF HandlesKept
      <4> QED BY <1>1, <3>1, <3>2, <4>1 DEF Brings
    <3>5. \A h \in DOMAIN held' : OpenThere(h)'
      BY <1>1, <2>1, <3>1 DEF OpenThere
    <3> QED BY <1>1, <2>1, <3>1, <3>3, <3>4, <3>5 DEF HandlesKept
  <2> QED BY <2>2, <2>4, <2>5, <2>6 DEF ClientStep
<1> QED BY <1>2, <1>3 DEF HandleInv, HandlesKept, HeldHandlesOpen, OpenThere, Undisturbed

-------------------------------------------------------------------------------
(* First messages.                                                         *)

LEMMA OrderKept ==
    ASSUME TypeOK, Ordered(atou),
           atou' = atou \/ (atou # <<>> /\ atou' = Tail(atou)) \/ atou' = <<>>
    PROVE  Ordered(atou')
<1>1. CASE atou' = atou
  BY <1>1 DEF Ordered
<1>2. CASE atou # <<>> /\ atou' = Tail(atou)
  <2>1. /\ atou \in Seq(Requests) /\ Tail(atou) \in Seq(Requests)
        /\ \A i \in DOMAIN Tail(atou) : i + 1 \in DOMAIN atou /\ Tail(atou)[i] = atou[i + 1]
    BY <1>2, TailFacts DEF TypeOK
  <2>2. DOMAIN Tail(atou) = 1 .. Len(Tail(atou)) /\ Len(Tail(atou)) \in Nat
    BY <2>1, SeqFacts
  <2>3. ASSUME NEW i \in DOMAIN Tail(atou), NEW j \in DOMAIN Tail(atou), i < j,
               Tail(atou)[j].lead
        PROVE  Tail(atou)[i].id # Tail(atou)[j].id
    <3>1. i + 1 < j + 1
      BY <2>2, <2>3
    <3> QED BY <2>1, <2>3, <3>1 DEF Ordered
  <2> QED BY <1>2, <2>3 DEF Ordered
<1>3. CASE atou' = <<>>
  BY <1>3 DEF Ordered
<1> QED BY <1>1, <1>2, <1>3

\* Nothing has come of request m yet.
ToldId(id) == result.op # "none" /\ Meaning /\ \E p \in Parts(result) : id = <<result.id, p>>
First(m) == effects[m.id] = 0 /\ (\A r \in Answers : r.id # m.id) /\ ~ToldId(m.id)

\* The server takes m out of the ring or finishes with it.
Turn(m) ==
    /\ m \in Commands /\ m \in Requests
    /\ host.pc \in {"idle", "collect"}
    /\ host.pc = "idle" => m \in ToSet(atou)
    /\ host.pc = "collect" => m = host.job
    /\ \A k \in ToSet(atou') : k.lead => k.id # m.id
    /\ Sending => m.id # Current

LEMMA HeadTurn ==
    ASSUME TypeOK, CallInv, LeadsInv, Told, host.pc = "idle", atou # <<>>,
           atou' = Tail(atou)
    PROVE  Turn(Head(atou)) /\ (Head(atou).lead => First(Head(atou)))
<1> DEFINE m == Head(atou)
<1>1. /\ atou \in Seq(Requests) /\ m \in Requests /\ m \in ToSet(atou)
      /\ 1 \in DOMAIN atou /\ m = atou[1]
      /\ \A i \in DOMAIN Tail(atou) : i + 1 \in DOMAIN atou /\ Tail(atou)[i] = atou[i + 1]
      /\ Tail(atou) \in Seq(Requests)
  BY TailFacts DEF TypeOK
<1>2. DOMAIN Tail(atou) = 1 .. Len(Tail(atou)) /\ Len(Tail(atou)) \in Nat
  BY <1>1, SeqFacts
<1>3. ASSUME NEW k \in ToSet(atou'), k.lead
      PROVE  k.id # m.id
  <2>1. PICK i \in DOMAIN Tail(atou) : k = Tail(atou)[i]
    BY <1>3 DEF ToSet
  <2>2. k = atou[i + 1] /\ i + 1 \in DOMAIN atou /\ 1 < i + 1
    BY <1>1, <1>2, <2>1
  <2> QED BY <1>1, <1>3, <2>2 DEF LeadsInv, Ordered
<1>4. Sending => m.id # Current
  BY <1>1 DEF LeadsInv
<1>5. Turn(m)
  BY <1>1, <1>3, <1>4 DEF Turn, Commands
<1>6. ASSUME m.lead
      PROVE  First(m)
  <2>1. NotYet(m.id)
    BY <1>1, <1>6 DEF LeadsInv
  <2>2. ~ToldId(m.id)
    BY <1>1, <1>6 DEF Told, ToldId
  <2> QED BY <2>1, <2>2 DEF NotYet, First
<1> QED BY <1>5, <1>6

LEMMA JobTurn ==
    ASSUME TypeOK, LeadsInv, Told, host.pc = "collect", ToSet(atou') \subseteq ToSet(atou)
    PROVE  Turn(host.job) /\ First(host.job)
<1>1. Working /\ host.job \in Requests /\ host.job \in Commands
  BY DEF Working, TypeOK, HostType, Commands
<1>2. Turn(host.job)
  BY <1>1 DEF Turn, LeadsInv, NotYet
<1>3. First(host.job)
  BY DEF First, LeadsInv, Told, ToldId
<1> QED BY <1>2, <1>3

\* The step of the server, for the request whose turn it is.
Serve(m, st, h, ino) ==
    /\ st \in Statuses /\ h \in Int /\ ino \in Nat /\ Served(m, st, h, ino)
    /\ First(m) \/ (m \in ToSet(atou) /\ ~m.lead /\ st \in HostErrors)
Stay(m) ==
    /\ Stays(m) /\ First(m)
    /\ host.pc = "idle" => m.lead /\ Len(m.data) < m.total

LEMMA Turns ==
    ASSUME TypeOK, CallInv, LeadsInv, Told, ServerWork
    PROVE  \E m \in Commands : Turn(m) /\ (Stay(m) \/ \E st, h, ino : Serve(m, st, h, ino))
<1>1. CASE /\ host.pc = "idle" /\ atou # <<>> /\ atou' = Tail(atou)
           /\ Serves(Head(atou)) \/ Gathers(Head(atou))
  <2> DEFINE m == Head(atou)
  <2>1. Turn(m) /\ (m.lead => First(m))
    BY <1>1, HeadTurn
  <2>2. m \in Commands /\ m \in ToSet(atou) /\ Follows(m)
    BY <1>1, HeadRequest DEF Commands, CallInv
  <2>3. ~m.lead => m.op = "write" /\ m.h \notin DOMAIN table
    <3>1. Garbage \notin DOMAIN table
      BY DEF TypeOK, DiskType, Garbage
    <3> QED BY <2>2, <3>1 DEF Follows
  <2>4. CASE Serves(m)
    <3>1. PICK st \in Statuses, h \in Int, ino \in Nat : Served(m, st, h, ino)
      BY <2>4 DEF Serves
    <3>2. ~m.lead => st \in HostErrors
      BY <2>3, <3>1 DEF Served
    <3>3. Serve(m, st, h, ino)
      BY <2>1, <2>2, <3>1, <3>2 DEF Serve
    <3> QED BY <2>1, <2>2, <3>3
  <2>5. CASE Gathers(m)
    <3>1. Stays(m) /\ m.h \in DOMAIN table /\ Len(m.data) < m.total
      BY <2>5 DEF Gathers, Stays
    <3>2. Stay(m)
      BY <2>1, <2>3, <3>1 DEF Stay
    <3> QED BY <2>1, <2>2, <3>2
  <2> QED BY <1>1, <2>4, <2>5
<1>2. CASE host.pc = "collect" /\ (Serves(host.job) \/ Stays(host.job))
  <2>1. Turn(host.job) /\ First(host.job) /\ host.job \in Commands
    BY <1>2, FewerCommands, JobTurn DEF Turn
  <2>2. CASE Serves(host.job)
    <3>1. PICK st \in Statuses, h \in Int, ino \in Nat : Served(host.job, st, h, ino)
      BY <2>2 DEF Serves
    <3>2. Serve(host.job, st, h, ino)
      BY <2>1, <3>1 DEF Serve
    <3> QED BY <2>1, <3>2
  <2>3. CASE Stays(host.job)
    BY <1>2, <2>1, <2>3 DEF Stay
  <2> QED BY <1>2, <2>2, <2>3
<1>3. host.pc # "again"
  BY DEF LeadsInv
<1> QED BY <1>1, <1>2, <1>3 DEF ServerWork, Stays

\* No request takes effect and none is answered: nothing but less on its way.
Calm ==
    /\ effects' = effects /\ Answers' \subseteq Answers
    /\ ToSet(atou') \subseteq ToSet(atou) /\ Ordered(atou')
    /\ Working' => Working /\ host'.job.id = host.job.id
    /\ Replying' => Replying /\ ToSet(host'.out) \subseteq ToSet(host.out)
    /\ host'.pc = "collect" => host.pc = "collect"
    /\ host'.pc # "again"
    /\ Sending' => Sending /\ Current' = Current

LEMMA CalmLeads ==
    ASSUME LeadsInv, Calm
    PROVE  LeadsInv'
<1>1. ASSUME NEW id, NotYet(id)
      PROVE  NotYet(id)'
  BY <1>1 DEF NotYet, Calm
<1>2. \A m \in ToSet(atou') : m.lead => NotYet(m.id)'
  BY <1>1 DEF LeadsInv, Calm
<1>3. Sending' => NotYet(Current)' /\ \A m \in ToSet(atou') : m.id # Current'
  BY <1>1 DEF LeadsInv, Calm
<1>4. Replying' => \A r \in ToSet(host'.out) : r.id = host'.job.id
  BY DEF LeadsInv, Calm, Replying, Working
<1>5. host'.pc = "collect" =>
        effects'[host'.job.id] = 0 /\ \A r \in Answers' : r.id # host'.job.id
  BY DEF LeadsInv, Calm, Working
<1> QED BY <1>2, <1>3, <1>4, <1>5 DEF LeadsInv, Calm

LEMMA CurrentId ==
    ASSUME TypeOK, CallInv, Calling
    PROVE  /\ Current \in Ids /\ client.id = calls /\ calls \in Nat \ {0} /\ client.op \in Ops
           /\ client.part \in {1, 2} /\ result = NoResult
<1>1. /\ client.id = calls /\ calls # 0 /\ client.op \in Ops /\ result = NoResult
      /\ calls \in 0 .. MaxCalls /\ client.part \in {1, 2}
  BY ClientFields DEF TypeOK, ClientType, CallInv, CurrentCall
<1>2. calls \in 1 .. MaxCalls
  BY <1>1
<1> QED BY <1>1, <1>2 DEF Current, Ids

LEMMA ServeLeads ==
    ASSUME TypeOK, CallInv, LeadsInv, NEW m, NEW st, NEW h, NEW ino, Turn(m), Serve(m, st, h, ino),
           ServerWork
    PROVE  LeadsInv'
<1>1. /\ host'.pc = "reply" /\ Working' /\ Replying' /\ host'.job.id = m.id
      /\ \A r \in ToSet(host'.out) : r.id = m.id
      /\ \A id \in Ids : id # m.id => effects'[id] = effects[id]
  BY DEF Serve, Served, Replied, Moves, Working, Replying
<1>2. UNCHANGED clientVars /\ utoa' = utoa /\ ToSet(atou') \subseteq ToSet(atou)
      /\ Ordered(atou')
  BY FewerCommands, OrderKept DEF ServerWork, LeadsInv
<1>3. client' = client
  BY <1>2 DEF clientVars
<1>4. ASSUME NEW id \in Ids, NotYet(id), id # m.id
      PROVE  NotYet(id)'
  BY <1>1, <1>2, <1>4 DEF NotYet, Answers
<1>5. ASSUME NEW k \in ToSet(atou'), k.lead
      PROVE  NotYet(k.id)'
  <2>1. k.id \in Ids /\ k.id # m.id /\ NotYet(k.id)
    BY <1>2, <1>5, CommandType DEF Turn, LeadsInv, Commands
  <2> QED BY <1>4, <2>1
<1>6. ASSUME Sending'
      PROVE  NotYet(Current)' /\ \A k \in ToSet(atou') : k.id # Current'
  <2>1. Sending /\ Current' = Current
    BY <1>3, <1>6 DEF Sending, Current
  <2>2. Current # m.id /\ NotYet(Current) /\ \A k \in ToSet(atou) : k.id # Current
    BY <2>1 DEF Turn, LeadsInv
  <2>3. Current \in Ids
    BY <2>1, CurrentId DEF Sending, Calling
  <2>4. NotYet(Current)'
    BY <1>4, <2>1, <2>2, <2>3
  <2> QED BY <1>2, <2>1, <2>2, <2>4
<1> QED BY <1>1, <1>2, <1>5, <1>6 DEF LeadsInv

LEMMA StayLeads ==
    ASSUME TypeOK, LeadsInv, NEW m, Turn(m), Stay(m), ServerWork
    PROVE  LeadsInv'
<1>1. /\ host'.pc = "collect" /\ Working' /\ ~Replying' /\ host'.job = m
      /\ effects' = effects
  BY DEF Stay, Stays, Working, Replying, diskVars
<1>2. UNCHANGED clientVars /\ utoa' = utoa /\ ToSet(atou') \subseteq ToSet(atou)
      /\ Ordered(atou')
  BY FewerCommands, OrderKept DEF ServerWork, LeadsInv
<1>3. client' = client
  BY <1>2 DEF clientVars
<1>4. Answers' \subseteq Answers
  BY <1>1, <1>2 DEF Answers
<1>5. ASSUME NEW id, NotYet(id), id # m.id
      PROVE  NotYet(id)'
  BY <1>1, <1>4, <1>5 DEF NotYet
<1>6. \A k \in ToSet(atou') : k.lead => NotYet(k.id)'
  BY <1>2, <1>5 DEF Turn, LeadsInv
<1>7. Sending' => NotYet(Current)' /\ \A k \in ToSet(atou') : k.id # Current'
  BY <1>2, <1>3, <1>5 DEF Turn, LeadsInv, Sending, Current
<1>8. effects'[m.id] = 0 /\ \A r \in Answers' : r.id # m.id
  BY <1>1, <1>4 DEF Stay, First
<1> QED BY <1>1, <1>2, <1>6, <1>7, <1>8 DEF LeadsInv

\* A request that has had no call yet.
LEMMA NewRequest ==
    ASSUME TypeOK, TagInv, PartInv, NEW id \in Ids, id[1] = calls + 1
    PROVE  NotYet(id) /\ \A x \in Commands \cup Answers : x.id # id
<1>1. calls \in Nat
  BY DEF TypeOK, ClientType
<1>2. ASSUME NEW x \in Commands \cup Answers
      PROVE  x.id # id
  <2>1. x.id[1] <= calls /\ x.id[1] \in Nat
    BY CommandType DEF TagInv
  <2> QED BY <1>1, <2>1
<1>3. effects[id] = 0
  BY <1>1 DEF PartInv
<1> QED BY <1>2, <1>3 DEF NotYet, Commands

LEMMA BeginLeads ==
    ASSUME TypeOK, TypeOK', TagInv, PartInv, LeadsInv, Begins
    PROVE  LeadsInv'
<1>1. /\ host' = host /\ atou' = atou /\ utoa' = utoa /\ effects' = effects
      /\ Current' = <<calls + 1, 1>> /\ calls' = calls + 1
  BY DEF Begins, diskVars, Current
<1>2. /\ Answers' = Answers /\ (Working' <=> Working) /\ (Replying' <=> Replying)
  BY <1>1 DEF Answers, Working, Replying
<1>3. <<calls + 1, 1>> \in Ids
  BY <1>1 DEF TypeOK, ClientType, Ids
<1>4. NotYet(<<calls + 1, 1>>) /\ \A m \in ToSet(atou) : m.id # <<calls + 1, 1>>
  BY <1>3, NewRequest DEF Commands
<1>5. \A id : NotYet(id) <=> NotYet(id)'
  BY <1>1, <1>2 DEF NotYet
<1> QED BY <1>1, <1>2, <1>4, <1>5 DEF LeadsInv

LEMMA NextLeads ==
    ASSUME TypeOK, TypeOK', CallInv, PartInv, LeadsInv, NextPart
    PROVE  LeadsInv'
<1>1. /\ host' = host /\ atou' = atou /\ effects' = effects /\ Taken
      /\ Current' = <<client.id, 2>> /\ Calling /\ client.part = 1
  BY DEF NextPart, Rest, diskVars, Current, SameCall, Calling
<1>2. Answers' \subseteq Answers /\ (Working' <=> Working) /\ (Replying' <=> Replying)
  BY ClientFlow DEF ClientStep
<1>3. \A x \in Commands \cup Answers : x.id # <<client.id, 2>>
  BY <1>1 DEF PartInv
<1>4. NotYet(<<client.id, 2>>) /\ \A m \in ToSet(atou) : m.id # <<client.id, 2>>
  BY <1>1, <1>3 DEF PartInv, NotYet, Commands
<1>5. ASSUME NEW id, NotYet(id)
      PROVE  NotYet(id)'
  BY <1>1, <1>2, <1>5 DEF NotYet
<1>6. Sending' => NotYet(Current)' /\ \A m \in ToSet(atou') : m.id # Current'
  BY <1>1, <1>4, <1>5
<1> QED BY <1>1, <1>2, <1>5, <1>6 DEF LeadsInv, Working, Replying

LEMMA SendLeads ==
    ASSUME TypeOK, TypeOK', CallInv, CallInv', LeadsInv, Sends, Quiet'
    PROVE  LeadsInv'
<1> DEFINE m == Head(client.todo)
<1>1. /\ host' = host /\ utoa' = utoa /\ effects' = effects /\ atou' = Append(atou, m)
      /\ ToSet(atou') = ToSet(atou) \cup {m} /\ m \in Requests
      /\ \A k \in ToSet(client'.todo) : ~k.lead
      /\ client.pc = "send" /\ client.todo # <<>> /\ client'.pc \in {"send", "wait"}
  BY DEF Sends, diskVars, Quiet, Without
<1>2. m.id = Current
  <2>1. 1 \in DOMAIN client.todo /\ m = client.todo[1]
    BY <1>1, TailFacts, ClientFields DEF TypeOK, ClientType
  <2> QED BY <2>1 DEF CallInv, TodoInv
<1>3. Answers' = Answers /\ (Working' <=> Working) /\ (Replying' <=> Replying)
  BY <1>1 DEF Answers, Working, Replying
<1>4. \A id : NotYet(id) <=> NotYet(id)'
  BY <1>1, <1>3 DEF NotYet
<1>5. m.lead => Sending
  BY <1>1 DEF Sending
<1> HIDE DEF m
<1>6. \A k \in ToSet(atou') : k.lead => NotYet(k.id)'
  BY <1>1, <1>2, <1>4, <1>5 DEF LeadsInv
<1>7. Ordered(atou')
  <2>1. /\ atou \in Seq(Requests) /\ Len(atou) \in Nat /\ DOMAIN atou = 1 .. Len(atou)
        /\ DOMAIN atou' = 1 .. Len(atou) + 1 /\ atou'[Len(atou) + 1] = m
        /\ \A i \in DOMAIN atou : atou'[i] = atou[i]
    BY <1>1, SeqFacts, AppendFacts DEF TypeOK
  <2>2. ASSUME NEW i \in DOMAIN atou', NEW j \in DOMAIN atou', i < j, atou'[j].lead
        PROVE  atou'[i].id # atou'[j].id
    <3>1. i \in DOMAIN atou /\ (j \in DOMAIN atou \/ j = Len(atou) + 1)
      BY <2>1, <2>2
    <3>2. CASE j \in DOMAIN atou
      BY <2>1, <2>2, <3>1, <3>2 DEF LeadsInv, Ordered
    <3>3. CASE j = Len(atou) + 1
      <4>1. m.lead /\ atou'[j] = m /\ atou'[i] \in ToSet(atou)
        BY <2>1, <2>2, <3>1, <3>3 DEF ToSet
      <4> QED BY <1>2, <1>5, <4>1 DEF LeadsInv
    <3> QED BY <3>1, <3>2, <3>3
  <2> QED BY <2>2 DEF Ordered
<1>8. ~Sending'
  <2>1. ASSUME client'.pc = "send"
        PROVE  Head(client'.todo) \in ToSet(client'.todo)
    <3>1. client'.todo \in Seq(Requests) /\ client'.todo # <<>>
      BY <2>1, ClientFields DEF TypeOK, ClientType, CallInv
    <3> QED BY <3>1, TailFacts
  <2> QED BY <1>1, <2>1 DEF Sending
<1> QED BY <1>1, <1>3, <1>6, <1>7, <1>8 DEF LeadsInv, Working, Replying

LEMMA CalmClient ==
    ASSUME TypeOK, LeadsInv, Unavailable \/ Drops \/ Proceeds \/ Ends
    PROVE  Calm /\ host' = host /\ atou' = atou
<1>1. /\ Answers' \subseteq Answers /\ (Working' <=> Working) /\ (Replying' <=> Replying)
      /\ host' = host /\ effects' = effects
  BY ClientFlow DEF ClientStep, diskVars
<1>2. atou' = atou
  BY DEF Unavailable, Drops, Proceeds, Ends, Rest
<1>3. Sending' => Sending /\ Current' = Current
  <2>1. client' = client \/ client'.pc # "send"
    BY NoCallFacts DEF Unavailable, Drops, Proceeds, Ends, clientVars
  <2> QED BY <2>1 DEF Sending, Current
<1> QED BY <1>1, <1>2, <1>3 DEF Calm, LeadsInv

LEMMA CalmServer ==
    ASSUME TypeOK, LeadsInv, ServerSends \/ ServerRestarts, Quiet'
    PROVE  Calm
<1>1. Answers' \subseteq Answers
  <2>1. CASE ServerSends
    BY <2>1, SendsFlow
  <2>2. CASE ServerRestarts
    <3>1. CASE host'.pc \in {"idle", "down", "flush"} /\ utoa' = utoa
      BY <3>1 DEF Answers, Replying
    <3>2. CASE host' = host /\ utoa' = utoa
      BY <3>2 DEF Answers, Replying
    <3> QED BY <2>2, <3>1, <3>2 DEF ServerRestarts, Stop, Start, Flush, Expire, Idle
  <2> QED BY <2>1, <2>2
<1>2. UNCHANGED clientVars /\ ToSet(atou') \subseteq ToSet(atou) /\ Ordered(atou')
  BY FewerCommands, OrderKept DEF LeadsInv
<1>3. client' = client
  BY <1>2 DEF clientVars
<1>4. effects' = effects
  BY DEF ServerSends, ServerRestarts, Stop, Start, Flush, Expire, diskVars
<1>5. /\ Working' => Working /\ host'.job.id = host.job.id
      /\ Replying' => Replying /\ ToSet(host'.out) \subseteq ToSet(host.out)
      /\ host'.pc = "collect" => host.pc = "collect"
      /\ host'.pc # "again"
  <2>1. CASE ServerSends
    <3>1. events' \cap {"refused", "repeated"} = {}
      BY DEF Quiet, Without
    <3> QED BY <2>1, <3>1, ReplyHead DEF ServerSends, Working, Replying
  <2>2. CASE ServerRestarts
    <3>1. CASE host'.pc \in {"idle", "down", "flush"}
      BY <3>1 DEF Working, Replying
    <3>2. CASE host' = host
      BY <3>2 DEF Working, Replying, LeadsInv
    <3> QED BY <2>2, <3>1, <3>2 DEF ServerRestarts, Stop, Start, Flush, Expire, Idle
  <2> QED BY <2>1, <2>2
<1>6. Sending' => Sending /\ Current' = Current
  BY <1>3 DEF Sending, Current
<1> QED BY <1>1, <1>2, <1>4, <1>5, <1>6 DEF Calm

LEMMA QuietBefore ==
    ASSUME QuietInv, events \subseteq events', Quiet'
    PROVE  Quiet /\ LeadsInv /\ PartInv /\ SingleInv /\ TellsInv /\ Told
BY DEF QuietInv, Quiet, Without, TellsInv

LEMMA LeadsKept ==
    ASSUME TypeOK, TypeOK', CallInv, CallInv', TagInv, QuietInv, ClientStep \/ ServerStep,
           events \subseteq events', Quiet'
    PROVE  LeadsInv'
<1>1. LeadsInv /\ PartInv /\ Told
  BY QuietBefore
<1>2. CASE Begins
  BY <1>1, <1>2, BeginLeads
<1>3. CASE NextPart
  BY <1>1, <1>3, NextLeads
<1>4. CASE Sends
  BY <1>1, <1>4, SendLeads
<1>5. CASE Unavailable \/ Drops \/ Proceeds \/ Ends
  BY <1>1, <1>5, CalmClient, CalmLeads
<1>6. CASE ServerSends \/ ServerRestarts
  BY <1>1, <1>6, CalmServer, CalmLeads
<1>7. CASE Restarts
  BY <1>7 DEF Restarts, Quiet, Without
<1>8. CASE ServerWork
  <2>1. PICK m \in Commands : Turn(m) /\ (Stay(m) \/ \E st, h, ino : Serve(m, st, h, ino))
    BY <1>1, <1>8, Turns
  <2>2. CASE Stay(m)
    BY <1>1, <1>8, <2>1, <2>2, StayLeads
  <2>3. CASE \E st, h, ino : Serve(m, st, h, ino)
    <3>1. PICK st, h, ino : Serve(m, st, h, ino)
      BY <2>3
    <3> QED BY <1>1, <1>8, <2>1, <3>1, ServeLeads
  <2> QED BY <2>1, <2>2, <2>3
<1> QED BY <1>2, <1>3, <1>4, <1>5, <1>6, <1>7, <1>8 DEF ClientStep, ServerStep

-------------------------------------------------------------------------------
(* The parts of a call.                                                    *)

LEMMA ServerParts ==
    ASSUME TypeOK, CallInv, TagInv, PartInv, ServerStep, ServerFlow
    PROVE  PartInv'
<1>1. /\ client' = client /\ calls' = calls
  BY FewerCommands DEF ServerStep, clientVars
<1>2. ASSUME NEW id \in Ids, \A m \in Commands : m.id # id
      PROVE  effects'[id] = effects[id]
  BY <1>2 DEF ServerFlow
<1>3. ASSUME NEW id \in Ids, id[1] > calls
      PROVE  effects'[id] = 0
  <2>1. ASSUME NEW m \in Commands
        PROVE  m.id # id
    <3>1. m.id[1] <= calls /\ m.id[1] \in Nat /\ calls \in Nat
      BY CommandType DEF TagInv, TypeOK, ClientType
    <3>2. CASE m.id = id
      BY <1>3, <3>1, <3>2
    <3> QED BY <3>2
  <2> QED BY <1>2, <1>3, <2>1 DEF PartInv
<1>4. ASSUME Calling
      PROVE  /\ \A x \in Commands' \cup Answers' :
                   x.id[1] = client.id => x.id[2] = client.part
             /\ \A k \in Commands' : k.id[1] = client.id => k.op = client.op
             /\ client.part = 1 => effects'[<<client.id, 2>>] = 0
             /\ client.part = 2 /\ "dropped" \notin events' => effects'[<<client.id, 1>>] = 1
  <2>1. /\ \A k \in Commands' : \E m \in Commands : k.id = m.id /\ k.op = m.op
        /\ \A r \in Answers' : r \in Answers \/ \E m \in Commands : r.id = m.id
    BY DEF ServerFlow, Like, Made
  <2>2. /\ \A x \in Commands \cup Answers : x.id[1] = client.id => x.id[2] = client.part
        /\ \A m \in Commands : m.id[1] = client.id => m.op = client.op
        /\ client.part = 1 => effects[<<client.id, 2>>] = 0
        /\ client.part = 2 /\ "dropped" \notin events => effects[<<client.id, 1>>] = 1
    BY <1>4 DEF PartInv
  <2>3. <<client.id, 1>> \in Ids /\ <<client.id, 2>> \in Ids
    BY <1>4, CurrentId DEF Current, Ids
  <2>4. /\ client.part = 1 => \A m \in Commands : m.id # <<client.id, 2>>
        /\ client.part = 2 => \A m \in Commands : m.id # <<client.id, 1>>
    BY <2>2
  <2>5. client.part = 1 => effects'[<<client.id, 2>>] = 0
    BY <1>2, <2>2, <2>3, <2>4
  <2>6. client.part = 2 /\ "dropped" \notin events' => effects'[<<client.id, 1>>] = 1
    BY <1>2, <2>2, <2>3, <2>4 DEF ServerFlow
  <2> QED BY <2>1, <2>2, <2>5, <2>6
<1> QED BY <1>1, <1>3, <1>4 DEF PartInv, Calling

\* The answer that ends a call, or a part of it, answers the message that waits.
LEMMA MineAnswer ==
    ASSUME TypeOK, CallInv, TagInv, PartInv, Quiet, Calling, utoa # <<>>,
           Head(utoa).tag = client.tag
    PROVE  /\ Head(utoa) \in Answers /\ Head(utoa) \in ToSet(utoa) /\ Head(utoa).id = Current
           /\ Head(utoa).status = "EOF" => client.op = "read"
<1>1. Head(utoa) \in ToSet(utoa)
  BY TailFacts DEF TypeOK
<1>2. Head(utoa) \in Answers
  BY <1>1 DEF Answers
<1>3. TagsFresh
  BY TagInvParts DEF Quiet, Without
<1>4. Head(utoa).id[1] = client.id /\ (Head(utoa).status = "EOF" => client.op = "read")
  BY <1>2, <1>3 DEF TagsFresh, Fresh
<1>5. Head(utoa).id[2] = client.part
  BY <1>2, <1>4 DEF PartInv
<1>6. Head(utoa).id = <<Head(utoa).id[1], Head(utoa).id[2]>>
  BY <1>2, CommandType DEF Ids
<1> QED BY <1>1, <1>2, <1>4, <1>5, <1>6 DEF Current

\* When the first part of a write in two is answered, nothing is left of it.
LEMMA NothingLeft ==
    ASSUME TypeOK, CallInv, TagInv, PartInv, LeadsInv, SingleInv, Quiet, Halfway,
           utoa # <<>>, Head(utoa).tag = client.tag, utoa' = Tail(utoa), host' = host,
           client.part = 1
    PROVE  /\ \A x \in Commands \cup Answers' : x.id[1] # client.id
           /\ host.pc # "reply" \/ host.job.id[1] # client.id
<1> DEFINE r == Head(utoa)
<1>1. r \in Answers /\ r \in ToSet(utoa) /\ r.id = Current
  BY MineAnswer DEF Halfway
<1>2. r.id[1] = client.id
  BY <1>1 DEF Current
<1>3. Replying => host.job.id[1] # client.id
  BY <1>1, <1>2 DEF SingleInv
<1>4. Working => host.job.id[1] # client.id
  BY <1>3 DEF SingleInv, Working, Replying, LeadsInv
<1>5. ASSUME NEW x \in ToSet(atou)
      PROVE  x.id[1] # client.id
  <2>1. SUFFICES ASSUME x.id[1] = client.id PROVE FALSE
    OBVIOUS
  <2>2. x \in Commands
    BY DEF Commands
  <2>3. x.lead /\ x.id[2] = client.part
    BY <2>1, <2>2 DEF SingleInv, Whole, PartInv, Halfway
  <2>4. x.id = <<x.id[1], x.id[2]>>
    BY <2>2, CommandType DEF Ids
  <2>5. x.id = Current
    BY <2>1, <2>3, <2>4 DEF Current
  <2> QED BY <1>1, <2>3, <2>5 DEF LeadsInv, NotYet
<1>6. ASSUME NEW x \in ToSet(utoa')
      PROVE  x.id[1] # client.id
  <2>1. /\ r = utoa[1] /\ 1 \in DOMAIN utoa /\ Tail(utoa) \in Seq(Replies)
        /\ \A i \in DOMAIN Tail(utoa) : i + 1 \in DOMAIN utoa /\ Tail(utoa)[i] = utoa[i + 1]
    BY TailFacts DEF TypeOK
  <2>2. PICK i \in DOMAIN Tail(utoa) : x = Tail(utoa)[i]
    BY <1>6 DEF ToSet
  <2>3. i \in Nat \ {0}
    BY <2>1, SeqFacts
  <2>4. i + 1 \in DOMAIN utoa /\ x = utoa[i + 1] /\ i + 1 # 1
    BY <2>1, <2>2, <2>3
  <2>5. Once(utoa, client.id)
    BY DEF SingleInv
  <2> HIDE DEF r
  <2> QED BY <1>2, <2>1, <2>4, <2>5 DEF Once
<1>7. ASSUME Replying, NEW x \in ToSet(host.out)
      PROVE  x.id[1] # client.id
  BY <1>3, <1>7 DEF LeadsInv
<1>8. \A x \in Commands \cup Answers' : x.id[1] # client.id
  BY <1>4, <1>5, <1>6, <1>7 DEF Commands, Answers, Replying
<1> QED BY <1>3, <1>8 DEF Replying

LEMMA NextParts ==
    ASSUME TypeOK, CallInv, TagInv, PartInv, LeadsInv, SingleInv, TellsInv, Quiet, NextPart
    PROVE  PartInv'
<1>1. /\ Calling /\ Halfway /\ utoa # <<>> /\ utoa' = Tail(utoa) /\ host' = host
      /\ Head(utoa).tag = client.tag /\ Head(utoa).status = "OK" /\ client.part = 1
      /\ client'.id = client.id /\ client'.part = 2 /\ calls' = calls
      /\ effects' = effects /\ events' = events
  BY DEF NextPart, SameCall, Taken, Rest, Halfway, Calling, diskVars
<1>2. \A x \in Commands \cup Answers' : x.id[1] # client.id
  BY <1>1, NothingLeft
<1>3. Commands' = Commands
  BY ClientFlow DEF ClientStep, Sends, NextPart
<1>4. "dropped" \notin events => effects[<<client.id, 1>>] = 1
  <2>1. Head(utoa) \in Answers /\ Head(utoa).id = <<client.id, 1>>
    BY <1>1, MineAnswer DEF Current
  <2> QED BY <1>1, <2>1 DEF TellsInv, Tells, Success
<1> QED BY <1>1, <1>2, <1>3, <1>4 DEF PartInv

LEMMA BeginParts ==
    ASSUME TypeOK, TypeOK', TagInv, PartInv, Begins
    PROVE  PartInv'
<1>1. /\ host' = host /\ atou' = atou /\ utoa' = utoa /\ effects' = effects
      /\ client'.id = calls + 1 /\ client'.part = 1 /\ calls' = calls + 1
  BY DEF Begins, diskVars
<1>2. Commands' = Commands /\ Answers' = Answers
  BY <1>1 DEF Commands, Answers, Working, Replying
<1>3. calls \in Nat /\ <<calls + 1, 2>> \in Ids
  BY <1>1 DEF TypeOK, ClientType, Ids
<1>4. ASSUME NEW x \in Commands \cup Answers
      PROVE  x.id[1] # calls + 1
  <2>1. x.id[1] <= calls /\ x.id[1] \in Nat
    BY CommandType DEF TagInv
  <2> QED BY <1>3, <2>1
<1>5. ASSUME NEW id \in Ids, id[1] > calls + 1
      PROVE  effects[id] = 0
  <2>1. id[1] \in Nat
    BY DEF Ids
  <2>2. id[1] > calls
    BY <1>3, <1>5, <2>1
  <2> QED BY <2>2 DEF PartInv
<1>6. effects[<<calls + 1, 2>>] = 0
  <2>1. <<calls + 1, 2>>[1] > calls
    BY <1>3
  <2> QED BY <1>3, <2>1 DEF PartInv
<1> QED BY <1>1, <1>2, <1>4, <1>5, <1>6 DEF PartInv

LEMMA SameParts ==
    ASSUME TypeOK, TypeOK', CallInv, TagInv, PartInv,
           Unavailable \/ Sends \/ Drops \/ Proceeds \/ Ends
    PROVE  PartInv'
<1>1. /\ Commands' = Commands \cup (IF Sends THEN {Head(client.todo)} ELSE {})
      /\ Answers' \subseteq Answers /\ effects' = effects /\ events \subseteq events'
  BY ClientFlow DEF ClientStep, diskVars
<1>2. calls' \in {calls, calls + 1} /\ calls \in Nat
  BY DEF Unavailable, Sends, Drops, Proceeds, Ends, clientVars, TypeOK, ClientType
<1>3. ASSUME NEW id \in Ids, id[1] > calls'
      PROVE  effects'[id] = 0
  <2>1. id[1] \in Nat
    BY DEF Ids
  <2>2. id[1] > calls
    BY <1>2, <1>3, <2>1
  <2> QED BY <1>1, <2>2 DEF PartInv
<1>4. ASSUME Calling'
      PROVE  /\ Calling /\ client'.id = client.id /\ client'.part = client.part
             /\ client'.op = client.op
  BY <1>4, NoCallFacts DEF Unavailable, Sends, Drops, Proceeds, Ends, Calling, SameCall, clientVars
<1>5. ASSUME Sends
      PROVE  Head(client.todo).id = Current /\ Head(client.todo).op = client.op
  <2>1. 1 \in DOMAIN client.todo /\ Head(client.todo) = client.todo[1]
    <3>1. client.todo \in Seq(Requests) /\ client.todo # <<>>
      BY <1>5, ClientFields DEF TypeOK, ClientType, Sends
    <3> QED BY <3>1, TailFacts
  <2> QED BY <2>1 DEF CallInv, TodoInv
<1>6. ASSUME Calling'
      PROVE  /\ \A x \in Commands' \cup Answers' :
                   x.id[1] = client.id => x.id[2] = client.part
             /\ \A k \in Commands' : k.id[1] = client.id => k.op = client.op
  BY <1>1, <1>4, <1>5, <1>6 DEF PartInv, Current
<1> QED BY <1>1, <1>3, <1>4, <1>6 DEF PartInv

LEMMA PartsKept ==
    ASSUME TypeOK, TypeOK', CallInv, TagInv, QuietInv, ClientStep \/ (ServerStep /\ ServerFlow),
           events \subseteq events', Quiet'
    PROVE  PartInv'
<1>1. Quiet /\ LeadsInv /\ PartInv /\ SingleInv /\ TellsInv
  BY QuietBefore
<1>2. ~Restarts
  BY DEF Restarts, Quiet, Without
<1> QED BY <1>1, <1>2, BeginParts, NextParts, SameParts, ServerParts DEF ClientStep

-------------------------------------------------------------------------------
(* One answer to the first part of a write in two.                         *)

LEMMA PairFacts ==
    ASSUME TypeOK, CallInv, PartInv, Calling, NEW x \in Commands \cup Answers,
           x.id[1] = client.id
    PROVE  x.id = Current
<1>1. x.id[2] = client.part
  BY DEF PartInv
<1>2. x.id = <<x.id[1], x.id[2]>>
  BY CommandType DEF Ids
<1> QED BY <1>1, <1>2 DEF Current

LEMMA OnceTail ==
    ASSUME TypeOK, utoa # <<>>, NEW call, Once(utoa, call)
    PROVE  Once(Tail(utoa), call)
<1>1. /\ Tail(utoa) \in Seq(Replies)
      /\ \A i \in DOMAIN Tail(utoa) : i + 1 \in DOMAIN utoa /\ Tail(utoa)[i] = utoa[i + 1]
  BY TailFacts DEF TypeOK
<1>2. DOMAIN Tail(utoa) \subseteq Nat
  BY <1>1, SeqFacts
<1>3. ASSUME NEW i \in DOMAIN Tail(utoa), NEW j \in DOMAIN Tail(utoa),
             Tail(utoa)[i].id[1] = call, Tail(utoa)[j].id[1] = call
      PROVE  i = j
  <2>1. i + 1 = j + 1
    BY <1>1, <1>3 DEF Once
  <2> QED BY <1>2, <2>1
<1> QED BY <1>3 DEF Once

LEMMA OnceAppend ==
    ASSUME TypeOK, NEW r \in Replies, NEW call, Once(utoa, call),
           r.id[1] = call => \A k \in ToSet(utoa) : k.id[1] # call
    PROVE  Once(Append(utoa, r), call)
<1>1. /\ Len(utoa) \in Nat /\ DOMAIN utoa = 1 .. Len(utoa)
      /\ DOMAIN Append(utoa, r) = 1 .. Len(utoa) + 1
      /\ Append(utoa, r)[Len(utoa) + 1] = r
      /\ \A i \in DOMAIN utoa : Append(utoa, r)[i] = utoa[i]
  BY SeqFacts, AppendFacts DEF TypeOK
<1>2. \A i \in 1 .. Len(utoa) + 1 : i \in DOMAIN utoa \/ i = Len(utoa) + 1
  BY <1>1
<1>3. \A i \in DOMAIN utoa : utoa[i] \in ToSet(utoa)
  BY DEF ToSet
<1>4. ASSUME NEW i \in DOMAIN Append(utoa, r), NEW j \in DOMAIN Append(utoa, r),
             Append(utoa, r)[i].id[1] = call, Append(utoa, r)[j].id[1] = call
      PROVE  i = j
  <2>1. CASE i \in DOMAIN utoa /\ j \in DOMAIN utoa
    BY <1>1, <1>4, <2>1 DEF Once
  <2>2. CASE i = Len(utoa) + 1 /\ j \in DOMAIN utoa
    BY <1>1, <1>3, <1>4, <2>2
  <2>3. CASE j = Len(utoa) + 1 /\ i \in DOMAIN utoa
    BY <1>1, <1>3, <1>4, <2>3
  <2>4. CASE i = Len(utoa) + 1 /\ j = Len(utoa) + 1
    BY <2>4
  <2> QED BY <1>1, <1>2, <2>1, <2>2, <2>3, <2>4
<1> QED BY <1>4 DEF Once

LEMMA BeginSingle ==
    ASSUME TypeOK, TypeOK', TagInv, PartInv, Begins
    PROVE  SingleInv'
<1>1. /\ host' = host /\ atou' = atou /\ utoa' = utoa /\ client'.id = calls + 1
      /\ Halfway' => \A m \in ToSet(client'.todo) : Whole(m)
  BY DEF Begins
<1>2. ASSUME NEW x \in Commands \cup Answers
      PROVE  x.id[1] # calls + 1
  <2>1. x.id[1] <= calls /\ x.id[1] \in Nat /\ calls \in Nat
    BY CommandType DEF TagInv, TypeOK, ClientType
  <2> QED BY <2>1
<1>3. Working => host.job.id[1] # calls + 1
  BY <1>2 DEF Commands
<1>4. \A i \in DOMAIN utoa : utoa[i].id[1] # calls + 1
  BY <1>2 DEF Answers, ToSet
<1>5. \A m \in ToSet(atou) : m.id[1] # calls + 1
  BY <1>2 DEF Commands
<1> QED BY <1>1, <1>3, <1>4, <1>5 DEF SingleInv, Once, Working, Replying

LEMMA ClientSingle ==
    ASSUME TypeOK, CallInv, SingleInv, Quiet',
           Unavailable \/ Sends \/ Drops \/ Proceeds \/ Ends \/ NextPart
    PROVE  SingleInv'
<1>1. CASE Unavailable \/ Ends
  BY <1>1, NoCallFacts DEF SingleInv, Halfway, Calling, Unavailable, Ends
<1>2. CASE Proceeds \/ NextPart
  <2>1. CASE Proceeds
    BY <2>1 DEF SingleInv, Halfway, Proceeds, SameCall
  <2>2. CASE NextPart
    <3>1. client'.part = 2 /\ Len(client'.parts) = 2
      BY <2>2 DEF NextPart, SameCall
    <3> QED BY <3>1 DEF SingleInv, Halfway
  <2> QED BY <1>2, <2>1, <2>2
<1>3. CASE Drops
  <2>1. client' = client /\ atou' = atou /\ host' = host /\ utoa # <<>> /\ utoa' = Tail(utoa)
    BY <1>3 DEF Drops, Taken, Rest, clientVars
  <2>2. ToSet(Tail(utoa)) \subseteq ToSet(utoa)
    BY <2>1, TailFacts DEF TypeOK
  <2> QED BY <2>1, <2>2, OnceTail DEF SingleInv, Halfway, Calling, Replying
<1>4. CASE Sends
  <2>1. /\ client'.id = client.id /\ client'.op = client.op /\ client'.part = client.part
        /\ client'.parts = client.parts /\ Calling /\ utoa' = utoa /\ host' = host
        /\ ToSet(client'.todo) \subseteq ToSet(client.todo)
        /\ ToSet(atou') = ToSet(atou) \cup {Head(client.todo)}
        /\ Head(client.todo) \in ToSet(client.todo)
    BY <1>4 DEF Sends, SameCall, Calling
  <2> QED BY <2>1 DEF SingleInv, Halfway, Replying
<1> QED BY <1>1, <1>2, <1>3, <1>4

LEMMA SendsSingle ==
    ASSUME TypeOK, LeadsInv, SingleInv, ServerSends, Quiet'
    PROVE  SingleInv'
<1> DEFINE r == Head(host.out)
<1>1. /\ client' = client /\ atou' = atou /\ Replying /\ host'.pc # "again"
      /\ utoa' = Append(utoa, r)
  BY DEF ServerSends, clientVars, Replying, Quiet, Without
<1>2. r \in Replies /\ r \in ToSet(host.out)
  BY ReplyHead DEF ServerSends
<1>3. r.id = host.job.id
  BY <1>1, <1>2 DEF LeadsInv
<1>4. ToSet(utoa') = ToSet(utoa) \cup {r}
  BY <1>1, <1>2, AppendFacts DEF TypeOK
<1>5. ASSUME Halfway
      PROVE  Once(utoa', client.id)
  <2> HIDE DEF r
  <2> QED BY <1>1, <1>2, <1>3, <1>5, OnceAppend DEF SingleInv
<1>6. ASSUME Halfway, Replying'
      PROVE  host'.job.id[1] # client.id
  <2>1. Len(host.out) # 1 /\ host'.job = host.job
    <3>1. host'.pc = "reply"
      BY <1>6 DEF Replying
    <3>2. host'.job = host.job /\ Len(host.out) > 1
      BY <3>1 DEF ServerSends
    <3>3. Len(host.out) \in Nat
      BY ReplyHead DEF ServerSends
    <3>4. \A n \in Nat : n > 1 => n # 1
      OBVIOUS
    <3> QED BY <3>2, <3>3, <3>4
  <2> QED BY <1>1, <1>6, <2>1 DEF SingleInv
<1>7. host'.pc # "collect"
  BY <1>1 DEF ServerSends
<1> QED BY <1>1, <1>5, <1>6, <1>7 DEF SingleInv, Halfway, Calling

LEMMA RestartSingle ==
    ASSUME TypeOK, SingleInv, ServerRestarts
    PROVE  SingleInv'
<1>1. client' = client /\ utoa' = utoa /\ ToSet(atou') \subseteq ToSet(atou)
  BY FewerCommands DEF clientVars, ServerRestarts, Stop, Start, Flush, Expire
<1>2. host' = host \/ host'.pc \in {"idle", "down", "flush"}
  BY DEF ServerRestarts, Stop, Start, Flush, Expire, Idle
<1> QED BY <1>1, <1>2 DEF SingleInv, Halfway, Calling, Replying

LEMMA WorkSingle ==
    ASSUME TypeOK, CallInv, PartInv, LeadsInv, SingleInv, Told, ServerWork
    PROVE  SingleInv'
<1>1. client' = client /\ utoa' = utoa /\ ToSet(atou') \subseteq ToSet(atou)
  BY FewerCommands DEF clientVars, ServerWork
<1>2. PICK m \in Commands : Turn(m) /\ (Stay(m) \/ \E st, h, ino : Serve(m, st, h, ino))
  BY Turns
<1>3. ASSUME Halfway, m.id[1] = client.id
      PROVE  m.id = Current /\ m.op = "write"
  BY <1>3, PairFacts DEF Halfway, PartInv
<1>4. CASE Stay(m)
  <2>1. host'.pc = "collect" /\ host'.job = m
    BY <1>4 DEF Stay, Stays
  <2>2. ASSUME Halfway
        PROVE  m.id[1] # client.id
    <3>1. CASE host.pc = "idle"
      <4>1. m \in ToSet(atou) /\ Len(m.data) < m.total
        BY <1>2, <1>4, <3>1 DEF Turn, Stay
      <4> QED BY <2>2, <4>1 DEF SingleInv, Whole
    <3>2. CASE host.pc = "collect"
      BY <1>2, <2>2, <3>2 DEF Turn, SingleInv
    <3> QED BY <1>2, <3>1, <3>2 DEF Turn
  <2> QED BY <1>1, <2>1, <2>2 DEF SingleInv, Halfway, Calling, Replying
<1>5. CASE \E st, h, ino : Serve(m, st, h, ino)
  <2>1. /\ host'.pc = "reply" /\ host'.job.id = m.id
        /\ m.op # "read" => Len(host'.out) = 1
        /\ First(m) \/ (m \in ToSet(atou) /\ ~m.lead)
    BY <1>5 DEF Serve, Served, Replied
  <2>2. ASSUME Halfway, m.id[1] = client.id
        PROVE  Len(host'.out) = 1 /\ \A r \in ToSet(utoa) : r.id[1] # client.id
    <3>1. First(m)
      BY <2>1, <2>2 DEF SingleInv, Whole
    <3>2. \A r \in ToSet(utoa) : r.id[1] # client.id
      <4>1. ASSUME NEW r \in ToSet(utoa), r.id[1] = client.id
            PROVE  r.id = Current
        BY <2>2, <4>1, PairFacts DEF Answers, Halfway
      <4> QED BY <1>3, <2>2, <3>1, <4>1 DEF First, Answers
    <3> QED BY <1>3, <2>1, <2>2, <3>2
  <2> QED BY <1>1, <2>1, <2>2 DEF SingleInv, Halfway, Calling, Replying
<1> QED BY <1>2, <1>4, <1>5

LEMMA SingleKept ==
    ASSUME TypeOK, TypeOK', CallInv, TagInv, QuietInv, ClientStep \/ ServerStep,
           events \subseteq events', Quiet'
    PROVE  SingleInv'
<1>1. LeadsInv /\ PartInv /\ SingleInv /\ Told
  BY QuietBefore
<1>2. ~Restarts
  BY DEF Restarts, Quiet, Without
<1> QED BY <1>1, <1>2, BeginSingle, ClientSingle, SendsSingle, RestartSingle, WorkSingle
        DEF ClientStep, ServerStep

-------------------------------------------------------------------------------
(* What answers tell.                                                      *)

LEMMA CalmTells ==
    ASSUME TellsInv, effects' = effects, Answers' \subseteq Answers, events \subseteq events',
           client' = client, result' = result, ToSet(atou') \subseteq ToSet(atou),
           host'.pc = "collect" => host.pc = "collect" /\ host'.job.id = host.job.id
    PROVE  TellsInv'
<1>1. \A r \in Answers' : Tells(r)'
  BY DEF TellsInv, Tells
<1>2. Told'
  BY DEF TellsInv, Told, Parts, Meaning
<1> QED BY <1>1, <1>2 DEF TellsInv

LEMMA BeginTells ==
    ASSUME TypeOK, TypeOK', TagInv, TellsInv, Begins
    PROVE  TellsInv'
<1>1. /\ host' = host /\ atou' = atou /\ utoa' = utoa /\ effects' = effects /\ events' = events
      /\ client'.id = calls + 1 /\ result' = NoResult
  BY DEF Begins, diskVars
<1>2. Answers' = Answers
  BY <1>1 DEF Answers, Replying
<1>3. ASSUME NEW r \in Answers
      PROVE  r.id[1] # calls + 1
  <2>1. r.id[1] <= calls /\ r.id[1] \in Nat /\ calls \in Nat
    BY CommandType DEF TagInv, TypeOK, ClientType
  <2> QED BY <2>1
<1>4. \A r \in Answers' : Tells(r)'
  BY <1>1, <1>2, <1>3 DEF TellsInv, Tells
<1>5. result'.mine /\ Told'
  BY <1>1 DEF NoResult, Told
<1> QED BY <1>4, <1>5 DEF TellsInv

LEMMA GoesOnTells ==
    ASSUME TypeOK, CallInv, TellsInv, Sends \/ Proceeds \/ NextPart
    PROVE  TellsInv'
<1>1. /\ Answers' \subseteq Answers /\ effects' = effects /\ events \subseteq events'
  BY ClientFlow DEF ClientStep, diskVars
<1>2. /\ client'.id = client.id /\ client'.op = client.op /\ result' = result /\ Calling
  BY DEF Sends, Proceeds, NextPart, SameCall, Calling
<1>3. \A r \in Answers' : Tells(r)'
  BY <1>1, <1>2 DEF TellsInv, Tells
<1>4. result = NoResult
  BY <1>2 DEF CallInv, CurrentCall
<1>5. Told'
  BY <1>2, <1>4 DEF Told, NoResult
<1> QED BY <1>2, <1>3, <1>5 DEF TellsInv

LEMMA QuickTells ==
    ASSUME TypeOK, LeadsInv, TellsInv, Unavailable \/ Drops
    PROVE  TellsInv'
<1>1. Calm /\ host' = host /\ atou' = atou /\ client' = client /\ events' = events
  BY CalmClient DEF Unavailable, Drops, clientVars
<1>2. CASE Drops
  BY <1>1, <1>2, CalmTells DEF Calm, Drops, clientVars
<1>3. CASE Unavailable
  <2>1. \A r \in Answers' : Tells(r)'
    BY <1>1 DEF TellsInv, Tells, Calm
  <2>2. Told'
    BY <1>3 DEF Told, Meaning, Unavailable, Success, HostErrors
  <2> QED BY <1>3, <2>1, <2>2 DEF TellsInv, Unavailable
<1> QED BY <1>2, <1>3

\* The answer that ends the call tells all of it.
LEMMA EndTold ==
    ASSUME TypeOK, CallInv, TagInv, LeadsInv, PartInv, TellsInv, Quiet, Ends, Taken,
           Repeats(Head(utoa))
    PROVE  result'.mine /\ Told'
<1> DEFINE r == Head(utoa)
<1>1. /\ Calling /\ utoa # <<>> /\ r.tag = client.tag
      /\ atou' = atou /\ host' = host /\ effects' = effects /\ events' = events
      /\ result'.op = client.op /\ result'.id = client.id
      /\ result'.parts = Len(client.parts)
  BY DEF Ends, Taken, Repeats, Rest, diskVars
<1>2. /\ r \in Answers /\ r.id = Current /\ (r.status = "EOF" => client.op = "read")
      /\ Tells(r)
  BY <1>1, MineAnswer DEF TellsInv
<1>3. /\ Current \in Ids /\ client.id \in 1 .. MaxCalls /\ client.op \in Ops
      /\ client.part \in {1, 2}
      /\ client.part = 1 \/ (client.op = "write" /\ Len(client.parts) = 2)
      /\ client.op = "write" => Len(client.parts) \in {1, 2}
  BY <1>1, CurrentId DEF CallInv, CurrentCall, Current, Ids
<1>4. ASSUME NEW p \in Parts(result')
      PROVE  <<client.id, p>> \in Ids /\ (client.op # "write" => p = 1)
  <2>1. CASE client.op = "write"
    <3>1. p \in 1 .. Len(client.parts) /\ Len(client.parts) \in {1, 2}
      BY <1>1, <1>3, <1>4, <2>1 DEF Parts
    <3>2. \A n \in {1, 2} : \A i \in 1 .. n : i \in {1, 2}
      OBVIOUS
    <3>3. p \in {1, 2}
      BY <3>1, <3>2
    <3> QED BY <1>3, <2>1, <3>3 DEF Ids
  <2>2. CASE client.op # "write"
    <3>1. p \in 1 .. 1
      BY <1>1, <1>4, <2>2 DEF Parts
    <3>2. p = 1
      BY <3>1
    <3> QED BY <1>3, <3>2 DEF Ids
  <2> QED BY <2>1, <2>2
<1>5. /\ host.pc = "collect" => host.job.id # Current
      /\ \A m \in ToSet(atou) : m.lead => m.id # Current
  BY <1>2 DEF LeadsInv, NotYet
<1>6. ASSUME result'.status \in Success \/ (result'.status \in HostErrors /\ client.op # "write"),
             NEW p \in Parts(result')
      PROVE  LET id == <<client.id, p>>
             IN /\ result'.status \in Success /\ "dropped" \notin events => effects[id] = 1
                /\ result'.status \in HostErrors => effects[id] = 0
                /\ host.pc = "collect" => host.job.id # id
                /\ \A m \in ToSet(atou) : m.lead => m.id # id
  <2>1. CASE p = client.part
    <3>1. <<client.id, p>> = Current
      BY <2>1 DEF Current
    <3>2. result'.status \in Success /\ "dropped" \notin events => effects[Current] = 1
      BY <1>2 DEF Tells, Repeats
    <3>3. result'.status \in HostErrors => effects[Current] = 0
      <4>1. result'.status \in HostErrors => client.op # "write"
        BY <1>6 DEF Success, HostErrors
      <4>2. Current[1] = client.id
        BY DEF Current
      <4> QED BY <1>2, <4>1, <4>2 DEF Tells, Repeats
    <3> QED BY <1>5, <3>1, <3>2, <3>3
  <2>2. CASE p # client.part
    <3>1. client.op = "write"
      BY <1>3, <1>4, <2>2
    <3>2. result'.status = "OK" /\ client.part = Len(client.parts)
      BY <1>2, <1>6, <3>1 DEF Repeats, Success, HostErrors
    <3>3. p \in 1 .. Len(client.parts) /\ Len(client.parts) \in {1, 2}
      BY <1>1, <1>3, <1>6, <3>1 DEF Parts
    <3>4. \A n \in {1, 2} : \A i \in 1 .. n : i # n => n = 2 /\ i = 1
      OBVIOUS
    <3>5. client.part = 2 /\ p = 1
      BY <2>2, <3>2, <3>3, <3>4
    <3>6. "dropped" \notin events => effects[<<client.id, 1>>] = 1
      BY <1>1, <3>5 DEF PartInv
    <3>7. \A m \in Commands : m.id # <<client.id, 1>>
      BY <1>1, <3>5 DEF PartInv
    <3>8. /\ host.pc = "collect" => host.job.id # <<client.id, 1>>
          /\ \A m \in ToSet(atou) : m.id # <<client.id, 1>>
      BY <3>7 DEF Commands, Working
    <3>9. result'.status \notin HostErrors
      BY <3>2 DEF HostErrors
    <3> QED BY <3>5, <3>6, <3>8, <3>9
  <2> QED BY <2>1, <2>2
<1>7. Told'
  BY <1>1, <1>4, <1>6 DEF Told, Meaning
<1>8. result'.mine
  BY <1>2 DEF Repeats
<1> QED BY <1>7, <1>8

LEMMA EndTells ==
    ASSUME TypeOK, CallInv, TagInv, LeadsInv, PartInv, TellsInv, Quiet, Ends
    PROVE  TellsInv'
<1>1. /\ Answers' \subseteq Answers /\ effects' = effects /\ events' = events
      /\ client' = NoCall
  BY ClientFlow DEF ClientStep, diskVars, Ends
<1>2. \A r \in Answers' : r.id[1] # 0
  BY <1>1, CommandType
<1>3. \A r \in Answers' : Tells(r)'
  BY <1>1, <1>2 DEF TellsInv, Tells, NoCall
<1>4. result'.mine /\ Told'
  <2>1. CASE result'.mine /\ result'.status \in {"BADLEN", "NODATA", "GAVEUP"}
    BY <2>1 DEF Told, Meaning, Success, HostErrors
  <2>2. CASE Taken /\ Repeats(Head(utoa))
    BY <2>2, EndTold
  <2> QED BY <2>1, <2>2 DEF Ends
<1> QED BY <1>3, <1>4 DEF TellsInv

LEMMA ServeTells ==
    ASSUME TypeOK, CallInv, PartInv, TellsInv, NEW m \in Commands, NEW st, NEW h, NEW ino,
           Serve(m, st, h, ino), ServerWork
    PROVE  TellsInv'
<1>1. /\ host'.pc = "reply" /\ Replying' /\ \A r \in ToSet(host'.out) : r.id = m.id /\ r.status = st
      /\ \A id \in Ids : id # m.id => effects'[id] = effects[id]
      /\ st \in Success => effects'[m.id] = Bump(effects[m.id]) \/ "dropped" \in events'
      /\ st \in HostErrors => effects' = effects
      /\ First(m) \/ (m \in ToSet(atou) /\ ~m.lead /\ st \in HostErrors)
  BY DEF Serve, Served, Replied, Moves, Replying
<1>2. /\ client' = client /\ result' = result /\ utoa' = utoa /\ events \subseteq events'
      /\ ToSet(atou') \subseteq ToSet(atou)
  BY FewerCommands DEF ServerWork, clientVars
<1>3. Answers' = ToSet(utoa) \cup ToSet(host'.out)
  BY <1>1, <1>2 DEF Answers
<1>4. ASSUME NEW r \in ToSet(utoa)
      PROVE  Tells(r)'
  <2>1. r \in Answers /\ Tells(r) /\ r.id \in Ids
    BY CommandType DEF Answers, TellsInv
  <2>2. effects'[r.id] = effects[r.id]
    BY <1>1, <2>1 DEF First
  <2> QED BY <1>2, <2>1, <2>2 DEF Tells
<1>5. ASSUME NEW r \in ToSet(host'.out)
      PROVE  Tells(r)'
  <2>1. r.id = m.id /\ r.status = st
    BY <1>1
  <2>2. CASE First(m)
    <3>1. effects[m.id] = 0 /\ Bump(0) = 1
      BY <2>2 DEF First, Bump
    <3> QED BY <1>1, <2>1, <3>1 DEF Tells
  <2>3. CASE m \in ToSet(atou) /\ ~m.lead /\ st \in HostErrors
    <3>1. m.op = "write" /\ m.id[1] # 0
      BY <2>3, CommandType DEF CallInv, Follows
    <3>2. m.id[1] = client.id => client.op = "write"
      <4>1. CASE Calling
        BY <3>1, <4>1 DEF PartInv
      <4>2. CASE ~Calling
        BY <3>1, <4>2 DEF CallInv, NoCall
      <4> QED BY <4>1, <4>2
    <3>3. r.status \notin Success
      BY <2>1, <2>3 DEF Success, HostErrors
    <3> QED BY <1>2, <2>1, <3>2, <3>3 DEF Tells
  <2> QED BY <1>1, <2>2, <2>3
<1>6. ASSUME result.op # "none", Meaning, NEW p \in Parts(result)
      PROVE  /\ <<result.id, p>> \in Ids
             /\ effects'[<<result.id, p>>] = effects[<<result.id, p>>]
  <2>1. <<result.id, p>> \in Ids
    BY <1>6 DEF TellsInv, Told
  <2>2. CASE First(m)
    <3>1. <<result.id, p>> # m.id
      BY <1>6, <2>2 DEF First, ToldId
    <3> QED BY <1>1, <2>1, <3>1
  <2>3. CASE st \in HostErrors
    BY <1>1, <2>1, <2>3
  <2> QED BY <1>1, <2>2, <2>3
<1>7. Told'
  BY <1>1, <1>2, <1>6 DEF TellsInv, Told, Parts, Meaning
<1> QED BY <1>2, <1>3, <1>4, <1>5, <1>7 DEF TellsInv

LEMMA StayTells ==
    ASSUME TypeOK, TellsInv, NEW m, Stay(m), ServerWork
    PROVE  TellsInv'
<1>1. /\ host'.pc = "collect" /\ host'.job = m /\ ~Replying' /\ effects' = effects
  BY DEF Stay, Stays, Replying, diskVars
<1>2. /\ client' = client /\ result' = result /\ utoa' = utoa /\ events \subseteq events'
      /\ ToSet(atou') \subseteq ToSet(atou)
  BY FewerCommands DEF ServerWork, clientVars
<1>3. Answers' \subseteq Answers
  BY <1>1, <1>2 DEF Answers
<1>4. \A r \in Answers' : Tells(r)'
  BY <1>1, <1>2, <1>3 DEF TellsInv, Tells
<1>5. ~ToldId(m.id)
  BY DEF Stay, First
<1>6. Told'
  BY <1>1, <1>2, <1>5 DEF TellsInv, Told, Parts, Meaning, ToldId
<1> QED BY <1>2, <1>4, <1>6 DEF TellsInv

LEMMA TellsKept ==
    ASSUME TypeOK, TypeOK', CallInv, TagInv, QuietInv, ClientStep \/ ServerStep,
           events \subseteq events', Quiet'
    PROVE  TellsInv'
<1>1. Quiet /\ LeadsInv /\ PartInv /\ TellsInv /\ Told
  BY QuietBefore
<1>2. CASE Begins
  BY <1>1, <1>2, BeginTells
<1>3. CASE Sends \/ Proceeds \/ NextPart
  BY <1>1, <1>3, GoesOnTells
<1>4. CASE Unavailable \/ Drops
  BY <1>1, <1>4, QuickTells
<1>5. CASE Ends
  BY <1>1, <1>5, EndTells
<1>6. CASE Restarts
  BY <1>6 DEF Restarts, Quiet, Without
<1>7. CASE ServerSends \/ ServerRestarts
  <2>1. Calm
    BY <1>1, <1>7, CalmServer
  <2>2. client' = client /\ result' = result
    BY <1>7, FewerCommands DEF clientVars
  <2> QED BY <1>1, <2>1, <2>2, CalmTells DEF Calm, Working
<1>8. CASE ServerWork
  <2>1. PICK m \in Commands : Turn(m) /\ (Stay(m) \/ \E st, h, ino : Serve(m, st, h, ino))
    BY <1>1, <1>8, Turns
  <2> QED BY <1>1, <1>8, <2>1, StayTells, ServeTells
<1> QED BY <1>2, <1>3, <1>4, <1>5, <1>6, <1>7, <1>8 DEF ClientStep, ServerStep

-------------------------------------------------------------------------------
(* What a request does to the positions of the handles.                    *)

Says(set) == \E r \in ToSet(host'.out) : r.status \in set
Movers == {"read", "write", "seek"}
ReadOut(m) ==
    LET all == content[table[m.h].ino]
        p == table[m.h].pos
        q == table'[m.h].pos
    IN /\ content' = content /\ m.h \in DOMAIN table /\ q - p \in Nat
       /\ q - p = m.n \/ q >= Len(all)
       /\ Len(host'.out) = IF q - p = 0 THEN 1 ELSE q - p
       /\ \A i \in DOMAIN host'.out :
            /\ host'.out[i].total = q - p /\ (host'.out[i].lead <=> i = 1)
            /\ host'.out[i].data = IF q - p = 0 THEN <<>>
                                   ELSE <<all[p + i]>>
Moved(m, len) ==
    /\ Says(HostErrors) => UNCHANGED diskVars
    /\ \A k \in DOMAIN table \cap DOMAIN table' :
          m.op \notin Movers \/ k # m.h => table'[k].pos = table[k].pos
    /\ Says(Success) =>
         /\ m.op = "open" => \A r \in ToSet(host'.out) : table'[r.h].pos = 0
         /\ m.op = "seek" => table'[m.h].pos = 0
         /\ m.op = "write" => table'[m.h].pos = table[m.h].pos + len /\ m.total <= len
         /\ m.op = "read" => ReadOut(m)

LEMMA OutFacts ==
    ASSUME NEW j \in Requests, NEW retry, NEW st \in Statuses, NEW h \in Int, NEW ino \in Nat,
           NEW data \in Seq(Items), Reply(j, retry, st, h, ino, data)
    PROVE  /\ host'.pc = "reply" /\ host'.out = Chunks(j, st, h, ino, data)
           /\ \A r \in ToSet(host'.out) : r.status = st /\ r.h = h
           /\ Len(host'.out) = IF data = <<>> THEN 1 ELSE Len(data)
<1>1. host'.pc = "reply" /\ host'.out = Chunks(j, st, h, ino, data)
  BY DEF Reply
<1> QED BY <1>1, ChunksFacts

LEMMA NewHandleOut ==
    ASSUME NEW j \in Requests, NEW h \in Int, NEW ino \in Nat
    PROVE  \A r \in ToSet(Chunks(j, "OK", h, ino, <<>>)) : r.status = "OK" /\ r.h = h
<1>1. "OK" \in Statuses /\ <<>> \in Seq(Items)
  BY NoElements DEF Statuses, Success
<1>2. \A st \in Statuses, data \in Seq(Items) :
         \A r \in ToSet(Chunks(j, st, h, ino, data)) : r.status = st /\ r.h = h
  BY ChunksFacts
<1> QED BY <1>1, <1>2, Zenon

LEMMA AnsweredFacts ==
    ASSUME NEW m \in Requests, NEW retry, NEW st \in Statuses, Answered(m, retry, st)
    PROVE  \A r \in ToSet(host'.out) : r.status = st
<1>1. m.h \in Int /\ <<>> \in Seq(Items) /\ 0 \in Nat
  BY RequestType, NoElements
<1> QED BY <1>1, OutFacts DEF Answered

LEMMA RejectMoved ==
    ASSUME UNCHANGED diskVars, NEW m \in Requests, NEW retry, NEW st \in HostErrors, NEW len,
           Answered(m, retry, st) \/ Rejected(m, retry, st)
    PROVE  Moved(m, len)
<1>1. st \in Statuses /\ st \notin Success
  BY DEF Statuses, Success, HostErrors
<1>2. \A r \in ToSet(host'.out) : r.status = st
  <2>1. CASE Answered(m, retry, st)
    BY <1>1, <2>1, AnsweredFacts
  <2>2. CASE Rejected(m, retry, st)
    <3>1. NoParent \in Int /\ {} \in SUBSET Modes
      BY DEF NoParent
    <3>2. [m EXCEPT !.h = NoParent] \in Requests
      BY <3>1, JobFacts
    <3> QED BY <1>1, <2>2, <3>2, AnsweredFacts DEF Rejected
  <2> QED BY <2>1, <2>2
<1>3. ~Says(Success)
  BY <1>1, <1>2 DEF Says
<1>4. table' = table
  BY DEF diskVars
<1> QED BY <1>3, <1>4 DEF Moved

\* Requests that move no handle.
LEMMA PlainMoved ==
    ASSUME NEW m \in Requests, NEW retry, NEW len, Answered(m, retry, "OK"),
           m.op \notin Movers \cup {"open"},
           \A k \in DOMAIN table' : k \in DOMAIN table /\ table'[k] = table[k]
    PROVE  Moved(m, len)
<1>1. "OK" \in Statuses /\ "OK" \notin HostErrors
  BY DEF Statuses, Success, HostErrors
<1>2. ~Says(HostErrors)
  BY <1>1, AnsweredFacts DEF Says
<1> QED BY <1>2 DEF Moved, Movers

LEMMA OpenMoved ==
    ASSUME TypeOK, NEW m \in Requests, NEW retry, NEW len, m.op = "open", do_fopen(m, retry)
    PROVE  Moved(m, len)
<1> DEFINE f == dir[m.name]
           created == f = 0 /\ "create" \in m.mode
           type == IF "read" \in m.mode /\ f # 0 THEN "file" ELSE "unknown"
           opened == [m EXCEPT !.h = NextHandle, !.mode = {}]
           g == IF created THEN NewFile ELSE f
<1>1. CASE m.h # Root
  <2>1. Rejected(m, retry, IF m.h = NoParent THEN "NOEXIST" ELSE "FAIL")
        /\ UNCHANGED diskVars
    BY <1>1 DEF do_fopen
  <2>2. (IF m.h = NoParent THEN "NOEXIST" ELSE "FAIL") \in HostErrors
    BY DEF HostErrors
  <2> QED BY <2>1, <2>2, RejectMoved
<1>2. CASE m.h = Root /\ f = 0 /\ ~created
  <2>1. Rejected(m, retry, "NOEXIST") /\ UNCHANGED diskVars
    BY <1>2 DEF do_fopen
  <2>2. "NOEXIST" \in HostErrors
    BY DEF HostErrors
  <2> QED BY <2>1, <2>2, RejectMoved
<1>3. CASE m.h = Root /\ ~ (f = 0 /\ ~created)
  <2>1. HandleNew(g, m.mode, type) /\ Reply(opened, retry, "OK", NextHandle, g, <<>>)
    BY <1>3 DEF do_fopen
  <2>2. unique \in Nat /\ DOMAIN table \subseteq 1 .. unique /\ NextHandle = unique + 1
    BY DEF TypeOK, DiskType, NextHandle
  <2>3. \A k \in DOMAIN table : k # NextHandle
    BY <2>2
  <2>4. /\ \A k \in DOMAIN table : table'[k] = table[k]
        /\ table'[NextHandle].pos = 0
    <3> HIDE DEF g, type
    <3> QED BY <2>1, <2>3 DEF HandleNew
  <2>5. \A r \in ToSet(host'.out) : r.status = "OK" /\ r.h = NextHandle
    <3>1. opened \in Requests /\ NextHandle \in Int
      <4>1. NextHandle \in Int
        BY <2>2
      <4>2. {} \in SUBSET Modes
        OBVIOUS
      <4> HIDE DEF opened
      <4>3. [m EXCEPT !.h = NextHandle, !.mode = {}] \in Requests
        BY <4>1, <4>2, JobFacts
      <4> QED BY <4>1, <4>3 DEF opened
    <3>2. g \in Nat
      <4>1. f \in Nat /\ Len(content) \in Nat
        BY RequestType DEF TypeOK, DiskType
      <4> QED BY <4>1 DEF NewFile
    <3> HIDE DEF opened, g
    <3>4. Reply(opened, retry, "OK", NextHandle, g, <<>>)
      BY <2>1
    <3>5. host'.out = Chunks(opened, "OK", NextHandle, g, <<>>)
      BY <3>4 DEF Reply
    <3>6. \A r \in ToSet(Chunks(opened, "OK", NextHandle, g, <<>>)) :
             r.status = "OK" /\ r.h = NextHandle
      BY <3>1, <3>2, NewHandleOut
    <3> QED BY <3>5, <3>6
  <2>6. ~Says(HostErrors)
    BY <2>5 DEF Says, HostErrors
  <2> QED BY <2>4, <2>5, <2>6 DEF Moved
<1> QED BY <1>1, <1>2, <1>3

LEMMA CloseMoved ==
    ASSUME NEW m \in Requests, NEW retry, NEW len, m.op = "close", do_fclose(m, retry)
    PROVE  Moved(m, len)
<1>1. CASE m.h \notin DOMAIN table
  <2>1. Answered(m, retry, "FAIL") /\ UNCHANGED diskVars /\ "FAIL" \in HostErrors
    BY <1>1 DEF do_fclose, HostErrors
  <2> QED BY <2>1, RejectMoved
<1>2. CASE m.h \in DOMAIN table
  <2>1. table' = [h \in DOMAIN table \ {m.h} |-> table[h]] /\ Answered(m, retry, "OK")
    BY <1>2 DEF do_fclose
  <2> QED BY <2>1, PlainMoved DEF Movers
<1> QED BY <1>1, <1>2

LEMMA SeekMoved ==
    ASSUME TypeOK, NEW m \in Requests, NEW retry, NEW len, m.op = "seek", do_fseek(m, retry)
    PROVE  Moved(m, len)
<1>1. CASE m.h \notin DOMAIN table \/ table[m.h].type # "file"
  <2>1. PICK st \in HostErrors : Answered(m, retry, st) /\ UNCHANGED diskVars
    BY <1>1 DEF do_fseek, HostErrors
  <2> QED BY <2>1, RejectMoved
<1>2. CASE m.h \in DOMAIN table /\ table[m.h].type = "file"
  <2>1. table' = [table EXCEPT ![m.h].pos = 0] /\ Answered(m, retry, "OK")
    BY <1>2 DEF do_fseek
  <2>2. table[m.h] \in Opens
    BY <1>2 DEF TypeOK, DiskType
  <2>3. /\ table'[m.h].pos = 0
        /\ \A k \in DOMAIN table : k # m.h => table'[k] = table[k]
    BY <1>2, <2>1, <2>2 DEF Opens
  <2>4. ~Says(HostErrors)
    <3>1. "OK" \in Statuses /\ "OK" \notin HostErrors
      BY DEF Statuses, Success, HostErrors
    <3> QED BY <2>1, <3>1, AnsweredFacts DEF Says
  <2> QED BY <2>3, <2>4 DEF Moved, Movers
<1> QED BY <1>1, <1>2

LEMMA WriteOutMoved ==
    ASSUME TypeOK, NEW m \in Requests, NEW retry, NEW data \in Seq(Items), m.op = "write",
           m.h \in DOMAIN table, m.total <= Len(data), WriteOut(m, data),
           Answered(m, retry, "OK")
    PROVE  Moved(m, Len(data))
<1>1. table' = [table EXCEPT ![m.h].pos = table[m.h].pos + Len(data)]
  BY DEF WriteOut
<1>2. table[m.h] \in Opens
  BY DEF TypeOK, DiskType
<1>3. /\ table'[m.h].pos = table[m.h].pos + Len(data)
      /\ \A k \in DOMAIN table : k # m.h => table'[k] = table[k]
  BY <1>1, <1>2 DEF Opens
<1>4. ~Says(HostErrors)
  <2>1. "OK" \in Statuses /\ "OK" \notin HostErrors
    BY DEF Statuses, Success, HostErrors
  <2> QED BY <2>1, AnsweredFacts DEF Says
<1> QED BY <1>3, <1>4 DEF Moved, Movers

LEMMA WriteMoved ==
    ASSUME TypeOK, NEW m \in Requests, NEW retry, m.op = "write", do_fwrite(m, retry),
           host'.pc = "reply"
    PROVE  Moved(m, Len(m.data))
<1>1. CASE m.h \notin DOMAIN table \/ "write" \notin table[m.h].mode
  <2>1. PICK st \in HostErrors : Answered(m, retry, st) /\ UNCHANGED diskVars
    BY <1>1 DEF do_fwrite, HostErrors
  <2> QED BY <2>1, RejectMoved
<1>2. CASE m.h \in DOMAIN table /\ "write" \in table[m.h].mode /\ Len(m.data) < m.total
  BY <1>2 DEF do_fwrite
<1>3. CASE m.h \in DOMAIN table /\ "write" \in table[m.h].mode /\ ~(Len(m.data) < m.total)
  <2>1. WriteOut(m, m.data) /\ Answered(m, retry, "OK") /\ m.data \in Seq(Items)
    BY <1>3, RequestType DEF do_fwrite
  <2>2. m.total <= Len(m.data)
    <3>1. m.total \in Nat /\ Len(m.data) \in Nat
      BY <2>1, RequestType
    <3> QED BY <1>3, <3>1
  <2> QED BY <1>3, <2>1, <2>2, WriteOutMoved
<1> QED BY <1>1, <1>2, <1>3

LEMMA ReadMoved ==
    ASSUME TypeOK, NEW m \in Requests, NEW retry, NEW len, m.op = "read", do_fread(m, retry)
    PROVE  Moved(m, len)
<1> DEFINE p == table[m.h].pos
           all == content[table[m.h].ino]
           last == IF p + m.n <= Len(all) THEN p + m.n ELSE Len(all)
           data == SubSeq(all, p + 1, last)
           st == IF Len(data) < m.n THEN "EOF" ELSE "OK"
<1>1. CASE m.h \notin DOMAIN table \/ "read" \notin table[m.h].mode
  <2>1. PICK st0 \in HostErrors : Answered(m, retry, st0) /\ UNCHANGED diskVars
    BY <1>1 DEF do_fread, HostErrors
  <2> QED BY <2>1, RejectMoved
<1>2. CASE m.h \in DOMAIN table /\ "read" \in table[m.h].mode
  <2>1. /\ table' = [table EXCEPT ![m.h].pos = p + Len(data)]
        /\ Reply(m, retry, st, m.h, 0, data) /\ content' = content
    BY <1>2 DEF do_fread
  <2>2. DiskType
    BY DEF TypeOK
  <2>3. table[m.h] \in Opens /\ table[m.h].ino \in 1 .. Len(content)
    BY <1>2, <2>2 DEF DiskType, Opens
  <2>4. p \in Nat /\ all \in Seq(Items) /\ m.n \in Nat /\ m.h \in Int
    BY <2>2, <2>3, RequestType DEF DiskType, Opens
  <2>5. Len(all) \in Nat /\ last \in Int /\ last <= Len(all) /\ last <= p + m.n
        /\ (last = p + m.n \/ last = Len(all))
    BY <2>4
  <2>6. /\ data \in Seq(Items) /\ Len(data) = IF p + 1 <= last THEN last - p ELSE 0
        /\ \A i \in 1 .. Len(data) : data[i] = all[p + i]
    <3>1. \A i \in p + 1 .. last : all[i] \in Items
      BY <2>4, <2>5
    <3>2. Len(data) = IF p + 1 <= last THEN last - (p + 1) + 1 ELSE 0
      <4> HIDE DEF p, all, last
      <4> QED BY <2>4, <2>5, <3>1, SubSeqProperties
    <3>3. data \in Seq(Items)
      <4> HIDE DEF p, all, last
      <4> QED BY <2>4, <2>5, <3>1, SubSeqProperties
    <3>4. (IF p + 1 <= last THEN last - (p + 1) + 1 ELSE 0)
             = IF p + 1 <= last THEN last - p ELSE 0
      <4> HIDE DEF p, all, last
      <4> QED BY <2>4, <2>5
    <3>5. \A i \in 1 .. last - (p + 1) + 1 : data[i] = all[(p + 1) + i - 1]
      <4> HIDE DEF p, all, last
      <4> QED BY <2>4, <2>5, <3>1, SubSeqProperties
    <3>6. Len(data) # 0 => Len(data) = last - (p + 1) + 1
      BY <3>2
    <3> HIDE DEF p, all, last, data
    <3>7. \A i \in 1 .. Len(data) : i \in 1 .. last - (p + 1) + 1 /\ (p + 1) + i - 1 = p + i
      BY <2>4, <2>5, <3>2, <3>6
    <3>8. \A i \in 1 .. Len(data) : data[i] = all[p + i]
      BY <3>5, <3>7
    <3> QED BY <3>2, <3>3, <3>4, <3>8
  <2> DEFINE q == p + Len(data)
  <2>7. st \in Statuses /\ st \notin HostErrors
    BY DEF Statuses, Success, HostErrors
  <2> HIDE DEF p, all, last, data, st
  <2>8. /\ q \in Nat /\ q - p = Len(data) /\ (data = <<>> <=> Len(data) = 0) /\ Len(data) \in Nat
        /\ q - p = m.n \/ q >= Len(all)
        /\ Len(data) # 0 => q = last
    <3>1. Len(data) \in Nat
      BY <2>6
    <3>2. data = <<>> <=> Len(data) = 0
      BY <2>6, SeqFacts
    <3>3. \A n \in Nat, L \in Nat, l \in Int, k \in Nat, a \in Nat :
             /\ l <= L /\ l <= a + n /\ (l = a + n \/ l = L)
             /\ k = IF a + 1 <= l THEN l - a ELSE 0
             => /\ (a + k) - a = k /\ (k = n \/ a + k >= L) /\ (k # 0 => a + k = l)
      OBVIOUS
    <3>4. q - p = Len(data) /\ (Len(data) = m.n \/ q >= Len(all)) /\ (Len(data) # 0 => q = last)
      BY <2>4, <2>5, <2>6, <3>1, <3>3
    <3> QED BY <2>4, <3>1, <3>2, <3>4
  <2>9. /\ table'[m.h].pos = q
        /\ \A k \in DOMAIN table : k # m.h => table'[k] = table[k]
    BY <1>2, <2>1, <2>3 DEF Opens
  <2>10. /\ host'.out = Chunks(m, st, m.h, 0, data)
         /\ \A r \in ToSet(host'.out) : r.status = st
         /\ Len(host'.out) = IF data = <<>> THEN 1 ELSE Len(data)
    BY <2>1, <2>4, <2>6, <2>7, OutFacts
  <2>11. ~Says(HostErrors)
    BY <2>7, <2>10 DEF Says
  <2>12. ASSUME NEW i \in DOMAIN host'.out
         PROVE  /\ host'.out[i].total = q - p
                /\ host'.out[i].lead <=> i = 1
                /\ host'.out[i].data = IF q - p = 0 THEN <<>> ELSE <<all[p + i]>>
    <3>1. host'.out[i] =
            [lead |-> i = 1, tag |-> m.tag, id |-> m.id, status |-> st,
             h |-> m.h, ino |-> 0, total |-> Len(data),
             data |-> IF data = <<>> THEN <<>> ELSE <<data[i]>>]
      BY <2>10, <2>12 DEF Chunks
    <3>2. host'.out[i].total = Len(data)
      BY <3>1
    <3>3. host'.out[i].data = IF data = <<>> THEN <<>> ELSE <<data[i]>>
      BY <3>1
    <3>4. host'.out[i].lead <=> i = 1
      <4> DEFINE shape(b) == [lead |-> b, tag |-> m.tag, id |-> m.id, status |-> st,
                              h |-> m.h, ino |-> 0, total |-> Len(data),
                              data |-> IF data = <<>> THEN <<>> ELSE <<data[i]>>]
      <4>1. CASE i = 1
        <5>1. (i = 1) = TRUE
          BY <4>1
        <5>2. host'.out[i] = shape(TRUE)
          BY <3>1, <5>1
        <5> QED BY <4>1, <5>2
      <4>2. CASE i # 1
        <5>1. (i = 1) = FALSE
          BY <4>2
        <5>2. host'.out[i] = shape(FALSE)
          BY <3>1, <5>1
        <5> QED BY <4>2, <5>2
      <4> QED BY <4>1, <4>2
    <3>5. i \in 1 .. Len(data) \/ data = <<>>
      <4>1. DOMAIN host'.out = 1 .. Len(host'.out)
        BY <2>10 DEF Chunks
      <4> QED BY <2>10, <2>12, <4>1
    <3>6. data # <<>> => data[i] = all[p + i]
      BY <2>6, <3>5
    <3> HIDE DEF q
    <3> QED BY <2>8, <3>2, <3>3, <3>4, <3>6
  <2>13. ReadOut(m)
    <3>1. table[m.h].pos = p /\ content[table[m.h].ino] = all
      BY DEF p, all
    <3>2. /\ content' = content /\ m.h \in DOMAIN table /\ table'[m.h].pos = q
          /\ Len(data) \in Nat /\ q - p \in Nat /\ (q - p = m.n \/ q >= Len(all))
      BY <1>2, <2>1, <2>8, <2>9
    <3>3. Len(host'.out) = IF q - p = 0 THEN 1 ELSE q - p
      BY <2>8, <2>10
    <3> HIDE DEF q
    <3> QED BY <2>12, <3>1, <3>2, <3>3, Zenon DEF ReadOut
  <2>14. ~(m.op = "open") /\ ~(m.op = "seek") /\ ~(m.op = "write")
    OBVIOUS
  <2>15. \A k \in DOMAIN table \cap DOMAIN table' :
            m.op \notin Movers \/ k # m.h => table'[k].pos = table[k].pos
    BY <2>9 DEF Movers
  <2> QED BY <2>11, <2>13, <2>14, <2>15, Zenon DEF Moved
<1> QED BY <1>1, <1>2

LEMMA DirMoved ==
    ASSUME NEW m \in Requests, NEW retry, NEW len,
           \/ m.op = "delete" /\ do_fdelete(m, retry)
           \/ m.op = "rename" /\ do_frename(m, retry)
           \/ m.op = "create" /\ do_fcreate(m, retry)
           \/ m.op = "set" /\ do_fset(m, retry)
           \/ m.op = "path" /\ do_fpath(m, retry)
    PROVE  Moved(m, len)
<1>1. CASE Answered(m, retry, "OK") /\ table' = table
  <2>1. m.op \notin Movers \cup {"open"}
    BY DEF Movers
  <2> QED BY <1>1, <2>1, PlainMoved
<1>2. CASE \E st \in HostErrors : Rejected(m, retry, st) /\ UNCHANGED diskVars
  BY <1>2, RejectMoved
<1>3. {"FAIL", "NOEXIST", "EXIST"} \subseteq HostErrors
  BY DEF HostErrors
<1>4. CASE m.op = "delete"
  BY <1>1, <1>2, <1>3, <1>4 DEF do_fdelete
<1>5. CASE m.op = "rename"
  BY <1>1, <1>2, <1>3, <1>5 DEF do_frename
<1>6. CASE m.op = "create"
  BY <1>1, <1>2, <1>3, <1>6 DEF do_fcreate
<1>7. CASE m.op = "set"
  BY <1>1, <1>2, <1>3, <1>7 DEF do_fset
<1>8. CASE m.op = "path"
  BY <1>1, <1>2, <1>3, <1>8 DEF do_fpath
<1> QED BY <1>4, <1>5, <1>6, <1>7, <1>8

LEMMA ProcessMoved ==
    ASSUME TypeOK, NEW m \in Requests, NEW retry, Process(m, retry), host'.pc = "reply"
    PROVE  Moved(m, Len(m.data))
<1>1. CASE m.op = "open" /\ do_fopen(m, retry)
  BY <1>1, OpenMoved
<1>2. CASE m.op = "close" /\ do_fclose(m, retry)
  BY <1>2, CloseMoved
<1>3. CASE m.op = "read" /\ do_fread(m, retry)
  BY <1>3, ReadMoved
<1>4. CASE m.op = "write" /\ do_fwrite(m, retry)
  BY <1>4, WriteMoved
<1>5. CASE m.op = "seek" /\ do_fseek(m, retry)
  BY <1>5, SeekMoved
<1>6. CASE \/ m.op = "delete" /\ do_fdelete(m, retry)
           \/ m.op = "rename" /\ do_frename(m, retry)
           \/ m.op = "create" /\ do_fcreate(m, retry)
           \/ m.op = "set" /\ do_fset(m, retry)
           \/ m.op = "path" /\ do_fpath(m, retry)
  BY <1>6, DirMoved
<1> QED BY <1>1, <1>2, <1>3, <1>4, <1>5, <1>6 DEF Process

-------------------------------------------------------------------------------
(* What the server does as long as nothing went wrong.                     *)

SmoothState ==
    /\ TypeOK /\ CallInv /\ TagInv /\ HandleInv /\ HeldHandlesOpen
    /\ Smooth /\ Quiet /\ LeadsInv /\ PartInv /\ SingleInv /\ TellsInv
    /\ OrderInv /\ DataInv /\ PosInv /\ ReadInv /\ ReadsFollow

LEMMA SmoothBefore ==
    ASSUME IInv, FollowInv, events \subseteq events', Smooth'
    PROVE  SmoothState
<1>1. Smooth /\ Quiet
  BY DEF Smooth, Quiet, Without
<1> QED BY <1>1 DEF SmoothState, IInv, QuietInv, FollowInv

Refuses(m) ==
    /\ Replying' /\ host'.job.id = m.id /\ host'.job.op = m.op
    /\ \A r \in ToSet(host'.out) : r.id = m.id /\ r.status \in HostErrors
    /\ UNCHANGED diskVars
Placed(m) ==
    /\ \A k \in DOMAIN table \cap DOMAIN table' :
          m.op \notin Movers \/ k # m.h => table'[k].pos = table[k].pos
    /\ m.op = "open" => \A r \in ToSet(host'.out) : table'[r.h].pos = 0
    /\ m.op = "seek" => table'[m.h].pos = 0
    /\ m.op = "write" /\ Calling /\ m.id = Current =>
         table'[m.h].pos = table[m.h].pos + client.parts[client.part]
    /\ m.op = "read" => ReadOut(m)
Executes(m) ==
    /\ Replying' /\ host'.job.id = m.id /\ host'.job.op = m.op
    /\ \A r \in ToSet(host'.out) : r.id = m.id /\ r.status \in Success
    /\ m.lead /\ First(m) /\ effects'[m.id] = 1
    /\ \A id \in Ids : id # m.id => effects'[id] = effects[id]
    /\ Placed(m)
Works(m) ==
    /\ m \in Requests /\ m \in Commands
    /\ \/ Stay(m) /\ Len(host'.buf) < m.total /\ host'.out = <<>>
       \/ Refuses(m) \/ Executes(m)
    /\ atou # <<>> /\ atou' = Tail(atou)
    /\ (host.pc = "idle" /\ m = Head(atou)) \/ (host.pc = "collect" /\ m = host.job)
    /\ UNCHANGED clientVars /\ utoa' = utoa /\ events' = events

LEMMA Outcome ==
    ASSUME TypeOK, NEW m \in Requests, Follows(m), m.lead => First(m), Serves(m),
           "dropped" \notin events', NEW len, Moved(m, len),
           m.op = "write" /\ Calling /\ m.id = Current /\ m.total <= len =>
              len = client.parts[client.part]
    PROVE  Refuses(m) \/ Executes(m)
<1>1. PICK st \in Statuses, h \in Int, ino \in Nat : Served(m, st, h, ino)
  BY DEF Serves
<1>2. /\ Replying' /\ host'.job.id = m.id /\ host'.job.op = m.op
      /\ \A r \in ToSet(host'.out) : r.id = m.id /\ r.status = st
      /\ host'.out \in Seq(Replies) /\ host'.out # <<>>
  BY <1>1 DEF Served, Replied, Replying, HostType
<1>3. host'.out[1] \in ToSet(host'.out)
  BY <1>2, TailFacts
<1>4. CASE st \in HostErrors
  <2>1. Says(HostErrors)
    BY <1>2, <1>3, <1>4 DEF Says
  <2>2. UNCHANGED diskVars
    BY <2>1 DEF Moved
  <2> QED BY <1>2, <1>4, <2>2 DEF Refuses
<1>5. CASE st \in Success
  <2>1. Says(Success) /\ st \notin HostErrors
    BY <1>2, <1>3, <1>5 DEF Says, Success, HostErrors
  <2>2. m.lead
    <3>1. m.op = "write" => m.h \in DOMAIN table
      BY <1>1, <2>1 DEF Served
    <3>2. \A k \in DOMAIN table : k # Garbage
      BY DEF TypeOK, DiskType, Garbage
    <3> QED BY <3>1, <3>2 DEF Follows
  <2>3. First(m)
    BY <2>2
  <2>4. effects'[m.id] = 1 /\ \A id \in Ids : id # m.id => effects'[id] = effects[id]
    <3>1. effects'[m.id] = Bump(effects[m.id]) /\ \A id \in Ids : id # m.id => effects'[id] = effects[id]
      BY <1>1, <1>5 DEF Served, Moves
    <3>2. effects[m.id] = 0 /\ Bump(0) = 1
      BY <2>3 DEF First, Bump
    <3> QED BY <3>1, <3>2
  <2>5. Placed(m)
    BY <2>1, Zenon DEF Moved, Placed
  <2> QED BY <1>2, <1>5, <2>2, <2>3, <2>4, <2>5 DEF Executes
<1> QED BY <1>4, <1>5 DEF Statuses

LEMMA PartLength ==
    ASSUME TypeOK, CallInv, Calling, client.op = "write"
    PROVE  client.part \in DOMAIN client.parts /\ client.parts[client.part] \in Nat \ {0}
<1>1. /\ Len(client.parts) \in {1, 2} /\ client.part \in {1, 2}
      /\ client.part = 1 \/ Len(client.parts) = 2
      /\ client.parts \in Seq(Nat \ {0})
  BY ClientFields DEF TypeOK, ClientType, CallInv, CurrentCall
<1>2. \A n, p \in {1, 2} : p = 1 \/ n = 2 => p \in 1 .. n
  OBVIOUS
<1>3. client.part \in 1 .. Len(client.parts)
  BY <1>1, <1>2
<1> QED BY <1>1, <1>3, SeqFacts

LEMMA TakeSmooth ==
    ASSUME SmoothState, TypeOK', Take
    PROVE  Works(Head(atou))
<1> DEFINE m == Head(atou)
<1>1. /\ TypeOK /\ CallInv /\ LeadsInv /\ TellsInv /\ Told /\ DataInv /\ PartInv
      /\ "dropped" \notin events
  BY DEF SmoothState, TellsInv, Smooth, Without
<1>2. /\ host.pc = "idle" /\ atou # <<>> /\ atou' = Tail(atou) /\ Process(m, 1)
      /\ UNCHANGED clientVars /\ utoa' = utoa /\ events' = events
  BY DEF Take
<1>3. /\ m \in Requests /\ m \in ToSet(atou) /\ m \in Commands /\ Follows(m)
  BY <1>1, <1>2, HeadRequest DEF Commands, CallInv
<1>4. m.lead => First(m)
  BY <1>1, <1>2, HeadTurn
<1> HIDE DEF m
<1>5. CASE Gathers(m)
  <2>1. m.h \in DOMAIN table /\ Stays(m) /\ Len(m.data) < m.total
    BY <1>5 DEF Gathers, Stays
  <2>2. m.h # Garbage
    <3>1. m.h \in 1 .. unique
      BY <1>1, <2>1 DEF TypeOK, DiskType
    <3> QED BY <3>1 DEF Garbage
  <2>3. Stay(m)
    BY <1>3, <1>4, <2>1, <2>2 DEF Follows, Stay
  <2>4. host'.buf = m.data /\ host'.out = <<>>
    <3>1. do_fwrite(m, 1) /\ "write" \in table[m.h].mode
      BY <1>2, <1>5 DEF Process, Gathers
    <3> QED BY <2>1, <3>1 DEF do_fwrite
  <2> QED BY <1>2, <1>3, <2>1, <2>3, <2>4 DEF Works, m
<1>6. CASE Serves(m)
  <2>1. host'.pc = "reply"
    BY <1>6 DEF Serves, Served, Replied
  <2>2. Moved(m, Len(m.data))
    BY <1>1, <1>2, <1>3, <2>1, ProcessMoved
  <2>3. ASSUME m.op = "write", Calling, m.id = Current, m.total <= Len(m.data)
        PROVE  Len(m.data) = client.parts[client.part]
    <3>1. Len(m.data) = 1
      BY <1>1, <1>3, <2>3 DEF DataInv
    <3>2. m.total = client.parts[client.part]
      BY <1>1, <1>3, <2>3 DEF DataInv, Carries, Pending
    <3>3. client.op = "write"
      BY <1>1, <1>3, <2>3 DEF PartInv, Current
    <3>4. client.parts[client.part] \in Nat \ {0}
      BY <1>1, <2>3, <3>3, PartLength
    <3>5. \A n \in Nat \ {0} : n <= 1 => n = 1
      OBVIOUS
    <3> QED BY <2>3, <3>1, <3>2, <3>4, <3>5
  <2>4. Refuses(m) \/ Executes(m)
    BY <1>1, <1>2, <1>3, <1>4, <1>6, <2>2, <2>3, Outcome
  <2> QED BY <1>2, <1>3, <2>4 DEF Works, m
<1> QED BY <1>1, <1>2, <1>3, <1>5, <1>6, ProcessServes

LEMMA CollectSmooth ==
    ASSUME SmoothState, TypeOK', Collect
    PROVE  Works(host.job)
<1> DEFINE m == host.job
           k == Head(atou)
           buf == host.buf \o (IF k.lead THEN <<Junk>> ELSE k.data)
<1>1. /\ TypeOK /\ CallInv /\ LeadsInv /\ TellsInv /\ Told /\ DataInv /\ PartInv /\ OrderInv
      /\ "dropped" \notin events /\ ReadInv
  BY DEF SmoothState, TellsInv, Smooth, Without
<1>2. /\ host.pc = "collect" /\ atou # <<>> /\ atou' = Tail(atou)
      /\ UNCHANGED clientVars /\ utoa' = utoa /\ events' = events
      /\ IF Len(buf) < m.total
         THEN host' = [host EXCEPT !.buf = buf] /\ UNCHANGED diskVars
         ELSE WriteOut(m, buf) /\ Answered(m, host.retry, "OK")
  BY DEF Collect
<1>3. /\ m \in Requests /\ m \in Commands /\ m \in Pending /\ m.op = "write" /\ m.lead
      /\ m.h \in DOMAIN table
  BY <1>1, <1>2 DEF TypeOK, HostType, CollectType, Working, Commands, Pending, OrderInv
<1>4. First(m)
  <2>1. ToSet(atou') \subseteq ToSet(atou)
    BY <1>1, <1>2, HeadRequest
  <2> QED BY <1>1, <1>2, <2>1, JobTurn
<1>5. buf \in Seq(Items) /\ Len(buf) = Len(host.buf) + 1 /\ Len(host.buf) \in Nat
  <2>1. host.buf \in Seq(Items) /\ k \in Requests /\ k.data \in Seq(Items) /\ k \in ToSet(atou)
    BY <1>1, <1>2, HeadRequest, RequestType DEF TypeOK, HostType
  <2>2. <<Junk>> \in Seq(Items) /\ Len(<<Junk>>) = 1
    BY DEF Junk, Items
  <2>3. ~k.lead => Len(k.data) = 1
    BY <1>1, <2>1 DEF CallInv, Follows, DataInv
  <2>4. /\ (IF k.lead THEN <<Junk>> ELSE k.data) \in Seq(Items)
        /\ Len(IF k.lead THEN <<Junk>> ELSE k.data) = 1
    BY <2>1, <2>2, <2>3
  <2> DEFINE more == IF k.lead THEN <<Junk>> ELSE k.data
  <2>5. more \in Seq(Items) /\ Len(more) = 1
    BY <2>4
  <2> HIDE DEF more
  <2>6. host.buf \o more \in Seq(Items) /\ Len(host.buf \o more) = Len(host.buf) + Len(more)
    BY <2>1, <2>5, ConcatProperties
  <2>7. Len(host.buf) \in Nat
    BY <2>1
  <2> QED BY <2>5, <2>6, <2>7 DEF more
<1> HIDE DEF buf
<1>6. CASE Len(buf) < m.total
  <2>1. host' = [host EXCEPT !.buf = buf] /\ UNCHANGED diskVars
    BY <1>2, <1>6
  <2>2. host = [pc |-> host.pc, job |-> host.job, out |-> host.out,
                retry |-> host.retry, buf |-> host.buf]
    BY <1>1 DEF TypeOK, HostType
  <2>3. host'.pc = "collect" /\ host'.job = m /\ host'.buf = buf
    BY <1>2, <2>1, <2>2
  <2>5. host'.out = <<>>
    <3>1. host.out = <<>>
      BY <1>1, <1>2 DEF ReadInv, Replying
    <3> QED BY <2>1, <2>2, <3>1
  <2>4. Stay(m)
    BY <1>2, <1>4, <2>1, <2>3 DEF Stay, Stays, TypeOK
  <2> QED BY <1>2, <1>3, <1>6, <2>3, <2>4, <2>5 DEF Works
<1>7. CASE ~(Len(buf) < m.total)
  <2>1. WriteOut(m, buf) /\ Answered(m, host.retry, "OK")
    BY <1>2, <1>7
  <2>2. Serves(m)
    BY <1>1, <1>2, <1>5, <2>1, CollectedServes
  <2>3. m.total \in Nat /\ Len(host.buf) < m.total
    BY <1>1, <1>2, <1>3, RequestType DEF DataInv
  <2>4. Len(buf) = m.total
    <3>1. \A n, t \in Nat : n < t /\ ~(n + 1 < t) => n + 1 = t
      OBVIOUS
    <3> QED BY <1>5, <1>7, <2>3, <3>1
  <2>5. Moved(m, Len(buf))
    <3>1. m.total <= Len(buf)
      BY <2>3, <2>4
    <3> QED BY <1>1, <1>3, <1>5, <2>1, <3>1, WriteOutMoved
  <2>6. Calling /\ m.id = Current => Len(buf) = client.parts[client.part]
    BY <1>1, <1>3, <2>4 DEF DataInv, Carries
  <2>7. Refuses(m) \/ Executes(m)
    <3>1. Follows(m)
      BY <1>3 DEF Follows
    <3> QED BY <1>1, <1>2, <1>3, <1>4, <2>2, <2>5, <2>6, <3>1, Outcome
  <2> QED BY <1>2, <1>3, <2>7 DEF Works
<1> QED BY <1>6, <1>7

-------------------------------------------------------------------------------
(* The order of what is on its way.                                        *)

LEMMA HeadFacts ==
    ASSUME TypeOK, atou # <<>>, atou' = Tail(atou)
    PROVE  /\ Head(atou) = atou[1] /\ 1 \in DOMAIN atou
           /\ \A i \in DOMAIN atou' : i + 1 \in DOMAIN atou /\ atou'[i] = atou[i + 1]
           /\ \A i \in DOMAIN atou' : i \in Nat \ {0}
           /\ ToSet(atou') \subseteq ToSet(atou) /\ Head(atou) \in ToSet(atou)
           /\ \A k \in ToSet(atou') : \E j \in DOMAIN atou : 1 < j /\ k = atou[j]
           /\ atou' # <<>> => \E j \in DOMAIN atou : 1 < j
<1>1. atou \in Seq(Requests) /\ Tail(atou) \in Seq(Requests)
  BY TailFacts DEF TypeOK
<1>2. /\ Head(atou) = atou[1] /\ 1 \in DOMAIN atou
      /\ \A i \in DOMAIN atou' : i + 1 \in DOMAIN atou /\ atou'[i] = atou[i + 1]
      /\ ToSet(atou') \subseteq ToSet(atou) /\ Head(atou) \in ToSet(atou)
  BY <1>1, TailFacts
<1>3. DOMAIN atou' = 1 .. Len(atou') /\ Len(atou') \in Nat /\ (atou' = <<>> <=> Len(atou') = 0)
  BY <1>1, SeqFacts
<1>4. \A i \in DOMAIN atou' : i \in Nat \ {0} /\ 1 < i + 1
  BY <1>3
<1>5. \A k \in ToSet(atou') : \E i \in DOMAIN atou' : k = atou'[i]
  BY DEF ToSet
<1>6. \A k \in ToSet(atou') : \E j \in DOMAIN atou : 1 < j /\ k = atou[j]
  BY <1>2, <1>4, <1>5
<1>7. atou' # <<>> => \E j \in DOMAIN atou : 1 < j
  <2>1. atou' # <<>> => 1 \in DOMAIN atou'
    BY <1>3
  <2> QED BY <1>2, <1>4, <2>1
<1> QED BY <1>2, <1>4, <1>6, <1>7

\* Once the last call was carried out, the server only refuses.
LEMMA SettledStays ==
    ASSUME SmoothState, NEW m, Works(m), Settled
    PROVE  Refuses(m) /\ host.pc = "idle" /\ ~m.lead /\ Settled'
<1>1. TypeOK /\ atou # <<>> /\ atou' = Tail(atou)
  BY DEF SmoothState, Works
<1>2. host.pc = "idle" /\ m = Head(atou) /\ ~m.lead
  BY <1>1, HeadFacts DEF Works, Settled
<1>3. Refuses(m)
  BY <1>2 DEF Works, Executes, Stay
<1>4. Settled'
  <2>1. host'.pc # "collect"
    BY <1>3 DEF Refuses, Replying
  <2> QED BY <1>1, <2>1, HeadFacts DEF Settled
<1> QED BY <1>2, <1>3, <1>4

\* The server works on the last call: what comes after belongs to it.
LEMMA LastTurn ==
    ASSUME SmoothState, NEW m, Works(m), m.id[1] = calls
    PROVE  (\A k \in ToSet(atou') : ~k.lead) /\ (atou' = <<>> \/ m.op = "write")
<1>1. TypeOK /\ OrderInv /\ atou # <<>> /\ atou' = Tail(atou)
  BY DEF SmoothState, Works
<1>2. CASE host.pc = "idle" /\ m = Head(atou)
  <2>1. \A j \in DOMAIN atou : 1 < j => ~atou[j].lead /\ m.op = "write"
    BY <1>1, <1>2, HeadFacts DEF OrderInv
  <2> QED BY <1>1, <2>1, HeadFacts
<1>3. CASE host.pc = "collect" /\ m = host.job
  <2>1. (\A k \in ToSet(atou) : ~k.lead) /\ m.op = "write"
    BY <1>1, <1>3 DEF OrderInv, Working
  <2> QED BY <1>1, <2>1, HeadFacts
<1> QED BY <1>2, <1>3 DEF Works

LEMMA WorkJob ==
    ASSUME NEW m, Works(m)
    PROVE  /\ Working' /\ host'.job.id = m.id /\ host'.job.op = m.op
           /\ host'.pc = "collect" => Stay(m) /\ host'.job = m
           /\ client' = client /\ calls' = calls /\ result' = result /\ held' = held
           /\ Current' = Current /\ (Calling' <=> Calling) /\ events' = events
           /\ \A id \in Ids : effects'[id] # effects[id] =>
                 m.id = id /\ Executes(m) /\ effects[id] = 0
<1>1. /\ client' = client /\ calls' = calls /\ result' = result /\ held' = held
      /\ events' = events
  BY DEF Works, clientVars
<1>2. Current' = Current /\ (Calling' <=> Calling)
  BY <1>1 DEF Current, Calling
<1>3. CASE Stay(m)
  BY <1>1, <1>2, <1>3 DEF Stay, Stays, Working, diskVars
<1>4. CASE Refuses(m)
  BY <1>1, <1>2, <1>4 DEF Refuses, Replying, Working, diskVars
<1>5. CASE Executes(m)
  BY <1>1, <1>2, <1>5 DEF Executes, Replying, Working, First
<1> QED BY <1>3, <1>4, <1>5 DEF Works

LEMMA WorkOrder ==
    ASSUME SmoothState, NEW m, Works(m)
    PROVE  OrderInv'
<1>1. /\ TypeOK /\ CallInv /\ PartInv /\ OrderInv /\ atou # <<>> /\ atou' = Tail(atou)
      /\ m \in Commands /\ m \in Requests /\ m.id \in Ids
  BY RequestType DEF SmoothState, Works
<1>2. /\ Working' /\ host'.job.id = m.id /\ host'.job.op = m.op
      /\ host'.pc = "collect" => Stay(m) /\ host'.job = m
      /\ client' = client /\ calls' = calls /\ result' = result
      /\ Current' = Current /\ (Calling' <=> Calling)
      /\ \A id \in Ids : effects'[id] # effects[id] =>
                 m.id = id /\ Executes(m) /\ effects[id] = 0
  BY WorkJob
<1>3. Settled => Settled'
  BY SettledStays
<1>4. \A i, j \in DOMAIN atou' :
         i < j /\ atou'[i].id[1] = calls' => ~atou'[j].lead /\ atou'[i].op = "write"
  <2> SUFFICES ASSUME NEW i \in DOMAIN atou', NEW j \in DOMAIN atou', i < j,
                      atou'[i].id[1] = calls
               PROVE  ~atou'[j].lead /\ atou'[i].op = "write"
    BY <1>2
  <2>1. /\ i + 1 \in DOMAIN atou /\ atou'[i] = atou[i + 1] /\ i \in Nat
        /\ j + 1 \in DOMAIN atou /\ atou'[j] = atou[j + 1] /\ j \in Nat
    BY <1>1, HeadFacts
  <2>2. i + 1 < j + 1
    BY <2>1
  <2> QED BY <1>1, <2>1, <2>2 DEF OrderInv
<1>5. m.id[1] = calls => (\A k \in ToSet(atou') : ~k.lead) /\ (atou' = <<>> \/ m.op = "write")
  BY LastTurn
<1>6. host'.pc = "collect" => host'.job.lead
  <2>1. host.pc = "idle" /\ Stay(m) => m.lead
    BY DEF Stay
  <2>2. host.pc = "collect" => host.job.lead
    BY <1>1 DEF OrderInv
  <2> QED BY <1>2, <2>1, <2>2 DEF Works
<1>7. ASSUME Calling, effects'[Current] # 0
      PROVE  Settled' /\ (client.op = "read" => atou' = <<>> /\ host'.job.id = Current)
  <2>0. Current \in Ids /\ Current[1] = calls /\ client.id = calls
    BY <1>1, <1>7, CurrentId DEF Current
  <2>1. CASE effects[Current] # 0
    <3>1. Settled /\ client.op # "read"
      BY <1>1, <1>7, <2>1 DEF OrderInv
    <3> QED BY <1>3, <3>1
  <2>2. CASE effects[Current] = 0
    <3>1. m.id = Current /\ Executes(m)
      BY <1>2, <1>7, <2>0, <2>2
    <3>2. host'.pc # "collect"
      BY <3>1 DEF Executes, Replying
    <3>3. Settled'
      BY <1>5, <2>0, <3>1, <3>2 DEF Settled
    <3>4. m.op = client.op
      BY <1>1, <1>7, <2>0, <3>1 DEF PartInv
    <3> QED BY <1>2, <1>5, <2>0, <3>1, <3>3, <3>4
  <2> QED BY <2>1, <2>2
<1>8. result.op # "none" /\ result.status \in Success => Settled'
  BY <1>1, <1>3 DEF OrderInv
<1> QED BY <1>2, <1>4, <1>5, <1>6, <1>7, <1>8 DEF OrderInv

\* A call begins, and nothing that is on its way belongs to it.
LEMMA NewCallOrder ==
    ASSUME SmoothState, calls' = calls + 1, atou' = atou, host' = host,
           Calling' => effects'[Current'] = 0,
           result'.op = "none" \/ result'.status \notin Success
    PROVE  OrderInv'
<1>1. TypeOK /\ TagInv /\ OrderInv /\ calls \in Nat
  BY DEF SmoothState, TypeOK, ClientType
<1>2. \A m \in Commands : m.id[1] # calls + 1
  <2>1. \A m \in Commands : m.id[1] <= calls /\ m.id[1] \in Nat
    BY <1>1, CommandType DEF TagInv
  <2> QED BY <1>1, <2>1
<1>3. \A i \in DOMAIN atou : atou[i].id[1] # calls + 1
  BY <1>2 DEF Commands, ToSet
<1>4. Working => host.job.id[1] # calls + 1
  BY <1>2 DEF Commands
<1> QED BY <1>1, <1>3, <1>4 DEF OrderInv, Working

LEMMA BeginOrder ==
    ASSUME SmoothState, TypeOK', Begins \/ Unavailable
    PROVE  OrderInv' /\ (Begins => effects[Current'] = 0 /\ effects'[Current'] = 0)
<1>1. TypeOK /\ TagInv /\ PartInv /\ effects' = effects
  BY DEF SmoothState, Begins, Unavailable, diskVars
<1>2. CASE Begins
  <2>1. Current' = <<calls + 1, 1>> /\ calls \in Nat /\ calls + 1 <= MaxCalls /\ MaxCalls \in Nat
    BY <1>1, <1>2, BoundAssumption DEF Begins, Current, TypeOK, ClientType
  <2>2. Current' \in Ids /\ Current'[1] = calls + 1
    BY <2>1 DEF Ids
  <2>3. effects[Current'] = 0
    BY <1>1, <2>2, NewRequest DEF NotYet
  <2>4. effects'[Current'] = 0
    BY <1>1, <2>3
  <2>5. calls' = calls + 1 /\ atou' = atou /\ host' = host /\ result'.op = "none"
    BY <1>2, NoResultFacts DEF Begins
  <2> QED BY <2>3, <2>4, <2>5, NewCallOrder
<1>3. CASE Unavailable
  <2>1. calls' = calls + 1 /\ atou' = atou /\ host' = host /\ result'.status \notin Success
        /\ ~Calling'
    BY <1>3 DEF Unavailable, Success, Calling
  <2>2. ~Begins
    BY <1>3 DEF Begins, Unavailable, NoCall
  <2> QED BY <2>1, <2>2, NewCallOrder
<1> QED BY <1>2, <1>3

LEMMA SendOrder ==
    ASSUME SmoothState, Sends, atou' = Append(atou, Head(client.todo))
    PROVE  OrderInv'
<1> DEFINE m == Head(client.todo)
<1>1. /\ TypeOK /\ CallInv /\ PartInv /\ LeadsInv /\ OrderInv
      /\ client.pc = "send" /\ m \in Requests /\ m = client.todo[1] /\ client.todo # <<>>
      /\ Calling /\ SameCall /\ client'.part = client.part
      /\ calls' = calls /\ result' = result /\ host' = host /\ effects' = effects
  BY DEF SmoothState, Sends, Calling, diskVars
<1>2. /\ client'.op = client.op /\ Current' = Current /\ Calling'
      /\ client.id = calls /\ Current[1] = calls /\ result.op = "none"
  BY <1>1, CurrentId, NoResultFacts DEF SameCall, Current, Calling
<1>3. 1 \in DOMAIN client.todo
  BY <1>1, TailFacts DEF TypeOK, ClientType, Clients
<1>4. m.op = client.op /\ m.id = Current /\ (~m.lead => m.op = "write")
  BY <1>1, <1>3 DEF CallInv, TodoInv
<1> HIDE DEF m
<1>5. /\ ToSet(atou') = ToSet(atou) \cup {m} /\ DOMAIN atou' = 1 .. Len(atou) + 1
      /\ atou'[Len(atou) + 1] = m /\ \A i \in DOMAIN atou : atou'[i] = atou[i]
      /\ DOMAIN atou = 1 .. Len(atou) /\ Len(atou) \in Nat
  <2>1. atou \in Seq(Requests)
    BY <1>1 DEF TypeOK
  <2> QED BY <1>1, <2>1, AppendFacts, SeqFacts DEF m
<1>6. CASE m.lead
  <2>1. /\ effects[Current] = 0 /\ (Working => host.job.id # Current)
        /\ \A k \in ToSet(atou) : k.id # Current
    BY <1>1, <1>6 DEF LeadsInv, Sending, NotYet, m
  <2>2. \A k \in Commands : k.id[1] # calls
    <3>1. \A k \in Commands : k.id # Current
      BY <2>1 DEF Commands
    <3> QED BY <1>1, <1>2, <3>1, PairFacts
  <2>3. \A i \in DOMAIN atou : atou[i].id[1] # calls
    BY <2>2 DEF Commands, ToSet
  <2>4. Working => host.job.id[1] # calls
    BY <2>2 DEF Commands
  <2>5. \A i, j \in DOMAIN atou' : i < j => i \in DOMAIN atou
    BY <1>5
  <2>6. \A i, j \in DOMAIN atou' :
           i < j /\ atou'[i].id[1] = calls' => ~atou'[j].lead /\ atou'[i].op = "write"
    BY <1>1, <1>5, <2>3, <2>5
  <2> QED BY <1>1, <1>2, <2>1, <2>4, <2>6 DEF OrderInv, Working
<1>7. CASE ~m.lead
  <2>1. client.op = "write" /\ m.op = "write"
    BY <1>4, <1>7
  <2>2. \A i \in DOMAIN atou : atou[i].id[1] = calls => atou[i].op = "write"
    BY <1>1, <1>2, <2>1 DEF PartInv, Commands, ToSet
  <2>3. \A i, j \in DOMAIN atou' :
           i < j => i \in DOMAIN atou /\ (j \in DOMAIN atou \/ j = Len(atou) + 1)
    BY <1>5
  <2>4. \A i, j \in DOMAIN atou' :
           i < j /\ atou'[i].id[1] = calls' => ~atou'[j].lead /\ atou'[i].op = "write"
    BY <1>1, <1>5, <1>7, <2>2, <2>3 DEF OrderInv
  <2>5. Settled => Settled'
    BY <1>1, <1>5, <1>7 DEF Settled
  <2>6. Working /\ host.job.id[1] = calls => host.job.op = "write"
    BY <1>1, <1>2, <2>1 DEF PartInv, Commands
  <2> QED BY <1>1, <1>2, <1>5, <1>7, <2>1, <2>4, <2>5, <2>6 DEF OrderInv, Working
<1> QED BY <1>6, <1>7

\* Neither the commands nor the disk change.
SendsOn ==
    /\ host.pc = "reply"
    /\ (host'.pc = "reply" /\ host'.job = host.job) \/ host'.pc = "idle"
LEMMA SameOrder ==
    ASSUME OrderInv, calls' = calls, atou' = atou, effects' = effects,
           host' = host \/ SendsOn,
           Calling' => effects[Current'] = 0
                       \/ (Calling /\ Current' = Current /\ client'.op = client.op),
           result' = result \/ (result'.status \in Success => Settled)
    PROVE  OrderInv'
<1>1. /\ Working' => Working /\ host'.job = host.job
      /\ host'.pc = "collect" => host.pc = "collect" /\ host'.job = host.job
  BY DEF SendsOn, Working
<1>2. Settled => Settled'
  BY <1>1 DEF Settled
<1>3. Calling' /\ effects'[Current'] # 0 =>
         Settled' /\ (client'.op = "read" => atou' = <<>> /\ (Working' => host'.job.id = Current'))
  BY <1>1, <1>2 DEF OrderInv
<1>4. result'.op # "none" /\ result'.status \in Success => Settled'
  BY <1>2 DEF OrderInv
<1> QED BY <1>1, <1>3, <1>4 DEF OrderInv

LEMMA EndSettled ==
    ASSUME SmoothState, Ends, result'.status \in Success
    PROVE  Settled /\ effects[Current] = 1 /\ Taken /\ Repeats(Head(utoa))
           /\ Head(utoa).status \in Success /\ Head(utoa).id = Current
           /\ Head(utoa) \in Answers /\ (Head(utoa).status = "EOF" => client.op = "read")
<1>1. /\ TypeOK /\ CallInv /\ TagInv /\ PartInv /\ Quiet /\ TellsInv /\ OrderInv /\ Calling
      /\ "dropped" \notin events
  BY DEF SmoothState, Ends, Smooth, Without
<1>2. Taken /\ Repeats(Head(utoa)) /\ Head(utoa).status \in Success /\ utoa # <<>>
      /\ Head(utoa).tag = client.tag
  BY DEF Ends, Repeats, Taken, Success
<1>3. Head(utoa) \in Answers /\ Head(utoa).id = Current
      /\ (Head(utoa).status = "EOF" => client.op = "read")
  BY <1>1, <1>2, MineAnswer
<1>4. effects[Current] = 1
  BY <1>1, <1>2, <1>3 DEF TellsInv, Tells
<1> QED BY <1>1, <1>2, <1>3, <1>4 DEF OrderInv

LEMMA ClientOrder ==
    ASSUME SmoothState, Drops \/ Proceeds \/ NextPart \/ Ends
    PROVE  OrderInv'
<1>1. TypeOK /\ OrderInv /\ PartInv
  BY DEF SmoothState
<1>2. CASE Drops \/ Proceeds
  <2>1. /\ calls' = calls /\ atou' = atou /\ effects' = effects /\ host' = host /\ result' = result
        /\ Calling' => Calling /\ Current' = Current /\ client'.op = client.op
    BY <1>2 DEF Drops, Proceeds, Rest, clientVars, diskVars, SameCall, Calling, Current
  <2> QED BY <1>1, <2>1, SameOrder
<1>3. CASE NextPart
  <2>1. /\ calls' = calls /\ atou' = atou /\ effects' = effects /\ host' = host /\ result' = result
        /\ Calling /\ client.part = 1 /\ Current' = <<client.id, 2>>
    BY <1>3 DEF NextPart, Rest, diskVars, SameCall, Calling, Current
  <2>2. effects[Current'] = 0
    BY <1>1, <2>1 DEF PartInv
  <2> QED BY <1>1, <2>1, <2>2, SameOrder
<1>4. CASE Ends
  <2>1. /\ calls' = calls /\ atou' = atou /\ effects' = effects /\ host' = host /\ ~Calling'
    BY <1>4, NoCallFacts DEF Ends, Rest, diskVars, Calling
  <2>2. result'.status \in Success => Settled
    BY <1>4, EndSettled
  <2> QED BY <1>1, <2>1, <2>2, SameOrder
<1> QED BY <1>2, <1>3, <1>4

-------------------------------------------------------------------------------
(* What is to be done for the call in progress.                            *)

LEMMA SameData ==
    ASSUME DataInv, ToSet(atou') \subseteq ToSet(atou),
           host'.pc = "collect" => host.pc = "collect" /\ host' = host,
           Calling' => \/ \A m \in Pending : m.id # Current'
                       \/ /\ Calling /\ Current' = Current /\ client'.n = client.n
                          /\ client'.parts = client.parts /\ client'.part = client.part
                          /\ client'.h = client.h
    PROVE  DataInv'
<1>1. Pending' \subseteq Pending
  BY DEF Pending
<1>2. ASSUME Calling', NEW m \in Pending', m.id = Current'
      PROVE  Carries(m)' /\ (m.lead => m.h = client'.h)
  <2>1. m \in Pending
    BY <1>1
  <2>2. /\ Calling /\ Current' = Current /\ client'.n = client.n
        /\ client'.parts = client.parts /\ client'.part = client.part /\ client'.h = client.h
    BY <1>2, <2>1
  <2>3. Carries(m) /\ (m.lead => m.h = client.h)
    BY <1>2, <2>1, <2>2 DEF DataInv
  <2> QED BY <2>2, <2>3 DEF Carries
<1>3. \A m \in ToSet(atou') : m.op = "write" => Len(m.data) = 1
  BY DEF DataInv
<1>4. host'.pc = "collect" => Len(host'.buf) < host'.job.total
  BY DEF DataInv
<1> QED BY <1>2, <1>3, <1>4 DEF DataInv

LEMMA SendData ==
    ASSUME SmoothState, Sends
    PROVE  DataInv'
<1> DEFINE m == Head(client.todo)
<1>1. /\ CallInv /\ DataInv /\ Calling /\ SameCall /\ client'.part = client.part
      /\ m \in ToSet(client.todo) /\ ToSet(atou') = ToSet(atou) \cup {m} /\ host' = host
  BY DEF SmoothState, Sends, Calling
<1>2. /\ Current' = Current /\ client'.n = client.n /\ client'.parts = client.parts
      /\ client'.h = client.h
  BY <1>1 DEF SameCall, Current
<1> HIDE DEF m
<1>3. Carries(m) /\ (m.lead => m.h = client.h)
  BY <1>1 DEF CallInv, TodoInv, ToSet
<1>4. Pending' = Pending \cup {m}
  BY <1>1 DEF Pending
<1>5. ASSUME NEW k \in Pending', k.id = Current'
      PROVE  Carries(k)' /\ (k.lead => k.h = client'.h)
  <2>1. Carries(k) /\ (k.lead => k.h = client.h)
    BY <1>1, <1>2, <1>3, <1>4, <1>5 DEF DataInv
  <2> QED BY <1>1, <1>2, <2>1 DEF Carries
<1>6. \A k \in ToSet(atou') : k.op = "write" => Len(k.data) = 1
  BY <1>1, <1>3 DEF DataInv, Carries
<1> QED BY <1>1, <1>5, <1>6 DEF DataInv

LEMMA NewCurrent ==
    ASSUME SmoothState, TypeOK', Begins \/ NextPart
    PROVE  /\ effects' = effects /\ effects[Current'] = 0
           /\ \A x \in Commands \cup Answers : x.id # Current'
<1>1. TypeOK /\ CallInv /\ TagInv /\ PartInv /\ effects' = effects
  BY DEF SmoothState, Begins, NextPart, Rest, diskVars
<1>2. CASE Begins
  <2>1. Current' = <<calls + 1, 1>> /\ calls + 1 \in 1 .. MaxCalls
    BY <1>1, <1>2, BoundAssumption DEF Begins, Current, TypeOK, ClientType
  <2>2. Current' \in Ids /\ Current'[1] = calls + 1
    BY <2>1 DEF Ids
  <2> QED BY <1>1, <1>2, <2>2, BeginOrder, NewRequest
<1>3. CASE NextPart
  <2>1. Calling /\ client.part = 1 /\ Current' = <<client.id, 2>>
    BY <1>3 DEF NextPart, SameCall, Current, Calling
  <2>2. Current'[1] = client.id /\ Current'[2] = 2
    BY <2>1
  <2> QED BY <1>1, <2>1, <2>2 DEF PartInv
<1> QED BY <1>2, <1>3

LEMMA PendingCommands ==
    Pending \subseteq Commands
BY DEF Pending, Commands, Working

LEMMA ClientData ==
    ASSUME SmoothState, TypeOK',
           Begins \/ Unavailable \/ Drops \/ Proceeds \/ NextPart \/ Ends
    PROVE  DataInv'
<1>1. DataInv
  BY DEF SmoothState
<1>2. atou' = atou /\ host' = host
  BY DEF Begins, Unavailable, Drops, Proceeds, NextPart, Ends, Rest
<1>3. CASE Begins \/ NextPart
  BY <1>1, <1>2, <1>3, NewCurrent, PendingCommands, SameData
<1>4. CASE Unavailable \/ Drops \/ Proceeds \/ Ends
  <2>1. Calling' => /\ Calling /\ Current' = Current /\ client'.n = client.n
                    /\ client'.parts = client.parts /\ client'.part = client.part
                    /\ client'.h = client.h
    BY <1>4, NoCallFacts
       DEF Unavailable, Drops, Proceeds, Ends, clientVars, SameCall, Calling, Current
  <2> QED BY <1>1, <1>2, <2>1, SameData
<1> QED BY <1>3, <1>4

LEMMA WorkPending ==
    ASSUME SmoothState, NEW m, Works(m)
    PROVE  m \in Pending /\ Pending' \subseteq Pending
<1>1. TypeOK /\ atou # <<>> /\ atou' = Tail(atou)
  BY DEF SmoothState, Works
<1>2. m \in Pending
  BY <1>1, HeadFacts DEF Works, Pending
<1>3. ToSet(atou') \subseteq ToSet(atou)
  BY <1>1, HeadFacts
<1>4. host'.pc = "collect" => host'.job = m
  BY WorkJob
<1> QED BY <1>2, <1>3, <1>4 DEF Pending

LEMMA WorkData ==
    ASSUME SmoothState, NEW m, Works(m)
    PROVE  DataInv'
<1>1. TypeOK /\ DataInv /\ atou # <<>> /\ atou' = Tail(atou)
  BY DEF SmoothState, Works
<1>2. /\ client' = client /\ Current' = Current /\ (Calling' <=> Calling)
      /\ host'.pc = "collect" => host'.job = m
  BY WorkJob
<1>3. \A k \in ToSet(atou') : k.op = "write" => Len(k.data) = 1
  BY <1>1, HeadFacts DEF DataInv
<1>4. host'.pc = "collect" => Len(host'.buf) < host'.job.total
  BY <1>2 DEF Works, Refuses, Executes, Replying
<1>5. \A k \in Pending' : Calling' /\ k.id = Current' =>
                             Carries(k)' /\ (k.lead => k.h = client'.h)
  BY <1>1, <1>2, WorkPending DEF DataInv, Carries
<1> QED BY <1>3, <1>4, <1>5 DEF DataInv

-------------------------------------------------------------------------------
(* Where the handles stand.                                                *)

LEMMA KnownOpen ==
    ASSUME SmoothState, NEW h, Known(h)
    PROVE  /\ h \in DOMAIN held /\ h \in DOMAIN table /\ table[h].ino = held[h].ino
           /\ held[h].exp \in Nat /\ Stands(h) /\ table[h].pos \in Nat
<1>1. h \in DOMAIN held /\ ~(client.op = "close" /\ client.h = h)
  BY DEF Known
<1>2. h \in DOMAIN table /\ table[h].ino = held[h].ino
  BY <1>1 DEF SmoothState, HeldHandlesOpen, Smooth, Without
<1>3. held[h].exp \in Nat /\ Stands(h)
  BY <1>1 DEF SmoothState, PosInv
<1>4. table[h].pos \in Nat
  BY <1>2 DEF SmoothState, TypeOK, DiskType, Opens
<1> QED BY <1>1, <1>2, <1>3, <1>4

\* What moves a handle of known position is the call in progress.
LEMMA MoverIsCurrent ==
    ASSUME SmoothState, NEW m \in Pending, Moving(m), Known(m.h)
    PROVE  /\ Calling /\ m.id = Current /\ client.op = m.op /\ client.h = m.h
           /\ Carries(m)
<1>1. Calling /\ m.id = Current
  BY DEF SmoothState, PosInv, Known
<1>2. Carries(m) /\ client.h = m.h
  BY <1>1 DEF SmoothState, DataInv, Moving
<1>3. m.id[1] = client.id
  BY <1>1 DEF Current
<1>4. client.op = m.op
  BY <1>1, <1>3, PendingCommands DEF SmoothState, PartInv
<1> QED BY <1>1, <1>2, <1>4

LEMMA CurrentMessage ==
    ASSUME SmoothState, NEW m \in Pending, m.lead, Calling, m.id[1] = client.id
    PROVE  m.id = Current /\ client.op = m.op /\ client.h = m.h /\ Carries(m)
<1>1. m.id = Current
  BY PairFacts, PendingCommands DEF SmoothState
<1>2. Carries(m) /\ client.h = m.h
  BY <1>1 DEF SmoothState, DataInv
<1>3. client.op = m.op
  BY PendingCommands DEF SmoothState, PartInv
<1> QED BY <1>1, <1>2, <1>3

LEMMA DoneType ==
    ASSUME TypeOK, CallInv, PartInv, Calling, client.op = "write"
    PROVE  /\ Done(1) \in Nat /\ Done(2) \in Nat
           /\ client.part = 1 => Done(2) = 0 /\ effects[<<client.id, 2>>] = 0
           /\ <<client.id, 1>> \in Ids /\ <<client.id, 2>> \in Ids
<1>1. client.part \in DOMAIN client.parts /\ client.parts \in Seq(Nat \ {0})
      /\ client.part \in {1, 2} /\ Len(client.parts) \in {1, 2}
      /\ (client.part = 1 \/ Len(client.parts) = 2)
  BY PartLength, ClientFields DEF TypeOK, ClientType, CallInv, CurrentCall
<1>2. client.parts[1] \in Nat /\ (Len(client.parts) = 2 => client.parts[2] \in Nat)
  <2>1. \A n \in {1, 2} : 1 \in 1 .. n /\ (n = 2 => 2 \in 1 .. n)
    OBVIOUS
  <2>2. 1 \in DOMAIN client.parts /\ (Len(client.parts) = 2 => 2 \in DOMAIN client.parts)
    BY <1>1, <2>1, SeqFacts
  <2> QED BY <1>1, <2>2, SeqFacts
<1>3. client.part = 1 => effects[<<client.id, 2>>] = 0
  BY DEF PartInv
<1>4. Current \in Ids /\ client.id \in 1 .. MaxCalls
  BY CurrentId DEF Ids, Current
<1> QED BY <1>1, <1>2, <1>3, <1>4 DEF Done, Ids

LEMMA WorkStands ==
    ASSUME SmoothState, NEW m, Works(m), Executes(m), NEW h, Known(h), h \in DOMAIN table'
    PROVE  Stands(h)'
<1>1. /\ h \in DOMAIN held /\ h \in DOMAIN table /\ held[h].exp \in Nat /\ Stands(h)
      /\ table[h].pos \in Nat
  BY KnownOpen
<1>2. /\ client' = client /\ held' = held /\ Current' = Current /\ (Calling' <=> Calling)
      /\ \A id \in Ids : effects'[id] # effects[id] =>
            m.id = id /\ Executes(m) /\ effects[id] = 0
  BY WorkJob
<1>3. /\ m \in Pending /\ m.lead /\ effects[m.id] = 0 /\ effects'[m.id] = 1 /\ Placed(m)
      /\ \A id \in Ids : id # m.id => effects'[id] = effects[id]
      /\ m \in Requests /\ m.id \in Ids
  BY WorkPending, RequestType DEF Executes, First, Works
<1>4. CASE m.op \in Movers /\ m.h = h
  <2>1. /\ Calling /\ m.id = Current /\ client.op = m.op /\ client.h = h /\ Carries(m)
    BY <1>3, <1>4, MoverIsCurrent DEF Moving, Movers
  <2>2. effects[Current] = 0 /\ effects'[Current] = 1
    BY <1>3, <2>1
  <2>3. CASE client.op # "write"
    BY <1>2, <1>4, <2>1, <2>2, <2>3 DEF Stands, Movers
  <2>4. CASE client.op = "write"
    <3>1. /\ Done(1) \in Nat /\ Done(2) \in Nat
          /\ client.part = 1 => Done(2) = 0 /\ effects[<<client.id, 2>>] = 0
          /\ <<client.id, 1>> \in Ids /\ <<client.id, 2>> \in Ids
          /\ client.part \in {1, 2} /\ client.parts[client.part] \in Nat
      BY <2>1, <2>4, DoneType, PartLength, CurrentId DEF SmoothState
    <3>2. table[h].pos = held[h].exp + Done(1) + Done(2)
      BY <1>1, <2>1, <2>4 DEF Stands
    <3>3. table'[h].pos = table[h].pos + client.parts[client.part]
      BY <1>3, <1>4, <2>1, <2>4 DEF Placed
    <3>4. CASE client.part = 1
      <4>1. Done(1) = 0 /\ Done(1)' = client.parts[client.part]
        BY <1>2, <2>2, <3>4 DEF Done, Current
      <4>2. effects'[<<client.id, 2>>] = 0
        <5>1. <<client.id, 2>> # m.id
          BY <2>1, <3>4 DEF Current
        <5> QED BY <1>3, <3>1, <3>4, <5>1
      <4>3. Done(2)' = 0
        BY <1>2, <4>2 DEF Done
      <4>4. table'[h].pos = held[h].exp + Done(1)' + Done(2)'
        BY <1>1, <3>1, <3>2, <3>3, <3>4, <4>1, <4>3
      <4> QED BY <1>2, <2>1, <2>4, <4>4 DEF Stands
    <3>5. CASE client.part = 2
      <4>1. Done(2) = 0 /\ Done(2)' = client.parts[client.part]
        BY <1>2, <2>2, <3>5 DEF Done, Current
      <4>2. effects'[<<client.id, 1>>] = effects[<<client.id, 1>>]
        <5>1. <<client.id, 1>> # m.id
          BY <2>1, <3>5 DEF Current
        <5> QED BY <1>3, <3>1, <5>1
      <4>3. Done(1)' = Done(1)
        BY <1>2, <4>2 DEF Done
      <4>4. table'[h].pos = held[h].exp + Done(1)' + Done(2)'
        BY <1>1, <3>1, <3>2, <3>3, <3>5, <4>1, <4>3
      <4> QED BY <1>2, <2>1, <2>4, <4>4 DEF Stands
    <3> QED BY <3>1, <3>4, <3>5
  <2> QED BY <2>3, <2>4
<1>5. CASE ~(m.op \in Movers /\ m.h = h)
  <2>1. table'[h].pos = table[h].pos
    BY <1>1, <1>3, <1>5 DEF Placed
  <2>2. ASSUME Calling, client.h = h, client.op = "write", NEW p \in {1, 2}
        PROVE  Done(p)' = Done(p)
    <3>1. m.id[1] # client.id
      BY <1>3, <1>5, <2>2, CurrentMessage DEF Movers
    <3>2. <<client.id, p>> \in Ids /\ m.id # <<client.id, p>>
      BY <2>2, <3>1, DoneType DEF SmoothState
    <3> QED BY <1>2, <1>3, <3>2 DEF Done
  <2>3. Calling /\ effects'[Current] = 0 => effects[Current] = 0
    <3>1. Calling => Current \in Ids
      BY CurrentId DEF SmoothState
    <3> QED BY <1>2, <3>1
  <2> QED BY <1>1, <1>2, <2>1, <2>2, <2>3 DEF Stands
<1> QED BY <1>4, <1>5

LEMMA WorkPos ==
    ASSUME SmoothState, HeldHandlesOpen', Smooth', NEW m, Works(m)
    PROVE  PosInv'
<1>1. /\ TypeOK /\ CallInv /\ PartInv /\ OrderInv /\ PosInv /\ TellsInv
      /\ "dropped" \notin events
  BY DEF SmoothState, Smooth, Without
<1>2. /\ client' = client /\ held' = held /\ Current' = Current /\ (Calling' <=> Calling)
      /\ \A id \in Ids : effects'[id] # effects[id] =>
            m.id = id /\ Executes(m) /\ effects[id] = 0
  BY WorkJob
<1>3. m \in Pending /\ Pending' \subseteq Pending /\ m \in Commands
  BY WorkPending, PendingCommands
<1>4. UNCHANGED diskVars \/ Executes(m)
  BY DEF Works, Stay, Stays, Refuses
<1>5. ASSUME NEW h \in DOMAIN held, Known(h)
      PROVE  Stands(h)'
  <2>1. CASE UNCHANGED diskVars
    <3>1. table' = table /\ effects' = effects
      BY <2>1 DEF diskVars
    <3>2. Stands(h)
      BY <1>1, <1>5 DEF PosInv
    <3> QED BY <1>2, <3>1, <3>2 DEF Stands, Done
  <2>2. CASE Executes(m)
    <3>1. h \in DOMAIN table'
      BY <1>2, <1>5 DEF HeldHandlesOpen, Smooth, Without, Known
    <3> QED BY <1>5, <2>2, <3>1, WorkStands
  <2> QED BY <1>4, <2>1, <2>2
<1>6. \A h \in DOMAIN held' : Known(h)' =>
        /\ held'[h].exp \in Nat /\ Stands(h)'
        /\ \A k \in Pending' : Moving(k) /\ k.h = h => Calling' /\ k.id = Current'
  BY <1>1, <1>2, <1>3, <1>5 DEF PosInv, Known
<1>7. ASSUME Calling, effects'[Current] # 0
      PROVE  (UNCHANGED diskVars /\ effects[Current] # 0) \/ (Executes(m) /\ m.id = Current)
  <2>1. Current \in Ids
    BY <1>1, <1>7, CurrentId
  <2>2. CASE effects[Current] # 0
    <3>1. Settled
      BY <1>1, <1>7, <2>2 DEF OrderInv
    <3> QED BY <2>2, <3>1, SettledStays DEF Refuses
  <2>3. CASE effects[Current] = 0
    BY <1>2, <1>7, <2>1, <2>3
  <2> QED BY <2>2, <2>3
<1>8. ASSUME client.op = "seek", client.h \in DOMAIN held, effects'[Current] # 0
      PROVE  table'[client.h].pos = 0
  <2>1. Calling
    BY <1>1, <1>8 DEF CallInv, NoCall
  <2>2. CASE UNCHANGED diskVars /\ effects[Current] # 0
    BY <1>1, <1>8, <2>2 DEF PosInv, diskVars
  <2>3. CASE Executes(m) /\ m.id = Current
    <3>1. m.lead /\ m.id[1] = client.id
      BY <2>3 DEF Executes, Current
    <3>2. client.op = m.op /\ client.h = m.h
      BY <1>3, <2>1, <3>1, CurrentMessage
    <3> QED BY <1>8, <2>3, <3>2 DEF Executes, Placed
  <2> QED BY <1>7, <1>8, <2>1, <2>2, <2>3
<1>9. ASSUME client.op = "open", NEW r \in Answers', r.id = Current, r.status = "OK"
      PROVE  table'[r.h].pos = 0
  <2>1. Calling
    BY <1>1, <1>9 DEF CallInv, NoCall
  <2>2. CASE r \in ToSet(utoa)
    <3>1. r \in Answers /\ effects[Current] = 1
      BY <1>1, <1>9, <2>2 DEF Answers, TellsInv, Tells, Success
    <3>2. table[r.h].pos = 0
      BY <1>1, <1>9, <3>1 DEF PosInv
    <3>3. Settled
      BY <1>1, <2>1, <3>1 DEF OrderInv
    <3>4. UNCHANGED diskVars
      BY <3>3, SettledStays DEF Refuses
    <3> QED BY <3>2, <3>4 DEF diskVars
  <2>3. CASE r \in ToSet(host'.out) /\ Replying'
    <3>1. Executes(m) /\ m.id = Current
      BY <1>9, <2>3 DEF Works, Stay, Stays, Refuses, Executes, Replying, HostErrors
    <3>2. m.op = "open"
      <4>1. m.lead /\ m.id[1] = client.id
        BY <3>1 DEF Executes, Current
      <4> QED BY <1>3, <1>9, <2>1, <4>1, CurrentMessage
    <3> QED BY <2>3, <3>1, <3>2 DEF Executes, Placed
  <2> QED BY <1>9, <2>2, <2>3 DEF Answers, Works
<1> QED BY <1>2, <1>6, <1>8, <1>9 DEF PosInv

-------------------------------------------------------------------------------
(* Where the handles stand after a step of the program or the library.     *)

LEMMA SamePos ==
    ASSUME PosInv, held' = held, table' = table, effects' = effects,
           client'.op = client.op, client'.h = client.h, client'.id = client.id,
           client'.part = client.part, client'.parts = client.parts,
           Calling' <=> Calling, Answers' \subseteq Answers,
           \A m \in Pending' : m \in Pending \/ (Calling /\ m.id = Current)
    PROVE  PosInv'
<1>1. Current' = Current
  BY DEF Current
<1>2. ASSUME NEW h \in DOMAIN held, Known(h)'
      PROVE  /\ held'[h].exp \in Nat /\ Stands(h)'
             /\ \A m \in Pending' : Moving(m) /\ m.h = h => Calling' /\ m.id = Current'
  <2>1. Known(h)
    BY <1>2 DEF Known
  <2>2. /\ held[h].exp \in Nat /\ Stands(h)
        /\ \A m \in Pending : Moving(m) /\ m.h = h => Calling /\ m.id = Current
    BY <2>1 DEF PosInv
  <2>3. Stands(h)'
    <3>1. Done(1)' = Done(1) /\ Done(2)' = Done(2)
      BY DEF Done
    <3> QED BY <1>1, <2>2, <3>1 DEF Stands
  <2> QED BY <1>1, <2>2, <2>3
<1>3. client'.op = "seek" /\ client'.h \in DOMAIN held' /\ effects'[Current'] # 0 =>
         table'[client'.h].pos = 0
  BY <1>1 DEF PosInv
<1>4. client'.op = "open" =>
         \A r \in Answers' : r.id = Current' /\ r.status = "OK" => table'[r.h].pos = 0
  BY <1>1 DEF PosInv
<1> QED BY <1>2, <1>3, <1>4 DEF PosInv

LEMMA BeginPos ==
    ASSUME SmoothState, TypeOK', Begins
    PROVE  PosInv'
<1>1. /\ TypeOK /\ CallInv /\ PartInv /\ PosInv /\ ~Calling /\ client = NoCall /\ client.op = "none"
  BY NoCallFacts DEF SmoothState, Begins, Calling, CallInv
<1>2. /\ held' = held /\ table' = table /\ effects' = effects /\ host' = host /\ atou' = atou
      /\ utoa' = utoa /\ client'.id = calls + 1 /\ Calling' /\ calls' = calls + 1
  BY DEF Begins, diskVars, Calling
<1>3. /\ effects[Current'] = 0 /\ \A x \in Commands \cup Answers : x.id # Current'
  BY NewCurrent
<1>4. Pending' = Pending /\ Answers' = Answers
  BY <1>2 DEF Pending, Answers, Replying
<1>5. effects[<<calls + 1, 1>>] = 0 /\ effects[<<calls + 1, 2>>] = 0
  <2>1. calls \in Nat /\ calls + 1 \in 1 .. MaxCalls
    BY <1>1, <1>2 DEF TypeOK, ClientType
  <2>2. <<calls + 1, 1>> \in Ids /\ <<calls + 1, 2>> \in Ids /\ calls + 1 > calls
    BY <2>1 DEF Ids
  <2> QED BY <1>1, <2>2 DEF PartInv
<1>6. Done(1)' = 0 /\ Done(2)' = 0
  BY <1>2, <1>5 DEF Done
<1>7. ASSUME NEW h \in DOMAIN held, Known(h)'
      PROVE  /\ held'[h].exp \in Nat /\ Stands(h)'
             /\ \A m \in Pending' : Moving(m) /\ m.h = h => Calling' /\ m.id = Current'
  <2>1. Known(h)
    BY <1>1, <1>2, <1>7 DEF Known
  <2>2. /\ held[h].exp \in Nat /\ Stands(h)
        /\ \A m \in Pending : ~(Moving(m) /\ m.h = h)
    BY <1>1, <2>1 DEF PosInv
  <2>3. table[h].pos = held[h].exp
    BY <1>1, <2>2 DEF Stands
  <2>4. held[h].exp = held[h].exp + Done(1)' + Done(2)'
    BY <1>6, <2>2
  <2>5. Stands(h)'
    BY <1>2, <2>3, <2>4 DEF Stands
  <2> QED BY <1>2, <1>4, <2>2, <2>5
<1> QED BY <1>2, <1>3, <1>4, <1>7 DEF PosInv

LEMMA NextPos ==
    ASSUME SmoothState, NextPart
    PROVE  PosInv'
<1>1. /\ TypeOK /\ CallInv /\ TagInv /\ PartInv /\ Quiet /\ TellsInv /\ OrderInv /\ PosInv
      /\ "dropped" \notin events
  BY DEF SmoothState, Smooth, Without
<1>2. /\ held' = held /\ table' = table /\ effects' = effects /\ host' = host /\ atou' = atou
      /\ SameCall /\ client.op = "write" /\ Calling /\ Calling' /\ utoa # <<>>
      /\ Head(utoa).tag = client.tag /\ Head(utoa).status = "OK"
  BY DEF NextPart, Rest, diskVars, SameCall, Calling, Taken
<1>3. Settled
  <2>1. Head(utoa) \in Answers /\ Head(utoa).id = Current
    BY <1>1, <1>2, MineAnswer
  <2>2. effects[Current] = 1
    BY <1>1, <1>2, <2>1 DEF TellsInv, Tells, Success
  <2> QED BY <1>1, <1>2, <2>2 DEF OrderInv
<1>4. \A m \in Pending' : ~Moving(m)
  BY <1>2, <1>3 DEF Pending, Settled, Moving
<1>5. ASSUME NEW h \in DOMAIN held, Known(h)'
      PROVE  held'[h].exp \in Nat /\ Stands(h)'
  <2>1. Known(h)
    BY <1>2, <1>5 DEF Known, SameCall
  <2>2. held[h].exp \in Nat /\ Stands(h)
    BY <1>1, <2>1 DEF PosInv
  <2>3. Done(1)' = Done(1) /\ Done(2)' = Done(2)
    BY <1>2 DEF Done, SameCall
  <2>4. client'.op = client.op /\ client'.h = client.h
    BY <1>2 DEF SameCall
  <2>5. Stands(h)'
    BY <1>2, <2>2, <2>3, <2>4 DEF Stands
  <2> QED BY <1>2, <2>2, <2>5
<1>6. client'.op = "write"
  BY <1>2 DEF SameCall
<1> QED BY <1>2, <1>4, <1>5, <1>6 DEF PosInv

LEMMA GoesOnPos ==
    ASSUME SmoothState, Unavailable \/ Sends \/ Drops \/ Proceeds
    PROVE  PosInv'
<1>1. TypeOK /\ CallInv /\ PosInv
  BY DEF SmoothState
<1>2. /\ Answers' \subseteq Answers /\ held' = held /\ table' = table /\ effects' = effects
      /\ host' = host
  <2>1. /\ Answers' \subseteq Answers /\ UNCHANGED <<svc, host, diskVars>>
    BY <1>1, ClientFlow DEF ClientStep
  <2> QED BY <2>1 DEF Unavailable, Sends, Drops, Proceeds, clientVars, diskVars
<1>3. /\ client'.op = client.op /\ client'.h = client.h /\ client'.id = client.id
      /\ client'.part = client.part /\ client'.parts = client.parts /\ (Calling' <=> Calling)
  BY DEF Unavailable, Sends, Drops, Proceeds, SameCall, Calling, clientVars
<1>4. CASE Sends
  <2>1. /\ ToSet(atou') = ToSet(atou) \cup {Head(client.todo)} /\ Calling
        /\ Head(client.todo) \in ToSet(client.todo)
    BY <1>4 DEF Sends, Calling
  <2>2. Head(client.todo).id = Current
    BY <1>1, <2>1 DEF CallInv, TodoInv, ToSet
  <2>3. \A m \in Pending' : m \in Pending \/ (Calling /\ m.id = Current)
    BY <1>2, <2>1, <2>2 DEF Pending
  <2> QED BY <1>1, <1>2, <1>3, <2>3, SamePos
<1>5. CASE ~Sends
  <2>1. Pending' = Pending
    BY <1>2, <1>5 DEF Unavailable, Drops, Proceeds, Rest, Pending
  <2> QED BY <1>1, <1>2, <1>3, <2>1, SamePos
<1> QED BY <1>4, <1>5

\* What a handle of the program becomes when a call ends.
EndsAs(k, status, data, h) ==
    \/ client.op = "open" /\ status = "OK" /\ k = h /\ held'[k].exp = 0
    \/ /\ k \in DOMAIN held /\ held'[k] = held[k]
       /\ k # client.h \/ client.op \notin Movers \cup {"close"}
    \/ k \in DOMAIN held /\ k = client.h /\ held'[k].exp = Unknown
    \/ /\ k \in DOMAIN held /\ k = client.h /\ client.op = "read" /\ status \in Success
       /\ held[k].exp # Unknown /\ held'[k].exp = held[k].exp + Len(data)
    \/ /\ k \in DOMAIN held /\ k = client.h /\ client.op = "write" /\ status = "OK"
       /\ held[k].exp # Unknown /\ held'[k].exp = held[k].exp + Written(client)
    \/ /\ k \in DOMAIN held /\ k = client.h /\ client.op = "seek" /\ status = "OK"
       /\ held'[k].exp = 0

LEMMA EndHeld ==
    ASSUME TypeOK, NEW status, NEW data, NEW h, NEW ino, NEW mine,
           Return(status, data, h, ino, mine), NEW k \in DOMAIN held'
    PROVE  EndsAs(k, status, data, h)
<1>1. held' = CASE client.op = "open" /\ status = "OK" ->
                         [j \in DOMAIN held \cup {h} |->
                            IF j = h THEN [ino |-> ino, exp |-> 0] ELSE held[j]]
                    [] client.op = "close" -> Dropping(client.h)
                    [] client.op = "read" ->
                         IF status \in Success THEN Advance(client.h, Len(data))
                         ELSE Expect(client.h, Unknown)
                    [] client.op = "write" ->
                         IF status = "OK" THEN Advance(client.h, Written(client))
                         ELSE Expect(client.h, Unknown)
                    [] client.op = "seek" ->
                         Expect(client.h, IF status = "OK" THEN 0 ELSE Unknown)
                    [] OTHER -> held
  BY DEF Return
<1>2. \A j \in DOMAIN held : held[j] \in [ino : Nat, exp : Int]
  BY DEF TypeOK, ClientType
<1>3. ASSUME NEW p, held' = Expect(client.h, p)
      PROVE  /\ k \in DOMAIN held /\ (k # client.h => held'[k] = held[k])
             /\ k = client.h => held'[k].exp = p
  <2>1. held' = [j \in DOMAIN held |->
                   IF j = client.h THEN [held[j] EXCEPT !.exp = p] ELSE held[j]]
    BY <1>3 DEF Expect
  <2>2. k \in DOMAIN held /\ (k # client.h => held'[k] = held[k])
    BY <2>1
  <2>3. ASSUME k = client.h
        PROVE  held'[k].exp = p
    <3>1. held'[k] = [held[k] EXCEPT !.exp = p]
      BY <2>1, <2>2, <2>3
    <3> QED BY <1>2, <2>2, <3>1
  <2> QED BY <2>2, <2>3
<1>4. ASSUME NEW n, held' = Advance(client.h, n)
      PROVE  /\ k \in DOMAIN held /\ (k # client.h => held'[k] = held[k])
             /\ k = client.h => held'[k].exp = IF held[k].exp = Unknown THEN Unknown
                                               ELSE held[k].exp + n
  BY <1>3, <1>4 DEF Advance
<1>5. CASE client.op = "open" /\ status = "OK"
  BY <1>1, <1>5 DEF EndsAs, Movers
<1>6. CASE client.op = "close"
  BY <1>1, <1>6 DEF EndsAs, Dropping
<1>7. CASE client.op = "read"
  <2>1. CASE status \in Success
    <3>1. held' = Advance(client.h, Len(data))
      BY <1>1, <1>7, <2>1
    <3> QED BY <1>4, <1>7, <2>1, <3>1 DEF EndsAs
  <2>2. CASE status \notin Success
    <3>1. held' = Expect(client.h, Unknown)
      BY <1>1, <1>7, <2>2
    <3> QED BY <1>3, <1>7, <3>1 DEF EndsAs
  <2> QED BY <2>1, <2>2
<1>8. CASE client.op = "write"
  <2>1. CASE status = "OK"
    <3>1. held' = Advance(client.h, Written(client))
      BY <1>1, <1>8, <2>1
    <3> QED BY <1>4, <1>8, <2>1, <3>1 DEF EndsAs
  <2>2. CASE status # "OK"
    <3>1. held' = Expect(client.h, Unknown)
      BY <1>1, <1>8, <2>2
    <3> QED BY <1>3, <1>8, <3>1 DEF EndsAs
  <2> QED BY <2>1, <2>2
<1>9. CASE client.op = "seek"
  <2>1. held' = Expect(client.h, IF status = "OK" THEN 0 ELSE Unknown)
    BY <1>1, <1>9
  <2> QED BY <1>3, <1>9, <2>1 DEF EndsAs
<1>10. CASE /\ client.op \notin {"close", "read", "write", "seek"}
            /\ ~(client.op = "open" /\ status = "OK")
  <2>1. held' = held
    BY <1>1, <1>10
  <2> QED BY <1>10, <2>1 DEF EndsAs, Movers
<1> QED BY <1>5, <1>6, <1>7, <1>8, <1>9, <1>10

\* All parts of a write were carried out.
LEMMA AllDone ==
    ASSUME SmoothState, Calling, client.op = "write", effects[Current] = 1,
           client.part = Len(client.parts)
    PROVE  Written(client) = Done(1) + Done(2)
<1>1. /\ TypeOK /\ CallInv /\ PartInv /\ "dropped" \notin events
      /\ Len(client.parts) \in {1, 2}
  BY DEF SmoothState, Smooth, Without, CallInv, CurrentCall
<1>2. /\ client.part = 1 => Done(2) = 0
      /\ client.parts[client.part] \in Nat
  BY <1>1, DoneType, PartLength
<1>3. CASE client.part = 1
  <2>1. Done(1) = client.parts[1]
    BY <1>3 DEF Done, Current
  <2>2. Written(client) = client.parts[1] + 0
    BY <1>3 DEF Written
  <2> QED BY <1>2, <1>3, <2>1, <2>2
<1>4. CASE client.part = 2
  <2>1. effects[<<client.id, 1>>] = 1 /\ effects[<<client.id, 2>>] = 1
    BY <1>1, <1>4 DEF PartInv, Current
  <2>2. Done(1) = client.parts[1] /\ Done(2) = client.parts[2]
    BY <2>1 DEF Done
  <2>3. Written(client) = client.parts[1] + client.parts[2]
    BY <1>4 DEF Written
  <2> QED BY <2>2, <2>3
<1> QED BY <1>1, <1>3, <1>4

LEMMA EndPos ==
    ASSUME SmoothState, Ends, NEW status, NEW data, NEW h, NEW ino, NEW mine,
           Return(status, data, h, ino, mine),
           client.op = "open" /\ status = "OK" => h = Head(utoa).h /\ Head(utoa).status = "OK",
           client.op = "read" /\ status \in Success /\ Known(client.h) => Len(data) = Count
    PROVE  PosInv'
<1>1. /\ TypeOK /\ CallInv /\ PartInv /\ PosInv /\ Calling
  BY DEF SmoothState, Ends
<1>2. /\ table' = table /\ host' = host /\ atou' = atou /\ result'.status = status
      /\ client' = NoCall /\ ~Calling' /\ client'.op = "none"
  BY NoCallFacts DEF Ends, Rest, diskVars, Return, Calling
<1>3. Pending' = Pending
  BY <1>2 DEF Pending
<1>4. status \in Success =>
         /\ effects[Current] = 1 /\ Repeats(Head(utoa)) /\ Head(utoa) \in Answers
         /\ Head(utoa).id = Current /\ \A m \in Pending : ~Moving(m)
  <2>1. Settled => \A m \in Pending : ~Moving(m)
    BY DEF Settled, Pending, Moving
  <2> QED BY <1>2, <2>1, EndSettled
<1>5. ASSUME NEW k \in DOMAIN held', held'[k].exp # Unknown
      PROVE  /\ held'[k].exp \in Nat /\ table[k].pos = held'[k].exp
             /\ \A m \in Pending : ~(Moving(m) /\ m.h = k)
  <2>1. EndsAs(k, status, data, h)
    BY <1>1, EndHeld
  <2>2. CASE client.op = "open" /\ status = "OK" /\ k = h /\ held'[k].exp = 0
    <3>1. status \in Success
      BY <2>2 DEF Success
    <3> QED BY <1>1, <1>4, <2>2, <3>1 DEF PosInv
  <2>3. CASE /\ k \in DOMAIN held /\ held'[k] = held[k]
             /\ k # client.h \/ client.op \notin Movers \cup {"close"}
    <3>1. Known(k)
      BY <1>5, <2>3 DEF Known
    <3>2. held[k].exp \in Nat /\ Stands(k)
      BY <1>1, <2>3, <3>1 DEF PosInv
    <3>3. table[k].pos = held[k].exp
      BY <2>3, <3>2 DEF Stands, Movers
    <3>4. \A m \in Pending : ~(Moving(m) /\ m.h = k)
      BY <2>3, <3>1, MoverIsCurrent DEF Moving, Movers
    <3> QED BY <2>3, <3>2, <3>3, <3>4
  <2>4. CASE /\ k \in DOMAIN held /\ k = client.h /\ client.op = "read" /\ status \in Success
             /\ held[k].exp # Unknown /\ held'[k].exp = held[k].exp + Len(data)
    <3>1. Known(k)
      BY <2>4 DEF Known
    <3>2. held[k].exp \in Nat /\ table[k].pos \in Nat
      BY <3>1, KnownOpen
    <3>3. Len(data) = table[k].pos - held[k].exp
      BY <2>4, <3>1 DEF Count, Start0
    <3>4. held'[k].exp = table[k].pos
      BY <2>4, <3>2, <3>3
    <3> QED BY <1>4, <2>4, <3>2, <3>4
  <2>5. CASE /\ k \in DOMAIN held /\ k = client.h /\ client.op = "write" /\ status = "OK"
             /\ held[k].exp # Unknown /\ held'[k].exp = held[k].exp + Written(client)
    <3>1. Known(k) /\ status \in Success
      BY <2>5 DEF Known, Success
    <3>2. held[k].exp \in Nat /\ table[k].pos \in Nat /\ Stands(k)
      BY <3>1, KnownOpen
    <3>3. client.part = Len(client.parts)
      BY <1>2, <1>4, <2>5, <3>1 DEF Repeats
    <3>4. Written(client) = Done(1) + Done(2) /\ Done(1) \in Nat /\ Done(2) \in Nat
      BY <1>1, <1>4, <2>5, <3>1, <3>3, AllDone, DoneType
    <3>5. table[k].pos = held[k].exp + Done(1) + Done(2)
      BY <1>1, <2>5, <3>2 DEF Stands
    <3>6. held'[k].exp = table[k].pos
      BY <2>5, <3>2, <3>4, <3>5
    <3> QED BY <1>4, <3>1, <3>2, <3>6
  <2>6. CASE /\ k \in DOMAIN held /\ k = client.h /\ client.op = "seek" /\ status = "OK"
             /\ held'[k].exp = 0
    <3>1. status \in Success
      BY <2>6 DEF Success
    <3> QED BY <1>1, <1>4, <2>6, <3>1 DEF PosInv
  <2> QED BY <1>5, <2>1, <2>2, <2>3, <2>4, <2>5, <2>6 DEF EndsAs
<1>6. ASSUME NEW k \in DOMAIN held', Known(k)'
      PROVE  /\ held'[k].exp \in Nat /\ Stands(k)'
             /\ \A m \in Pending' : Moving(m) /\ m.h = k => Calling' /\ m.id = Current'
  BY <1>2, <1>3, <1>5, <1>6 DEF Known, Stands
<1> QED BY <1>2, <1>6 DEF PosInv
-------------------------------------------------------------------------------
(* The answer to a read, on its way to the program.                        *)

LEMMA PlaceFacts ==
    ASSUME TypeOK, Count \in Nat
    PROVE  /\ Len(utoa) \in Nat /\ DOMAIN utoa = 1 .. Len(utoa)
           /\ Len(host.out) \in Nat /\ DOMAIN host.out = 1 .. Len(host.out)
           /\ Total \in Nat \ {0} /\ (Count = 0 <=> Total # Count)
           /\ \A i \in Int : PlaceIn(i) = Total - Len(host.out) - Len(utoa) + i
           /\ \A i \in Int : PlaceOut(i) = Total - Len(host.out) + i
           /\ \A i \in Int : PlaceIn(i) \in Int /\ PlaceOut(i) \in Int
<1>1. utoa \in Seq(Replies) /\ host.out \in Seq(Replies)
  BY DEF TypeOK, HostType
<1>2. /\ Len(utoa) \in Nat /\ DOMAIN utoa = 1 .. Len(utoa)
      /\ Len(host.out) \in Nat /\ DOMAIN host.out = 1 .. Len(host.out)
  BY <1>1, SeqFacts
<1>3. Total \in Nat \ {0} /\ (Count = 0 <=> Total # Count)
  BY DEF Total
<1>4. /\ \A i \in Int : PlaceIn(i) = Total - Len(host.out) - Len(utoa) + i
      /\ \A i \in Int : PlaceOut(i) = Total - Len(host.out) + i
  BY DEF PlaceIn, PlaceOut
<1>5. PICK t, l, u : t = Total /\ l = Len(host.out) /\ u = Len(utoa)
  OBVIOUS
<1>6. t \in Nat /\ l \in Nat /\ u \in Nat
  BY <1>2, <1>3, <1>5
<1>7. \A i \in Int : t - l - u + i \in Int /\ t - l + i \in Int
  BY <1>6
<1>8. \A i \in Int : PlaceIn(i) \in Int /\ PlaceOut(i) \in Int
  BY <1>4, <1>5, <1>7
<1> QED BY <1>2, <1>3, <1>4, <1>8

LEMMA SameFile ==
    ASSUME held' = held, table' = table, content' = content, client'.h = client.h
    PROVE  Count' = Count /\ File0' = File0 /\ Start0' = Start0 /\ Total' = Total
BY DEF Count, File0, Start0, Total

LEMMA SameRead ==
    ASSUME ReadInv, held' = held, table' = table, content' = content, effects' = effects,
           host' = host, utoa' = utoa, client'.h = client.h, client'.op = client.op,
           client'.n = client.n, Current' = Current,
           client'.pc = "more" => client.pc = "more" /\ client' = client
    PROVE  ReadInv'
<1>1. Count' = Count /\ File0' = File0 /\ Start0' = Start0 /\ Total' = Total
  BY SameFile
<1>2. Reading' <=> Reading
  BY DEF Reading, Known
<1>3. \A i : PlaceIn(i)' = PlaceIn(i) /\ PlaceOut(i)' = PlaceOut(i)
  BY <1>1 DEF PlaceIn, PlaceOut
<1>4. OnItsWay => OnItsWay'
  BY <1>1, <1>3 DEF OnItsWay
<1>5. \A k : Beyond(k) => Beyond(k)'
  BY <1>3 DEF Beyond
<1>6. client' = client => \A k : Gathered(k) => Gathered(k)'
  BY <1>1, <1>5 DEF Gathered
<1>7. ~Replying' => host'.out = <<>>
  BY DEF ReadInv, Replying
<1>8. client'.pc = "more" => effects'[Current'] # 0
  BY DEF ReadInv
<1>9. ASSUME Reading', client'.pc = "more", client'.want # Garbage
      PROVE  Gathered(Len(client.got))'
  <2>1. client' = client /\ client.pc = "more" /\ Reading /\ client.want # Garbage
    BY <1>2, <1>9
  <2>2. Gathered(Len(client.got))
    BY <2>1 DEF ReadInv
  <2>3. PICK k : k = Len(client.got)
    OBVIOUS
  <2>4. Gathered(k)'
    BY <1>6, <2>1, <2>2, <2>3
  <2>5. k = Len(client'.got)
    BY <2>1, <2>3
  <2> QED BY <2>4, <2>5
<1> QED BY <1>2, <1>4, <1>7, <1>8, <1>9 DEF ReadInv

\* No read has been carried out.
LEMMA NoRead ==
    ASSUME ReadInv, host' = host, client'.pc # "more", client'.op # "read" \/ effects'[Current'] = 0
    PROVE  ReadInv'
BY DEF ReadInv, Reading, Replying

LEMMA WorkRead ==
    ASSUME SmoothState, TypeOK', NEW m, Works(m)
    PROVE  ReadInv'
<1>1. /\ TypeOK /\ CallInv /\ PartInv /\ OrderInv /\ ReadInv /\ atou # <<>> /\ utoa' = utoa
  BY DEF SmoothState, Works
<1>2. /\ client' = client /\ held' = held /\ Current' = Current /\ (Calling' <=> Calling)
      /\ \A id \in Ids : effects'[id] # effects[id] =>
            m.id = id /\ Executes(m) /\ effects[id] = 0
  BY WorkJob
<1>3. ~Replying' => host'.out = <<>>
  BY DEF Works, Refuses, Executes
<1>4. client.op = "read" \/ client.pc = "more" => Calling /\ Current \in Ids
  BY <1>1, CurrentId DEF Calling, CallInv, NoCall
<1>5. client'.pc = "more" => effects'[Current'] # 0
  BY <1>1, <1>2, <1>4 DEF ReadInv
<1>6. ASSUME Reading'
      PROVE  OnItsWay' /\ client.pc # "more"
  <2>1. client.op = "read" /\ Known(client.h) /\ effects'[Current] # 0 /\ Calling
        /\ Current \in Ids
    BY <1>2, <1>4, <1>6 DEF Reading, Known
  <2>2. effects[Current] = 0
    BY <1>1, <2>1 DEF OrderInv
  <2>3. m.id = Current /\ Executes(m)
    BY <1>2, <2>1, <2>2
  <2>4. m \in Pending /\ m.lead /\ m.id[1] = client.id
    BY <2>3, WorkPending DEF Executes, Current
  <2>5. client.op = m.op /\ client.h = m.h /\ m.n = client.n
    BY <2>1, <2>4, CurrentMessage DEF Carries
  <2>6. ReadOut(m) /\ First(m) /\ Replying'
    BY <2>1, <2>3, <2>5 DEF Executes, Placed
  <2>7. /\ m.h \in DOMAIN held /\ table[m.h].ino = held[m.h].ino
        /\ table[m.h].pos = held[m.h].exp
    <3>1. m.h \in DOMAIN held /\ table[m.h].ino = held[m.h].ino /\ Stands(m.h)
      BY <2>1, <2>5, KnownOpen
    <3> QED BY <2>1, <2>2, <2>5, <3>1 DEF Stands
  <2>8. /\ Start0' = table[m.h].pos /\ File0' = content[table[m.h].ino]
        /\ Count' = table'[m.h].pos - table[m.h].pos
    BY <1>2, <2>5, <2>6, <2>7 DEF Start0, File0, Count, ReadOut
  <2>9. /\ Count' \in Nat /\ (Count' = client.n \/ table'[m.h].pos >= Len(File0'))
        /\ Len(host'.out) = Total'
    BY <2>5, <2>6, <2>8 DEF ReadOut, Total
  <2>10. \A i \in DOMAIN utoa' : utoa'[i].id # Current
    BY <1>1, <2>3, <2>6 DEF First, Answers, ToSet
  <2>11. \A i \in DOMAIN host'.out :
            PlaceOut(i)' = i /\ (Count' = 0 => i = 1) /\ (Count' # 0 => i \in 1 .. Count')
    <3>1. /\ DOMAIN host'.out = 1 .. Len(host'.out) /\ Total' \in Nat \ {0}
          /\ \A i \in Int : PlaceOut(i)' = Total' - Len(host'.out) + i
      <4>1. host'.out \in Seq(Replies) /\ Count' \in Nat
        BY <2>9 DEF TypeOK, HostType
      <4> QED BY <4>1, SeqFacts DEF Total, PlaceOut
    <3>2. Total' = IF Count' = 0 THEN 1 ELSE Count'
      BY DEF Total
    <3>3. \A t \in Nat \ {0}, c \in Nat : t = (IF c = 0 THEN 1 ELSE c) =>
             \A i \in 1 .. t : t - t + i = i /\ (c = 0 => i = 1) /\ (c # 0 => i \in 1 .. c)
      OBVIOUS
    <3>4. \A i \in 1 .. Total' :
             Total' - Total' + i = i /\ (Count' = 0 => i = 1) /\ (Count' # 0 => i \in 1 .. Count')
      BY <2>9, <3>1, <3>2, <3>3
    <3>5. \A i \in 1 .. Total' : PlaceOut(i)' = Total' - Total' + i
      BY <2>9, <3>1
    <3> QED BY <2>9, <3>1, <3>4, <3>5
  <2>12. \A i \in DOMAIN host'.out :
            Chunk(host'.out[i], i, Count', File0', Start0')
    BY <2>6, <2>8, <2>11 DEF ReadOut, Chunk
  <2>13. \A i \in DOMAIN host'.out :
            Chunk(host'.out[i], PlaceOut(i)', Count', File0', Start0')
    BY <2>11, <2>12
  <2>14. client.pc # "more"
    BY <1>1, <2>2 DEF ReadInv
  <2>15. table'[client'.h].pos = table'[m.h].pos /\ client'.n = client.n /\ Current' = Current
    BY <1>2, <2>5
  <2>16. OnItsWay'
    BY <2>9, <2>10, <2>13, <2>15 DEF OnItsWay
  <2> QED BY <2>14, <2>16
<1> QED BY <1>2, <1>3, <1>5, <1>6 DEF ReadInv
-------------------------------------------------------------------------------
(* A message is taken out of the buffer.                                   *)

LEMMA TakenFacts ==
    ASSUME TypeOK, Taken
    PROVE  /\ Len(utoa') = Len(utoa) - 1 /\ Len(utoa) \in Nat /\ 1 \in DOMAIN utoa
           /\ Head(utoa) = utoa[1] /\ Head(utoa) \in Replies
           /\ \A i \in DOMAIN utoa' : /\ i \in Nat \ {0} /\ i + 1 \in DOMAIN utoa
                                      /\ utoa'[i] = utoa[i + 1]
<1>1. utoa \in Seq(Replies) /\ utoa # <<>> /\ utoa' = Tail(utoa)
  BY DEF TypeOK, Taken
<1>2. Tail(utoa) \in Seq(Replies) /\ Len(utoa) \in Nat
  BY <1>1, TailFacts, SeqFacts
<1>3. DOMAIN utoa' = 1 .. Len(utoa') /\ Len(utoa') \in Nat
  BY <1>1, <1>2, SeqFacts
<1>4. \A i \in DOMAIN utoa' : i \in Nat \ {0}
  BY <1>3
<1>5. /\ Len(utoa') = Len(utoa) - 1 /\ 1 \in DOMAIN utoa /\ Head(utoa) = utoa[1]
      /\ Head(utoa) \in Replies
      /\ \A i \in DOMAIN utoa' : i + 1 \in DOMAIN utoa /\ utoa'[i] = utoa[i + 1]
  BY <1>1, TailFacts
<1> QED BY <1>2, <1>4, <1>5

\* The call in progress and the disk stay as they are.
SameWork ==
    /\ client'.op = client.op /\ client'.h = client.h /\ client'.n = client.n
    /\ Current' = Current /\ held' = held /\ UNCHANGED diskVars

LEMMA SameWorkFacts ==
    ASSUME SameWork
    PROVE  /\ Count' = Count /\ File0' = File0 /\ Start0' = Start0 /\ Total' = Total
           /\ Reading' <=> Reading
<1>1. held' = held /\ table' = table /\ content' = content /\ effects' = effects
  BY DEF SameWork, diskVars
<1>2. Count' = Count /\ File0' = File0 /\ Start0' = Start0 /\ Total' = Total
  BY <1>1, SameFile DEF SameWork
<1> QED BY <1>1, <1>2 DEF SameWork, Reading, Known

LEMMA TakenPlaces ==
    ASSUME TypeOK, Count \in Nat, Taken, SameWork, host' = host
    PROVE  /\ \A i \in DOMAIN utoa' : PlaceIn(i)' = PlaceIn(i + 1) /\ PlaceIn(i + 1) > PlaceIn(1)
           /\ \A i \in DOMAIN host.out : PlaceOut(i)' = PlaceOut(i) /\ PlaceOut(i) > PlaceIn(1)
           /\ PlaceIn(1) \in Int
<1>1. /\ Len(utoa) \in Nat /\ Len(host.out) \in Nat /\ DOMAIN host.out = 1 .. Len(host.out)
      /\ Total \in Nat /\ Total' = Total
      /\ \A i \in Int : PlaceIn(i) = Total - Len(host.out) - Len(utoa) + i
      /\ \A i \in Int : PlaceOut(i) = Total - Len(host.out) + i
  BY PlaceFacts, SameWorkFacts
<1>2. /\ Len(utoa') = Len(utoa) - 1 /\ \A i \in DOMAIN utoa' : i \in Nat \ {0}
      /\ 1 \in DOMAIN utoa
  BY TakenFacts
<1>3. Len(utoa) # 0
  <2>1. utoa \in Seq(Replies)
    BY DEF TypeOK
  <2>2. DOMAIN utoa = 1 .. Len(utoa)
    BY <2>1, SeqFacts
  <2> QED BY <1>2, <2>2
<1>4. PICK t, l, u : t = Total /\ l = Len(host.out) /\ u = Len(utoa)
  OBVIOUS
<1>5. t \in Nat /\ l \in Nat /\ u \in Nat \ {0}
  BY <1>1, <1>3, <1>4
<1>6. /\ \A i \in Int : PlaceIn(i) = t - l - u + i
      /\ \A i \in Int : PlaceOut(i) = t - l + i
  BY <1>1, <1>4
<1>a. /\ \A i \in Int : PlaceIn(i)' = t - l - (u - 1) + i
      /\ \A i \in Int : PlaceOut(i)' = t - l + i
  BY <1>1, <1>2, <1>4 DEF PlaceIn, PlaceOut
<1>7. ASSUME NEW i \in DOMAIN utoa'
      PROVE  PlaceIn(i)' = PlaceIn(i + 1) /\ PlaceIn(i + 1) > PlaceIn(1)
  <2>1. i \in Nat \ {0}
    BY <1>2
  <2>2. PlaceIn(i)' = t - l - (u - 1) + i
    BY <1>a, <2>1
  <2>3. PlaceIn(i + 1) = t - l - u + (i + 1) /\ PlaceIn(1) = t - l - u + 1
    BY <1>6, <2>1
  <2>4. t - l - (u - 1) + i = t - l - u + (i + 1)
    BY <1>5, <2>1
  <2>5. t - l - u + (i + 1) > t - l - u + 1
    BY <1>5, <2>1
  <2> QED BY <2>2, <2>3, <2>4, <2>5, Zenon
<1>8. ASSUME NEW i \in DOMAIN host.out
      PROVE  PlaceOut(i)' = PlaceOut(i) /\ PlaceOut(i) > PlaceIn(1)
  <2>1. i \in Nat \ {0}
    BY <1>1
  <2>2. PlaceOut(i) = t - l + i /\ PlaceIn(1) = t - l - u + 1 /\ PlaceOut(i)' = t - l + i
    BY <1>6, <1>a, <2>1
  <2>3. t - l + i > t - l - u + 1
    BY <1>5, <2>1
  <2> QED BY <2>2, <2>3, Zenon
<1>9. PlaceIn(1) \in Int
  <2>1. PlaceIn(1) = t - l - u + 1
    BY <1>6
  <2> QED BY <1>5, <2>1
<1> QED BY <1>7, <1>8, <1>9

\* What was beyond a place still is, and what is left is beyond what was taken.
LEMMA TakenRead ==
    ASSUME TypeOK, Taken, SameWork, host' = host, OnItsWay
    PROVE  /\ OnItsWay' /\ PlaceIn(1) \in Int
           /\ \A k : Beyond(k) => Beyond(k)'
           /\ \A k \in Int : k <= PlaceIn(1) => Beyond(k)'
           /\ Head(utoa).id = Current =>
                /\ Chunk(Head(utoa), PlaceIn(1), Count, File0, Start0)
                /\ \A k : Beyond(k) => PlaceIn(1) > k
<1>1. Count \in Nat
  BY DEF OnItsWay
<1>2. /\ Count' = Count /\ File0' = File0 /\ Start0' = Start0 /\ Current' = Current
      /\ client'.n = client.n /\ table' = table /\ client'.h = client.h
  BY SameWorkFacts DEF SameWork, diskVars
<1>3. /\ \A i \in DOMAIN utoa' : PlaceIn(i)' = PlaceIn(i + 1) /\ PlaceIn(i + 1) > PlaceIn(1)
      /\ \A i \in DOMAIN host.out : PlaceOut(i)' = PlaceOut(i) /\ PlaceOut(i) > PlaceIn(1)
      /\ PlaceIn(1) \in Int
  BY <1>1, TakenPlaces
<1>4. /\ 1 \in DOMAIN utoa /\ Head(utoa) = utoa[1]
      /\ \A i \in DOMAIN utoa' : i + 1 \in DOMAIN utoa /\ utoa'[i] = utoa[i + 1]
  BY TakenFacts
<1>5. OnItsWay'
  <2>1. \A i \in DOMAIN utoa' : utoa'[i].id = Current =>
          Chunk(utoa'[i], PlaceIn(i)', Count, File0, Start0)
    BY <1>3, <1>4 DEF OnItsWay
  <2>2. \A i \in DOMAIN host'.out : Chunk(host'.out[i], PlaceOut(i)', Count, File0, Start0)
    BY <1>3 DEF OnItsWay
  <2>3. Count' = client'.n \/ table'[client'.h].pos >= Len(File0')
    BY <1>2 DEF OnItsWay
  <2> QED BY <1>1, <1>2, <2>1, <2>2, <2>3 DEF OnItsWay
<1>6. ASSUME NEW k, Beyond(k)
      PROVE  Beyond(k)'
  BY <1>2, <1>3, <1>4, <1>6 DEF Beyond
<1>7. ASSUME NEW k \in Int, k <= PlaceIn(1)
      PROVE  Beyond(k)'
  <2>1. \A i \in DOMAIN utoa' : PlaceIn(i)' > k
    <3> SUFFICES ASSUME NEW i \in DOMAIN utoa' PROVE PlaceIn(i)' > k
      OBVIOUS
    <3>1. PlaceIn(i)' > PlaceIn(1) /\ PlaceIn(i)' \in Int
      <4>1. i \in Nat /\ i + 1 \in Int
        BY TakenFacts
      <4>2. \A j \in Int : PlaceIn(j) \in Int
        BY <1>1, PlaceFacts
      <4>3. PlaceIn(i + 1) \in Int
        BY <4>1, <4>2
      <4> QED BY <1>3, <4>3
    <3> QED BY <1>3, <1>7, <3>1
  <2>2. \A i \in DOMAIN host.out : PlaceOut(i)' > k
    <3> SUFFICES ASSUME NEW i \in DOMAIN host.out PROVE PlaceOut(i)' > k
      OBVIOUS
    <3>1. PlaceOut(i) \in Int
      <4>1. /\ DOMAIN host.out = 1 .. Len(host.out) /\ Len(host.out) \in Nat
            /\ \A j \in Int : PlaceOut(j) \in Int
        BY <1>1, PlaceFacts
      <4>2. i \in Int
        BY <4>1
      <4> QED BY <4>1, <4>2
    <3>2. PlaceOut(i)' > PlaceIn(1) /\ PlaceOut(i)' \in Int
      BY <1>3, <3>1
    <3> QED BY <1>3, <1>7, <3>2
  <2> QED BY <2>1, <2>2 DEF Beyond
<1>8. Head(utoa).id = Current =>
        /\ Chunk(Head(utoa), PlaceIn(1), Count, File0, Start0)
        /\ \A k : Beyond(k) => PlaceIn(1) > k
  BY <1>4 DEF OnItsWay, Beyond
<1> QED BY <1>3, <1>5, <1>6, <1>7, <1>8

LEMMA DropRead ==
    ASSUME SmoothState, Drops
    PROVE  ReadInv'
<1>1. TypeOK /\ ReadInv
  BY DEF SmoothState
<1>2. /\ Taken /\ host' = host /\ client' = client /\ SameWork /\ effects' = effects
      /\ Current' = Current
  BY DEF Drops, Rest, SameWork, clientVars, diskVars, Current
<1>3. ASSUME Reading'
      PROVE  OnItsWay' /\ (client.pc = "more" /\ client.want # Garbage => Gathered(Len(client.got))')
  <2>1. OnItsWay /\ (client.pc = "more" /\ client.want # Garbage => Gathered(Len(client.got)))
    BY <1>1, <1>2, <1>3, SameWorkFacts DEF ReadInv
  <2>2. OnItsWay' /\ \A k : Beyond(k) => Beyond(k)'
    BY <1>1, <1>2, <2>1, TakenRead
  <2>3. PICK k : k = Len(client.got)
    OBVIOUS
  <2>4. Count' = Count /\ File0' = File0 /\ Start0' = Start0
    BY <1>2, SameWorkFacts
  <2>5. Gathered(k) => Gathered(k)'
    BY <1>2, <2>2, <2>4 DEF Gathered
  <2>6. k = Len(client'.got)
    BY <1>2, <2>3
  <2> QED BY <2>1, <2>2, <2>3, <2>5, <2>6
<1>4. (~Replying' => host'.out = <<>>) /\ (client'.pc = "more" => effects'[Current'] # 0)
  BY <1>1, <1>2 DEF ReadInv, Replying
<1> QED BY <1>2, <1>3, <1>4 DEF ReadInv

-------------------------------------------------------------------------------
(* The program takes the messages of the answer to its read.               *)

LEMMA ChunkFacts ==
    ASSUME NEW r \in Replies, NEW x \in Int, NEW n \in Nat, NEW all, NEW p, Chunk(r, x, n, all, p)
    PROVE  /\ r.total = n /\ (r.lead <=> x = 1)
           /\ n = 0 => x = 1 /\ r.data = <<>> /\ Len(r.data) = 0
           /\ n # 0 => x \in 1 .. n /\ r.data = <<all[p + x]>> /\ Len(r.data) = 1
<1>1. \A v : Len(<<v>>) = 1 /\ Len(<<>>) = 0
  OBVIOUS
<1>2. /\ r.total = n /\ (r.lead <=> x = 1)
      /\ n = 0 => x = 1 /\ r.data = <<>>
      /\ n # 0 => x \in 1 .. n /\ r.data = <<all[p + x]>>
  BY DEF Chunk
<1>3. (n = 0 => Len(r.data) = 0) /\ (n # 0 => Len(r.data) = 1)
  BY <1>1, <1>2
<1> QED BY <1>2, <1>3

\* A message that is taken for the read in progress.
Gets == /\ Calling /\ client.op = "read" /\ Taken /\ Head(utoa).tag = client.tag
        /\ Head(utoa).status \in Success

LEMMA GetsFacts ==
    ASSUME SmoothState, Gets
    PROVE  /\ Head(utoa).id = Current /\ effects[Current] = 1
           /\ Known(client.h) =>
                /\ Reading /\ OnItsWay /\ Count \in Nat /\ PlaceIn(1) \in Int
                /\ Chunk(Head(utoa), PlaceIn(1), Count, File0, Start0)
                /\ \A k : Beyond(k) => PlaceIn(1) > k
<1>1. /\ TypeOK /\ CallInv /\ TagInv /\ PartInv /\ Quiet /\ TellsInv /\ ReadInv
      /\ "dropped" \notin events
  BY DEF SmoothState, Smooth, Without
<1>2. /\ Calling /\ utoa # <<>> /\ Head(utoa).tag = client.tag
      /\ Head(utoa).status \in Success /\ client.op = "read"
  BY DEF Gets, Taken
<1>3. Head(utoa) \in Answers /\ Head(utoa).id = Current
  BY <1>1, <1>2, MineAnswer
<1>4. effects[Current] = 1
  BY <1>1, <1>2, <1>3 DEF TellsInv, Tells
<1>5. ASSUME Known(client.h)
      PROVE  /\ Reading /\ OnItsWay /\ Count \in Nat /\ PlaceIn(1) \in Int
             /\ Chunk(Head(utoa), PlaceIn(1), Count, File0, Start0)
             /\ \A k : Beyond(k) => PlaceIn(1) > k
  <2>1. Reading /\ OnItsWay /\ Count \in Nat
    BY <1>1, <1>2, <1>4, <1>5 DEF Reading, ReadInv, OnItsWay
  <2>2. PlaceIn(1) \in Int
    BY <1>1, <2>1, PlaceFacts
  <2>3. 1 \in DOMAIN utoa /\ Head(utoa) = utoa[1]
    BY <1>1, TakenFacts DEF Gets
  <2>4. Chunk(Head(utoa), PlaceIn(1), Count, File0, Start0)
    BY <1>3, <2>1, <2>3 DEF OnItsWay
  <2>5. \A k : Beyond(k) => PlaceIn(1) > k
    BY <1>3, <2>3 DEF Beyond
  <2> QED BY <2>1, <2>2, <2>4, <2>5
<1> QED BY <1>3, <1>4, <1>5

\* What the library has then: one item more.
GotNext == client.got \o (IF Head(utoa).lead THEN <<Junk>> ELSE Head(utoa).data)
OneMore(k) ==
    /\ k \in Nat \ {0} /\ k = Len(client.got) /\ Len(GotNext) = k + 1
    /\ client.want = Count /\ PlaceIn(1) \in (k + 1) .. Count
    /\ \A i \in 1 .. k : GotNext[i] = client.got[i]
    /\ GotNext[k + 1] = File0[Start0 + PlaceIn(1)]
    /\ (\A i \in 1 .. k : client.got[i] = File0[Start0 + i]) \/ PlaceIn(1) > k + 1

LEMMA MoreFacts ==
    ASSUME SmoothState, Gets, client.pc = "more", client.want # Garbage, Known(client.h)
    PROVE  \E k : OneMore(k)
<1>1. /\ Reading /\ Count \in Nat /\ PlaceIn(1) \in Int
      /\ Chunk(Head(utoa), PlaceIn(1), Count, File0, Start0)
      /\ \A k : Beyond(k) => PlaceIn(1) > k
  BY GetsFacts
<1>2. Head(utoa) \in Replies /\ client.got \in Seq(Items)
  BY HeadReply, ClientFields DEF SmoothState, Gets, Taken, TypeOK, ClientType
<1>3. /\ Count = 0 => PlaceIn(1) = 1
      /\ Head(utoa).lead <=> PlaceIn(1) = 1
      /\ Count # 0 => /\ PlaceIn(1) \in 1 .. Count
                      /\ Head(utoa).data = <<File0[Start0 + PlaceIn(1)]>>
  BY <1>1, <1>2, ChunkFacts
<1>4. PICK k : k = Len(client.got)
  OBVIOUS
<1>5. k \in Nat /\ Gathered(k)
  <2>1. k \in Nat
    BY <1>2, <1>4, SeqFacts
  <2>2. Gathered(k)
    BY <1>1, <1>4 DEF SmoothState, ReadInv
  <2> QED BY <2>1, <2>2
<1>6. PICK x : x = PlaceIn(1)
  OBVIOUS
<1>7. PICK n : n = Count
  OBVIOUS
<1>8. /\ k # 0 /\ client.want = Count /\ x \in Int /\ n \in Nat
      /\ (k <= n /\ x > k) \/ (k < n /\ x > k + 1)
      /\ (k <= n /\ \A i \in 1 .. k : client.got[i] = File0[Start0 + i]) \/ x > k + 1
  BY <1>1, <1>5, <1>6, <1>7 DEF Gathered
<1>9. n # 0 /\ x # 1 /\ x > k
  BY <1>5, <1>8
<1>10. x \in 1 .. n
  BY <1>3, <1>6, <1>7, <1>9
<1>11. x \in (k + 1) .. n
  BY <1>5, <1>9, <1>10
<1>12. Head(utoa).data = <<File0[Start0 + x]>> /\ ~Head(utoa).lead
  BY <1>3, <1>6, <1>7, <1>9
<1>13. PICK v : v = File0[Start0 + x]
  OBVIOUS
<1>14. GotNext = client.got \o <<v>> /\ <<v>> \in Seq(Items)
  <2>1. <<v>> \in Seq(Items)
    BY <1>2, <1>12, <1>13, ReplyType
  <2> QED BY <1>12, <1>13, <2>1 DEF GotNext
<1>15. /\ Len(GotNext) = k + 1
       /\ \A i \in 1 .. k : GotNext[i] = client.got[i]
       /\ GotNext[k + 1] = v
  <2>1. /\ Len(client.got \o <<v>>) = Len(client.got) + Len(<<v>>)
        /\ \A i \in 1 .. Len(client.got) + Len(<<v>>) :
              (client.got \o <<v>>)[i] = IF i <= Len(client.got) THEN client.got[i]
                                         ELSE <<v>>[i - Len(client.got)]
    BY <1>2, <1>14, ConcatProperties
  <2>2. Len(<<v>>) = 1 /\ <<v>>[1] = v
    OBVIOUS
  <2>3. /\ Len(GotNext) = k + 1
        /\ \A i \in 1 .. k + 1 : /\ i <= k => GotNext[i] = client.got[i]
                                 /\ ~(i <= k) => GotNext[i] = <<v>>[i - k]
    BY <1>4, <1>14, <2>1, <2>2
  <2>4. /\ \A i \in 1 .. k : i \in 1 .. k + 1 /\ i <= k
        /\ k + 1 \in 1 .. k + 1 /\ ~(k + 1 <= k) /\ k + 1 - k = 1
    BY <1>5
  <2>5. \A i \in 1 .. k : GotNext[i] = client.got[i]
    BY <2>3, <2>4
  <2>6. GotNext[k + 1] = v
    <3>1. PICK j : j = k + 1
      OBVIOUS
    <3>2. j \in 1 .. k + 1 /\ ~(j <= k) /\ j - k = 1
      BY <1>5, <3>1
    <3>3. GotNext[j] = <<v>>[j - k]
      BY <2>3, <3>2, Zenon
    <3> QED BY <2>2, <3>1, <3>2, <3>3
  <2> QED BY <2>3, <2>5, <2>6
<1>16. OneMore(k)
  <2>1. k \in Nat \ {0} /\ k = Len(client.got) /\ client.want = Count
    BY <1>4, <1>5, <1>8
  <2>2. PlaceIn(1) \in (k + 1) .. Count
    BY <1>6, <1>7, <1>11
  <2>3. GotNext[k + 1] = File0[Start0 + PlaceIn(1)]
    BY <1>6, <1>13, <1>15
  <2>4. (\A i \in 1 .. k : client.got[i] = File0[Start0 + i]) \/ PlaceIn(1) > k + 1
    BY <1>6, <1>8
  <2> QED BY <1>15, <2>1, <2>2, <2>3, <2>4 DEF OneMore
<1> QED BY <1>16

\* The read goes on.
LEMMA ProceedRead ==
    ASSUME SmoothState, Gets, Rest, SameCall, client'.part = client.part,
           held' = held, client'.pc = "more",
           client.pc = "more" \/ (Reading /\ client'.want # Garbage => Gathered(Len(client.got))'),
           client.pc = "more" => client'.want = client.want /\ client'.got = GotNext
                                 /\ Len(GotNext) # client.want
    PROVE  ReadInv'
<1>1. SameWork /\ host' = host /\ Current' = Current /\ effects' = effects /\ Calling
  BY DEF SameWork, SameCall, Rest, diskVars, Current, Gets
<1>2. client'.pc = "more" => effects'[Current'] # 0
  BY <1>1, GetsFacts
<1>3. ~Replying' => host'.out = <<>>
  BY <1>1 DEF SmoothState, ReadInv, Replying
<1>4. ASSUME Reading'
      PROVE  OnItsWay' /\ (client'.want # Garbage => Gathered(Len(client.got))')
  <2>1. Reading /\ Known(client.h)
    BY <1>1, <1>4, SameWorkFacts DEF Reading
  <2>2. /\ OnItsWay' /\ PlaceIn(1) \in Int
        /\ \A k \in Int : k <= PlaceIn(1) => Beyond(k)'
    BY <1>1, <2>1, GetsFacts, TakenRead DEF Gets, SmoothState
  <2>3. ASSUME client.pc = "more", client'.want # Garbage
        PROVE  Gathered(Len(client.got))'
    <3>1. PICK k : OneMore(k)
      BY <2>1, <2>3, MoreFacts
    <3>2. PICK x : x = PlaceIn(1)
      OBVIOUS
    <3>3. PICK n : n = Count
      OBVIOUS
    <3>4. PICK j : j = k + 1
      OBVIOUS
    <3>5. /\ k \in Nat \ {0} /\ n \in Nat /\ x \in Int /\ x \in j .. n /\ j # n /\ j \in Nat
          /\ client.want = n
      <4>1. n \in Nat
        BY <2>1, <3>3, GetsFacts
      <4>2. k \in Nat \ {0} /\ x \in j .. n /\ client.want = n /\ j # n
        BY <2>3, <3>1, <3>2, <3>3, <3>4 DEF OneMore
      <4> QED BY <2>2, <3>2, <3>4, <4>1, <4>2
    <3>6. j <= n /\ j < n /\ j # 0 /\ (x # j => j + 1 <= x) /\ j <= x /\ j + 1 \in Int
      BY <3>4, <3>5
    <3>7. /\ \A i \in 1 .. k : client'.got[i] = client.got[i]
          /\ client'.got[j] = File0[Start0 + x] /\ Len(client'.got) = j
          /\ client'.want = Count
          /\ (\A i \in 1 .. k : client.got[i] = File0[Start0 + i]) \/ x > k + 1
      BY <2>3, <3>1, <3>2, <3>4 DEF OneMore
    <3>8. Count' = Count /\ File0' = File0 /\ Start0' = Start0
      BY <1>1, SameWorkFacts
    <3>9. x = j => Beyond(j)' /\ \A i \in 1 .. j : client'.got[i] = File0[Start0 + i]
      <4> SUFFICES ASSUME x = j
                   PROVE  Beyond(j)' /\ \A i \in 1 .. j : client'.got[i] = File0[Start0 + i]
        OBVIOUS
      <4>1. Beyond(j)'
        BY <2>2, <3>2, <3>5, <3>6
      <4>2. \A i \in 1 .. k : client.got[i] = File0[Start0 + i]
        BY <3>4, <3>5, <3>7
      <4>3. \A i \in 1 .. j : i \in 1 .. k \/ i = j
        BY <3>4, <3>5
      <4> QED BY <3>7, <4>1, <4>2, <4>3
    <3>10. x # j => Beyond(j + 1)'
      BY <2>2, <3>2, <3>6
    <3>11. Gathered(j)'
      BY <3>3, <3>6, <3>7, <3>8, <3>9, <3>10 DEF Gathered
    <3> QED BY <3>7, <3>11
  <2> QED BY <2>1, <2>2, <2>3
<1> QED BY <1>2, <1>3, <1>4 DEF ReadInv

\* The first message of several.
LEMMA FirstRead ==
    ASSUME SmoothState, Gets, Rest, SameCall, client'.part = client.part,
           held' = held, client'.pc = "more", client.pc = "wait",
           \/ client'.want = Garbage
           \/ /\ Head(utoa).lead /\ Head(utoa).total # Len(Head(utoa).data)
              /\ client'.want = Head(utoa).total /\ client'.got = Head(utoa).data
    PROVE  ReadInv'
<1>1. SameWork /\ host' = host
  BY DEF SameWork, SameCall, Rest, diskVars, Current
<1>2. ASSUME Reading, client'.want # Garbage
      PROVE  Gathered(Len(client.got))'
  <2>1. /\ Count \in Nat /\ PlaceIn(1) \in Int /\ OnItsWay
        /\ Chunk(Head(utoa), PlaceIn(1), Count, File0, Start0)
    BY <1>2, GetsFacts DEF Reading
  <2>2. Head(utoa) \in Replies /\ TypeOK
    BY HeadReply DEF SmoothState, Gets, Taken
  <2>3. /\ Head(utoa).lead /\ Head(utoa).total # Len(Head(utoa).data)
        /\ client'.want = Head(utoa).total /\ client'.got = Head(utoa).data
    BY <1>2
  <2>4. PlaceIn(1) = 1 /\ Head(utoa).total = Count
    BY <2>1, <2>2, <2>3, ChunkFacts
  <2>5. Count # 0
    BY <2>1, <2>2, <2>3, ChunkFacts
  <2>6. Head(utoa).data = <<File0[Start0 + PlaceIn(1)]>> /\ Len(Head(utoa).data) = 1
    BY <2>1, <2>2, <2>5, ChunkFacts
  <2>7. Len(client'.got) = 1 /\ client'.got = <<File0[Start0 + 1]>> /\ 1 <= Count
    BY <2>1, <2>3, <2>4, <2>5, <2>6
  <2>8. client'.got[1] = File0[Start0 + 1]
    BY <2>7
  <2>9. Beyond(1)'
    BY <1>1, <2>1, <2>2, <2>4, TakenRead DEF Gets
  <2>10. Count' = Count /\ File0' = File0 /\ Start0' = Start0
    BY <1>1, SameWorkFacts
  <2>11. \A i \in 1 .. 1 : client'.got[i] = File0[Start0 + i]
    BY <2>8
  <2>12. Gathered(1)'
    BY <2>3, <2>4, <2>7, <2>9, <2>10, <2>11 DEF Gathered
  <2> QED BY <2>7, <2>12
<1> QED BY <1>2, ProceedRead

\* The read is complete, with one message or with several.
All(data) == /\ Count \in Nat /\ Len(data) = Count
             /\ \A i \in 1 .. Count : data[i] = File0[Start0 + i]

LEMMA WholeRead ==
    ASSUME SmoothState, Gets, Known(client.h),
           Head(utoa).lead, Head(utoa).total = Len(Head(utoa).data)
    PROVE  All(Head(utoa).data)
<1>1. /\ Count \in Nat /\ PlaceIn(1) \in Int
      /\ Chunk(Head(utoa), PlaceIn(1), Count, File0, Start0)
  BY GetsFacts
<1>2. Head(utoa) \in Replies
  BY HeadReply DEF SmoothState, Gets, Taken
<1>3. PlaceIn(1) = 1 /\ Len(Head(utoa).data) = Count
  BY <1>1, <1>2, ChunkFacts
<1>4. Count # 0 => Count = 1 /\ Head(utoa).data = <<File0[Start0 + 1]>>
  <2>1. Count # 0 => /\ Head(utoa).data = <<File0[Start0 + PlaceIn(1)]>>
                     /\ Len(Head(utoa).data) = 1
    BY <1>1, <1>2, ChunkFacts
  <2> QED BY <1>3, <2>1
<1>5. \A i \in 1 .. Count : i = 1 /\ Count # 0 /\ Head(utoa).data[1] = File0[Start0 + 1]
  BY <1>1, <1>4
<1> QED BY <1>1, <1>3, <1>5 DEF All

LEMMA LastRead ==
    ASSUME SmoothState, Gets, Known(client.h), client.pc = "more", Len(GotNext) = client.want
    PROVE  All(GotNext)
<1>1. Count \in Nat
  BY GetsFacts
<1>2. client.want # Garbage
  <2>1. GotNext \in Seq(Items)
    <3>1. client.got \in Seq(Items)
      BY ClientFields DEF SmoothState, TypeOK, ClientType
    <3>2. Head(utoa).data \in Seq(Items)
      BY HeadReply, ReplyType DEF SmoothState, Gets, Taken
    <3>3. <<Junk>> \in Seq(Items)
      BY DEF Junk, Items
    <3>4. (IF Head(utoa).lead THEN <<Junk>> ELSE Head(utoa).data) \in Seq(Items)
      BY <3>2, <3>3
    <3> QED BY <3>1, <3>4, ConcatProperties DEF GotNext
  <2>2. Len(GotNext) \in Nat
    BY <2>1, SeqFacts
  <2> QED BY <2>2 DEF Garbage
<1>3. PICK k : OneMore(k)
  BY <1>2, MoreFacts
<1>4. k \in Nat \ {0} /\ k + 1 = Count /\ Len(GotNext) = Count /\ PlaceIn(1) \in (k + 1) .. Count
  BY <1>3 DEF OneMore
<1>5. PlaceIn(1) = k + 1 /\ ~(PlaceIn(1) > k + 1)
  BY <1>1, <1>4
<1>6. /\ \A i \in 1 .. k : GotNext[i] = File0[Start0 + i]
      /\ GotNext[k + 1] = File0[Start0 + (k + 1)]
  BY <1>3, <1>5 DEF OneMore
<1>7. \A i \in 1 .. Count : i \in 1 .. k \/ i = k + 1
  BY <1>4
<1> QED BY <1>1, <1>4, <1>6, <1>7 DEF All

-------------------------------------------------------------------------------
(* The server sends a message of an answer.                                *)

Passes ==
    /\ host.pc = "reply" /\ utoa' = Append(utoa, Head(host.out))
    /\ UNCHANGED <<clientVars, atou, diskVars>> /\ events' = events
    /\ SendsOn /\ (host'.pc # "reply" => host'.out = <<>>)
    /\ Len(host'.out) = Len(host.out) - 1
    /\ \A i \in DOMAIN host'.out : /\ i \in Nat \ {0} /\ i + 1 \in DOMAIN host.out
                                   /\ host'.out[i] = host.out[i + 1]

LEMMA SendPasses ==
    ASSUME TypeOK, SendReply, Smooth'
    PROVE  Passes
<1> DEFINE room == Fits(Head(host.out), utoa)
<1>1. /\ host.pc = "reply" /\ UNCHANGED <<clientVars, atou, diskVars>>
      /\ utoa' = IF room THEN Append(utoa, Head(host.out)) ELSE utoa
      /\ events' = IF room THEN events ELSE events \cup {"refused"}
      /\ IF Len(host.out) > 1 THEN host' = [host EXCEPT !.out = Tail(host.out)]
         ELSE RunAgain(room)
  BY DEF SendReply
<1> HIDE DEF room
<1>2. room
  <2>1. "refused" \notin events'
    BY DEF Smooth, Without
  <2> QED BY <1>1, <2>1
<1>3. /\ host.out \in Seq(Replies) /\ Len(host.out) \in Nat \ {0}
      /\ host = [pc |-> host.pc, job |-> host.job, out |-> host.out,
                 retry |-> host.retry, buf |-> host.buf]
  <2>1. host.out \in Seq(Replies) /\ host.out # <<>>
    BY <1>1 DEF TypeOK, HostType, Replying
  <2> QED BY <2>1, SeqFacts DEF TypeOK, HostType
<1>4. CASE Len(host.out) > 1
  <2>1. host' = [host EXCEPT !.out = Tail(host.out)]
    BY <1>1, <1>4
  <2>2. host'.out = Tail(host.out) /\ host'.pc = "reply" /\ host'.job = host.job
    BY <1>1, <1>3, <2>1
  <2>3. /\ Tail(host.out) \in Seq(Replies) /\ Len(Tail(host.out)) = Len(host.out) - 1
        /\ \A i \in DOMAIN Tail(host.out) :
              i + 1 \in DOMAIN host.out /\ Tail(host.out)[i] = host.out[i + 1]
    BY <1>1, <1>3, TailFacts, SeqFacts
  <2>4. \A i \in DOMAIN Tail(host.out) : i \in Nat \ {0}
    BY <2>3, SeqFacts
  <2> QED BY <1>1, <1>2, <2>2, <2>3, <2>4 DEF Passes, SendsOn
<1>5. CASE ~(Len(host.out) > 1)
  <2>1. RunAgain(room)
    BY <1>1, <1>5
  <2>2. host' = Idle
    BY <1>2, <2>1 DEF RunAgain
  <2>3. host'.pc = "idle" /\ host'.out = <<>>
    BY <2>2 DEF Idle
  <2>4. Len(host'.out) = Len(host.out) - 1
    <3>1. \A n \in Nat \ {0} : ~(n > 1) => n - 1 = 0
      OBVIOUS
    <3>2. Len(host.out) - 1 = 0
      BY <1>3, <1>5, <3>1
    <3>3. Len(host'.out) = 0
      BY <2>3
    <3> QED BY <3>2, <3>3
  <2>5. DOMAIN host'.out = {}
    BY <2>3
  <2> QED BY <1>1, <1>2, <2>3, <2>4, <2>5 DEF Passes, SendsOn
<1> QED BY <1>4, <1>5

LEMMA PassPlaces ==
    ASSUME TypeOK, Count \in Nat, Passes
    PROVE  /\ \A i \in DOMAIN utoa' : \/ i \in DOMAIN utoa /\ utoa'[i] = utoa[i]
                                         /\ PlaceIn(i)' = PlaceIn(i)
                                      \/ utoa'[i] = host.out[1] /\ PlaceIn(i)' = PlaceOut(1)
           /\ \A i \in DOMAIN host'.out : PlaceOut(i)' = PlaceOut(i + 1)
           /\ 1 \in DOMAIN host.out
<1>1. /\ Len(utoa) \in Nat /\ Len(host.out) \in Nat /\ DOMAIN utoa = 1 .. Len(utoa)
      /\ DOMAIN host.out = 1 .. Len(host.out) /\ Total \in Nat
      /\ \A i \in Int : PlaceIn(i) = Total - Len(host.out) - Len(utoa) + i
      /\ \A i \in Int : PlaceOut(i) = Total - Len(host.out) + i
  BY PlaceFacts
<1>2. /\ Head(host.out) \in Replies /\ Head(host.out) = host.out[1] /\ 1 \in DOMAIN host.out
  <2>1. host.out \in Seq(Replies) /\ host.out # <<>>
    BY DEF TypeOK, HostType, Replying, Passes
  <2> QED BY <2>1, TailFacts
<1>3. /\ DOMAIN utoa' = 1 .. Len(utoa) + 1 /\ utoa'[Len(utoa) + 1] = host.out[1]
      /\ \A i \in DOMAIN utoa : utoa'[i] = utoa[i]
      /\ utoa' \in Seq(Replies)
  <2>1. utoa \in Seq(Replies) /\ utoa' = Append(utoa, Head(host.out))
    BY DEF TypeOK, Passes
  <2> QED BY <1>2, <2>1, AppendFacts
<1>4. Len(utoa') = Len(utoa) + 1
  BY <1>1, <1>3, SeqFacts
<1>5. held' = held /\ table' = table /\ content' = content /\ client' = client
  BY DEF Passes, clientVars, diskVars
<1>6. Total' = Total
  BY <1>5, SameFile
<1>7. PICK t, l, u : t = Total /\ l = Len(host.out) /\ u = Len(utoa)
  OBVIOUS
<1>8. t \in Nat /\ l \in Nat /\ u \in Nat
  BY <1>1, <1>7
<1>9. /\ \A i \in Int : PlaceIn(i) = t - l - u + i
      /\ \A i \in Int : PlaceOut(i) = t - l + i
  BY <1>1, <1>7
<1>10. /\ \A i \in Int : PlaceIn(i)' = t - (l - 1) - (u + 1) + i
       /\ \A i \in Int : PlaceOut(i)' = t - (l - 1) + i
  BY <1>4, <1>6, <1>7 DEF PlaceIn, PlaceOut, Passes
<1>11. ASSUME NEW i \in DOMAIN utoa'
       PROVE  \/ i \in DOMAIN utoa /\ utoa'[i] = utoa[i] /\ PlaceIn(i)' = PlaceIn(i)
              \/ utoa'[i] = host.out[1] /\ PlaceIn(i)' = PlaceOut(1)
  <2>1. i \in 1 .. u + 1
    BY <1>3, <1>7
  <2>2. CASE i \in 1 .. u
    <3>1. PlaceIn(i)' = t - (l - 1) - (u + 1) + i /\ PlaceIn(i) = t - l - u + i
      BY <1>9, <1>10, <2>2
    <3>2. t - (l - 1) - (u + 1) + i = t - l - u + i
      BY <1>8, <2>2
    <3>3. i \in DOMAIN utoa
      BY <1>1, <1>7, <2>2
    <3> QED BY <1>3, <3>1, <3>2, <3>3, Zenon
  <2>3. CASE i = u + 1
    <3>1. PlaceIn(i)' = t - (l - 1) - (u + 1) + i /\ PlaceOut(1) = t - l + 1
      BY <1>8, <1>9, <1>10, <2>3
    <3>2. t - (l - 1) - (u + 1) + i = t - l + 1
      BY <1>8, <2>3
    <3>3. utoa'[i] = host.out[1]
      BY <1>3, <1>7, <2>3
    <3> QED BY <3>1, <3>2, <3>3, Zenon
  <2> QED BY <1>8, <2>1, <2>2, <2>3
<1>12. ASSUME NEW i \in DOMAIN host'.out
       PROVE  PlaceOut(i)' = PlaceOut(i + 1)
  <2>1. i \in Nat
    BY DEF Passes
  <2>2. PlaceOut(i)' = t - (l - 1) + i /\ PlaceOut(i + 1) = t - l + (i + 1)
    BY <1>9, <1>10, <2>1
  <2>3. t - (l - 1) + i = t - l + (i + 1)
    BY <1>8, <2>1
  <2> QED BY <2>2, <2>3, Zenon
<1> QED BY <1>2, <1>11, <1>12

LEMMA PassRead ==
    ASSUME SmoothState, Passes
    PROVE  ReadInv'
<1>1. TypeOK /\ ReadInv
  BY DEF SmoothState
<1>2. /\ client' = client /\ Current' = Current /\ effects' = effects /\ held' = held
      /\ table' = table /\ content' = content
  BY DEF Passes, clientVars, diskVars, Current
<1>3. (client'.pc = "more" => effects'[Current'] # 0) /\ (~Replying' => host'.out = <<>>)
  BY <1>1, <1>2 DEF ReadInv, Replying, Passes
<1>4. Count' = Count /\ File0' = File0 /\ Start0' = Start0
  BY <1>2, SameFile
<1>5. Reading' <=> Reading
  BY <1>2 DEF Reading, Known
<1>6. ASSUME Reading
      PROVE  OnItsWay' /\ (client.pc = "more" /\ client.want # Garbage => Gathered(Len(client.got))')
  <2>1. OnItsWay /\ Count \in Nat
    BY <1>1, <1>6 DEF ReadInv, OnItsWay
  <2>2. /\ \A i \in DOMAIN utoa' : \/ i \in DOMAIN utoa /\ utoa'[i] = utoa[i]
                                      /\ PlaceIn(i)' = PlaceIn(i)
                                   \/ utoa'[i] = host.out[1] /\ PlaceIn(i)' = PlaceOut(1)
        /\ \A i \in DOMAIN host'.out : PlaceOut(i)' = PlaceOut(i + 1)
        /\ 1 \in DOMAIN host.out
    BY <1>1, <2>1, PassPlaces
  <2>3. \A i \in DOMAIN host'.out : i + 1 \in DOMAIN host.out /\ host'.out[i] = host.out[i + 1]
    BY DEF Passes
  <2>4. OnItsWay'
    <3>1. \A i \in DOMAIN utoa' : utoa'[i].id = Current =>
             Chunk(utoa'[i], PlaceIn(i)', Count, File0, Start0)
      BY <2>1, <2>2 DEF OnItsWay
    <3>2. \A i \in DOMAIN host'.out : Chunk(host'.out[i], PlaceOut(i)', Count, File0, Start0)
      BY <2>1, <2>2, <2>3 DEF OnItsWay
    <3>3. Count' = client'.n \/ table'[client'.h].pos >= Len(File0')
      BY <1>2, <1>4, <2>1 DEF OnItsWay
    <3> QED BY <1>2, <1>4, <2>1, <3>1, <3>2, <3>3 DEF OnItsWay
  <2>5. ASSUME NEW k, Beyond(k)
        PROVE  Beyond(k)'
    BY <1>2, <2>2, <2>3, <2>5 DEF Beyond
  <2>6. ASSUME client.pc = "more", client.want # Garbage
        PROVE  Gathered(Len(client.got))'
    <3>1. PICK k : k = Len(client.got)
      OBVIOUS
    <3>2. Gathered(k)
      BY <1>1, <1>6, <2>6, <3>1 DEF ReadInv
    <3>3. Gathered(k)'
      BY <1>2, <1>4, <2>5, <3>2 DEF Gathered
    <3>4. k = Len(client'.got)
      BY <1>2, <3>1
    <3> QED BY <3>3, <3>4
  <2> QED BY <2>4, <2>6
<1> QED BY <1>2, <1>3, <1>5, <1>6 DEF ReadInv

-------------------------------------------------------------------------------
(* The call returns.                                                       *)

LEMMA Slice ==
    ASSUME NEW S, NEW d \in Seq(S), NEW all, NEW p \in Int,
           \A i \in 1 .. Len(d) : d[i] = all[p + i]
    PROVE  d = SubSeq(all, p + 1, p + Len(d))
<1>1. Len(d) \in Nat /\ \A i \in 1 .. Len(d) : d[i] \in S
  BY SeqFacts
<1>2. PICK n : n = Len(d)
  OBVIOUS
<1>3. n \in Nat /\ \A i \in 1 .. n : d[i] \in S /\ d[i] = all[p + i]
  BY <1>1, <1>2
<1>4. PICK a, b : a = p + 1 /\ b = p + n
  OBVIOUS
<1>5. a \in Int /\ b \in Int
  BY <1>3, <1>4
<1>6. \A j \in a .. b : all[j] \in S
  <2> SUFFICES ASSUME NEW j \in a .. b PROVE all[j] \in S
    OBVIOUS
  <2>1. j - p \in 1 .. n /\ p + (j - p) = j
    BY <1>3, <1>4
  <2> QED BY <1>3, <2>1
<1>7. /\ SubSeq(all, a, b) \in Seq(S)
      /\ Len(SubSeq(all, a, b)) = IF a <= b THEN b - a + 1 ELSE 0
      /\ \A i \in 1 .. b - a + 1 : SubSeq(all, a, b)[i] = all[a + i - 1]
  BY <1>5, <1>6, SubSeqProperties
<1>8. /\ Len(SubSeq(all, a, b)) = n
      /\ \A i \in 1 .. n : SubSeq(all, a, b)[i] = all[p + i]
  <2>1. b - a + 1 = n /\ \A i \in 1 .. n : a + i - 1 = p + i
    BY <1>3, <1>4
  <2>2. IF a <= b THEN b - a + 1 = n ELSE n = 0
    BY <1>3, <1>4
  <2>3. Len(SubSeq(all, a, b)) = n
    BY <1>7, <2>2
  <2> QED BY <1>7, <2>1, <2>3
<1>9. d = SubSeq(all, a, b)
  BY <1>2, <1>3, <1>7, <1>8, SeqEqual
<1> QED BY <1>2, <1>4, <1>9

LEMMA EndReads ==
    ASSUME SmoothState, Ends, NEW status, NEW data \in Seq(Items), NEW h, NEW ino, NEW mine,
           Return(status, data, h, ino, mine),
           client.op = "read" /\ status \in Success /\ Known(client.h) => All(data)
    PROVE  ReadsFollow'
<1>1. /\ result'.op = client.op /\ result'.status = status /\ result'.data = data
      /\ result'.n = client.n /\ content' = content
      /\ result'.exp = IF client.h \in DOMAIN held THEN held[client.h].exp ELSE Unknown
      /\ client.h \in DOMAIN held => result'.ino = held[client.h].ino
  BY DEF Return, Ends, Rest, diskVars
<1>2. SUFFICES ASSUME client.op = "read", status \in Success, result'.exp # Unknown
               PROVE  /\ data = SubSeq(content[result'.ino], result'.exp + 1,
                                       result'.exp + Len(data))
                      /\ Len(data) = client.n
                         \/ result'.exp + Len(data) >= Len(content[result'.ino])
  BY <1>1 DEF ReadsFollow
<1>3. Known(client.h) /\ result'.exp = Start0 /\ content[result'.ino] = File0
  BY <1>1, <1>2 DEF Known, Start0, File0
<1>4. All(data)
  BY <1>2, <1>3
<1>5. Count \in Nat /\ Len(data) = Count /\ \A i \in 1 .. Len(data) : data[i] = File0[Start0 + i]
  BY <1>4 DEF All
<1>6. Start0 \in Nat /\ table[client.h].pos \in Nat
  BY <1>3, KnownOpen DEF Start0
<1>7. data = SubSeq(File0, Start0 + 1, Start0 + Len(data))
  <2>1. Start0 \in Int
    BY <1>6
  <2> QED BY <1>5, <2>1, Slice
<1>8. Len(data) = client.n \/ Start0 + Len(data) >= Len(File0)
  <2>1. effects[Current] = 1
    BY <1>1, <1>2, EndSettled
  <2>2. Count = client.n \/ table[client.h].pos >= Len(File0)
    BY <1>2, <1>3, <2>1 DEF SmoothState, ReadInv, Reading, OnItsWay
  <2>3. Start0 + Count = table[client.h].pos
    BY <1>6 DEF Count
  <2> QED BY <1>5, <2>2, <2>3
<1> QED BY <1>3, <1>7, <1>8

LEMMA EndFollow ==
    ASSUME SmoothState, TypeOK', Ends, NEW status, NEW data \in Seq(Items), NEW h, NEW ino,
           NEW mine, Return(status, data, h, ino, mine),
           client.op = "open" /\ status = "OK" => h = Head(utoa).h /\ Head(utoa).status = "OK",
           client.op = "read" /\ status \in Success /\ Known(client.h) => All(data)
    PROVE  OrderInv' /\ DataInv' /\ PosInv' /\ ReadInv' /\ ReadsFollow'
<1>1. OrderInv' /\ DataInv' /\ ReadsFollow'
  BY ClientOrder, ClientData, EndReads
<1>2. PosInv'
  BY EndPos DEF All
<1>3. ReadInv'
  BY NoRead, NoCallFacts DEF SmoothState, Ends, Rest
<1> QED BY <1>1, <1>2, <1>3

\* The steps of the library.
FollowNext == OrderInv' /\ DataInv' /\ PosInv' /\ ReadInv' /\ ReadsFollow'

\* Nothing is said of a result that there is not, or is none of success.
LEMMA NoReads ==
    ASSUME result'.op # "read" \/ result'.status \notin Success
    PROVE  ReadsFollow'
BY DEF ReadsFollow

LEMMA FailFollow ==
    ASSUME SmoothState, TypeOK', Ends, NEW status, status \notin Success, Fail(status)
    PROVE  FollowNext
<1>1. Return(status, <<>>, NoParent, 0, TRUE) /\ status # "OK" /\ <<>> \in Seq(Items)
  BY NoElements DEF Fail, Success
<1> QED BY <1>1, EndFollow DEF FollowNext

LEMMA ProceedsFollow ==
    ASSUME SmoothState, TypeOK', Proceeds, ReadInv'
    PROVE  FollowNext
<1>1. result' = NoResult
  BY CurrentId DEF SmoothState, Proceeds, SameCall, Calling
<1>2. ReadsFollow'
  BY <1>1, NoReads, NoResultFacts
<1> QED BY <1>2, ClientOrder, ClientData, GoesOnPos DEF FollowNext

LEMMA AnswerFollow ==
    ASSUME SmoothState, TypeOK', Answer
    PROVE  FollowNext
<1> DEFINE r == Head(utoa)
           more(want, got) ==
             /\ client' = [client EXCEPT !.pc = "more", !.want = want, !.got = got]
             /\ UNCHANGED <<tag, active, held, calls, result>>
<1>1. /\ client.pc = "wait" /\ utoa # <<>> /\ r.tag = client.tag /\ utoa' = Tail(utoa)
      /\ UNCHANGED <<svc, atou, host, diskVars, trouble, events>>
  BY DEF Answer, Wanted
<1>2. TypeOK /\ CallInv /\ Taken /\ Rest /\ Calling /\ client \in Clients
  BY <1>1 DEF SmoothState, Taken, Rest, Calling, TypeOK, ClientType
<1>3. Proceeds \/ NextPart \/ Ends
  BY <1>2, AnswerShape
<1>4. CASE client.op = "read" /\ r.status \in Success
           /\ (~r.lead \/ r.total # Len(r.data))
  <2>1. /\ ~r.lead => more(Garbage, <<Junk>>)
        /\ r.lead => more(r.total, r.data)
    BY <1>4 DEF Answer
  <2>2. /\ client'.pc = "more" /\ SameCall /\ client'.part = client.part /\ held' = held
        /\ client'.want = Garbage \/ (r.lead /\ client'.want = r.total /\ client'.got = r.data)
    BY <1>2, <2>1 DEF Clients, SameCall, Calling
  <2>3. Gets
    BY <1>1, <1>2, <1>4 DEF Gets
  <2>4. ReadInv'
    <3> HIDE DEF more
    <3> QED BY <1>1, <1>2, <1>4, <2>2, <2>3, FirstRead
  <2>5. Proceeds
    BY <1>3, <2>2, NoCallFacts DEF NextPart, Ends
  <2> QED BY <2>4, <2>5, ProceedsFollow
<1>5. CASE client.op = "write" /\ r.status = "OK" /\ client.part < Len(client.parts)
  <2>1. client'.pc = "send" /\ result' = result /\ host' = host
    <3>1. LET d == [client EXCEPT !.part = @ + 1, !.pc = "send"]
          IN client' = [d EXCEPT !.todo = Messages(d)]
      BY <1>5 DEF Answer
    <3>2. result' = result
      BY <1>5 DEF Answer
    <3> QED BY <1>1, <1>2, <3>1, <3>2 DEF Clients
  <2>2. NextPart
    BY <1>3, <2>1, NoCallFacts DEF Proceeds, Ends
  <2>3. ReadsFollow'
    BY <1>2, <2>1, CurrentId, NoReads, NoResultFacts
  <2>4. ReadInv'
    <3>1. client'.op # "read" /\ client'.pc # "more"
      BY <2>1, <2>2 DEF NextPart, SameCall
    <3> QED BY <2>1, <3>1, NoRead DEF SmoothState
  <2> QED BY <2>2, <2>3, <2>4, ClientOrder, ClientData, NextPos DEF FollowNext
<1>6. CASE /\ ~(client.op = "read" /\ r.status \in Success /\ (~r.lead \/ r.total # Len(r.data)))
           /\ ~(client.op = "write" /\ r.status = "OK" /\ client.part < Len(client.parts))
  <2>1. Return(r.status, r.data, r.h, r.ino, r.id = <<client.id, client.part>>)
    BY <1>6 DEF Answer
  <2>2. Ends
    <3>1. client' = NoCall
      BY <2>1 DEF Return
    <3> QED BY <1>2, <1>3, <3>1, NoCallFacts DEF Proceeds, NextPart, SameCall
  <2>3. client.op = "read" /\ r.status \in Success /\ Known(client.h) => All(r.data)
    BY <1>1, <1>2, <1>6, WholeRead DEF Gets
  <2>4. r.data \in Seq(Items)
    BY <1>1, <1>2, HeadReply, ReplyType
  <2>5. \E mine : Return(r.status, r.data, r.h, r.ino, mine)
    BY <2>1
  <2>6. PICK mine : Return(r.status, r.data, r.h, r.ino, mine)
    BY <2>5
  <2> HIDE DEF more
  <2> QED BY <2>2, <2>3, <2>4, <2>6, EndFollow DEF FollowNext
<1> QED BY <1>4, <1>5, <1>6

LEMMA AnswerMoreFollow ==
    ASSUME SmoothState, TypeOK', AnswerMore
    PROVE  FollowNext
<1>1. /\ client.pc = "more" /\ utoa # <<>> /\ Head(utoa).tag = client.tag /\ utoa' = Tail(utoa)
      /\ UNCHANGED <<svc, atou, host, diskVars, trouble, events>>
      /\ IF Head(utoa).status \notin Success THEN Fail(Head(utoa).status)
         ELSE IF Len(GotNext) = client.want
         THEN Return("OK", GotNext, NoParent, 0, Head(utoa).id = <<client.id, client.part>>)
         ELSE /\ client' = [client EXCEPT !.got = GotNext]
              /\ UNCHANGED <<tag, active, held, calls, result>>
  BY DEF AnswerMore, Wanted, GotNext
<1>2. TypeOK /\ CallInv /\ Taken /\ Rest /\ Calling /\ client \in Clients /\ client.op = "read"
  BY <1>1 DEF SmoothState, Taken, Rest, Calling, TypeOK, ClientType, CallInv, CurrentCall
<1>3. Proceeds \/ Ends
  BY <1>2, AnswerMoreShape
<1>4. CASE Head(utoa).status \notin Success
  <2>1. Fail(Head(utoa).status)
    BY <1>1, <1>4
  <2>2. Ends
    <3>1. client' = NoCall
      BY <2>1 DEF Fail, Return
    <3> QED BY <1>3, <3>1, NoCallFacts DEF Proceeds
  <2> QED BY <1>4, <2>1, <2>2, FailFollow
<1>5. CASE Head(utoa).status \in Success /\ Len(GotNext) = client.want
  <2>1. Return("OK", GotNext, NoParent, 0, Head(utoa).id = <<client.id, client.part>>)
    BY <1>1, <1>5
  <2>2. Ends
    <3>1. client' = NoCall
      BY <2>1 DEF Return
    <3> QED BY <1>3, <3>1, NoCallFacts DEF Proceeds
  <2>3. Known(client.h) => All(GotNext)
    BY <1>1, <1>2, <1>5, LastRead DEF Gets
  <2>4. GotNext \in Seq(Items)
    <3>1. client.got \in Seq(Items)
      BY <1>2, ClientFields
    <3>2. Head(utoa).data \in Seq(Items)
      BY <1>1, <1>2, HeadReply, ReplyType
    <3>3. <<Junk>> \in Seq(Items)
      BY DEF Junk, Items
    <3>4. (IF Head(utoa).lead THEN <<Junk>> ELSE Head(utoa).data) \in Seq(Items)
      BY <3>2, <3>3
    <3> QED BY <3>1, <3>4, ConcatProperties DEF GotNext
  <2>5. \E st, mine : st = "OK" /\ Return(st, GotNext, NoParent, 0, mine)
    BY <2>1
  <2>6. PICK st, mine : st = "OK" /\ Return(st, GotNext, NoParent, 0, mine)
    BY <2>5
  <2> QED BY <1>2, <2>2, <2>3, <2>4, <2>6, EndFollow DEF FollowNext
<1>6. CASE Head(utoa).status \in Success /\ Len(GotNext) # client.want
  <2>1. client' = [client EXCEPT !.got = GotNext] /\ UNCHANGED <<tag, active, held, calls, result>>
    BY <1>1, <1>6
  <2>2. /\ client'.pc = "more" /\ SameCall /\ client'.part = client.part
        /\ client'.want = client.want /\ client'.got = GotNext /\ held' = held
    BY <1>1, <1>2, <2>1 DEF Clients, SameCall, Calling
  <2>3. Gets
    BY <1>1, <1>2, <1>6 DEF Gets
  <2>4. ReadInv'
    BY <1>1, <1>2, <1>6, <2>2, <2>3, ProceedRead
  <2>5. Proceeds
    BY <1>3, <2>2, NoCallFacts DEF Ends
  <2> QED BY <2>4, <2>5, ProceedsFollow
<1> QED BY <1>4, <1>5, <1>6

-------------------------------------------------------------------------------
(* Every step keeps what is said of reads.                                 *)

LEMMA CallFollow ==
    ASSUME SmoothState, TypeOK', Begins \/ Unavailable
    PROVE  FollowNext
<1>1. OrderInv' /\ DataInv' /\ (Begins => effects'[Current'] = 0)
  BY BeginOrder, ClientData
<1>2. PosInv'
  BY BeginPos, GoesOnPos
<1>3. ReadInv'
  <2>1. CASE Begins
    <3>1. host' = host /\ client'.pc # "more"
      BY <2>1 DEF Begins
    <3> QED BY <1>1, <2>1, <3>1, NoRead DEF SmoothState
  <2>2. CASE Unavailable
    BY <2>2, SameRead DEF SmoothState, Unavailable, diskVars, Current
  <2> QED BY <2>1, <2>2
<1>4. ReadsFollow'
  <2>1. result'.op # "read" \/ result'.status \notin Success
    BY NoResultFacts DEF Begins, Unavailable, Success
  <2> QED BY <2>1, NoReads
<1> QED BY <1>1, <1>2, <1>3, <1>4 DEF FollowNext

LEMMA SendFollow ==
    ASSUME SmoothState, Sends, "repeated" \notin events'
    PROVE  FollowNext
<1>1. atou' = Append(atou, Head(client.todo)) /\ result' = result
  BY DEF Sends
<1>2. ReadsFollow'
  BY <1>1, CurrentId, NoReads, NoResultFacts DEF SmoothState, Sends, SameCall, Calling
<1>3. ReadInv'
  <2>1. client'.pc # "more" /\ Current' = Current
    BY DEF Sends, SameCall, Current
  <2> QED BY <2>1, SameRead DEF SmoothState, Sends, SameCall, diskVars
<1> QED BY <1>1, <1>2, <1>3, SendOrder, SendData, GoesOnPos DEF FollowNext

LEMMA SameReads ==
    ASSUME ReadsFollow, Smooth, result' = result,
           result.op = "read" /\ result.status \in Success => content' = content
    PROVE  ReadsFollow'
<1>1. SUFFICES ASSUME result.op = "read", result.status \in Success, result.exp # Unknown
               PROVE  LET all == content'[result.ino]
                          end == result.exp + Len(result.data)
                      IN /\ result.data = SubSeq(all, result.exp + 1, end)
                         /\ Len(result.data) = result.n \/ end >= Len(all)
  BY DEF ReadsFollow
<1>2. content' = content
  BY <1>1
<1> QED BY <1>1, <1>2 DEF ReadsFollow, Smooth

LEMMA DropFollow ==
    ASSUME SmoothState, TypeOK', Drops
    PROVE  FollowNext
<1>1. ReadsFollow'
  BY SameReads DEF SmoothState, Drops, Rest, clientVars, diskVars
<1> QED BY <1>1, ClientOrder, ClientData, GoesOnPos, DropRead DEF FollowNext

LEMMA WorkFollow ==
    ASSUME SmoothState, TypeOK', HeldHandlesOpen', Smooth', NEW m, Works(m)
    PROVE  FollowNext
<1>1. ReadsFollow'
  <2>1. result' = result
    BY DEF Works, clientVars
  <2>2. ASSUME result.op = "read", result.status \in Success
        PROVE  content' = content
    <3>1. Settled
      BY <2>2 DEF SmoothState, OrderInv
    <3>2. Refuses(m)
      BY <3>1, SettledStays
    <3> QED BY <3>2 DEF Refuses, diskVars
  <2> QED BY <2>1, <2>2, SameReads DEF SmoothState
<1> QED BY <1>1, WorkOrder, WorkData, WorkPos, WorkRead DEF FollowNext

LEMMA PassFollow ==
    ASSUME SmoothState, SendReply, Smooth'
    PROVE  FollowNext
<1>1. Passes /\ Answers' \subseteq Answers
  BY SendPasses, SendReplySends, SendsFlow DEF SmoothState
<1>2. /\ client' = client /\ held' = held /\ calls' = calls /\ result' = result
      /\ table' = table /\ content' = content /\ effects' = effects /\ atou' = atou
      /\ SendsOn /\ host'.pc # "collect" /\ Current' = Current /\ (Calling' <=> Calling)
  BY <1>1 DEF Passes, clientVars, diskVars, SendsOn, Current, Calling
<1>3. OrderInv' /\ DataInv'
  BY <1>2, SameOrder, SameData DEF SmoothState
<1>4. PosInv'
  <2>1. Pending' \subseteq Pending
    BY <1>2 DEF Pending
  <2> QED BY <1>1, <1>2, <2>1, SamePos DEF SmoothState
<1>5. ReadInv' /\ ReadsFollow'
  BY <1>1, <1>2, PassRead, SameReads DEF SmoothState
<1> QED BY <1>3, <1>4, <1>5 DEF FollowNext

LEMMA LibraryFollow ==
    ASSUME SmoothState, TypeOK', Library
    PROVE  FollowNext
<1>1. TypeOK /\ CallInv
  BY DEF SmoothState
<1>2. CASE SendOne
  <2>1. Sends /\ events' = events
    BY <1>1, <1>2, SendShape DEF SendOne
  <2>2. "repeated" \notin events'
    BY <2>1 DEF SmoothState, Smooth, Without
  <2> QED BY <2>1, <2>2, SendFollow
<1>3. CASE SendRefused \/ TimeOut \/ GiveUp
  <2>1. Ends
    BY <1>1, <1>3, FailShape
  <2>2. \E st : st \notin Success /\ Fail(st)
    BY <1>3 DEF SendRefused, TimeOut, GiveUp, Success
  <2> QED BY <2>1, <2>2, FailFollow
<1>4. CASE Discard
  BY <1>1, <1>4, DropShape, DropFollow
<1>5. CASE Answer
  BY <1>5, AnswerFollow
<1>6. CASE AnswerMore
  BY <1>6, AnswerMoreFollow
<1> QED BY <1>2, <1>3, <1>4, <1>5, <1>6 DEF Library

LEMMA ServerFollow ==
    ASSUME SmoothState, TypeOK', HeldHandlesOpen', Smooth', Server
    PROVE  FollowNext
<1>1. CASE Take
  BY <1>1, TakeSmooth, WorkFollow
<1>2. CASE Collect
  BY <1>2, CollectSmooth, WorkFollow
<1>3. CASE CollectFails
  BY <1>3 DEF CollectFails, Happened, Smooth, Without
<1>4. CASE SendReply
  BY <1>4, PassFollow
<1>5. CASE Again
  BY <1>5 DEF Again, SmoothState, LeadsInv
<1>6. CASE Start \/ Flush
  <2>1. "restart" \in events
    BY <1>6 DEF Start, Flush, SmoothState, HandleInv
  <2> QED BY <2>1 DEF SmoothState, Smooth, Without
<1> QED BY <1>1, <1>2, <1>3, <1>4, <1>5, <1>6 DEF Server

LEMMA EnvironmentFollow ==
    ASSUME SmoothState, TypeOK', Smooth', Environment
    PROVE  FollowNext
<1>1. CASE ReceiveLost
  BY <1>1, DropShape, DropFollow DEF SmoothState
<1>2. CASE SendTwice \/ SendReplyFails \/ DiskFull \/ Stop \/ Reboot
  BY <1>2 DEF SendTwice, SendReplyFails, DiskFull, Stop, Reboot, Happened, Smooth, Without
<1>3. CASE Expire
  BY <1>3 DEF Expire, SmoothState, HandleInv, Smooth, Without
<1> QED BY <1>1, <1>2, <1>3 DEF Environment

LEMMA NextFollow == IInv /\ FollowInv /\ IInv' /\ Next => FollowInv'
<1> SUFFICES ASSUME IInv, FollowInv, IInv', Next, Smooth' PROVE FollowNext
  BY DEF FollowInv, FollowNext
<1>1. /\ TypeOK /\ CallInv /\ TypeOK' /\ HeldHandlesOpen'
      /\ host.pc \in {"down", "flush"} => "restart" \in events
  BY DEF IInv, HandleInv
<1>2. events \subseteq events'
  BY <1>1, Steps, Flows, ClientFlow DEF ServerFlow
<1>3. SmoothState
  BY <1>2, SmoothBefore
<1>4. CASE Program
  BY <1>1, <1>3, <1>4, CallStep, CallFollow
<1>5. CASE Library
  BY <1>1, <1>3, <1>5, LibraryFollow
<1>6. CASE Server
  BY <1>1, <1>3, <1>6, ServerFollow
<1>7. CASE Environment
  BY <1>1, <1>3, <1>7, EnvironmentFollow
<1> QED BY <1>4, <1>5, <1>6, <1>7 DEF Next

LEMMA StutterFollow == FollowInv /\ UNCHANGED vars => FollowInv'
<1> SUFFICES ASSUME FollowInv, UNCHANGED vars, Smooth' PROVE FollowNext
  BY DEF FollowInv, FollowNext
<1>1. /\ client' = client /\ held' = held /\ calls' = calls /\ result' = result
      /\ atou' = atou /\ utoa' = utoa /\ host' = host /\ table' = table
      /\ content' = content /\ effects' = effects /\ events' = events
  BY DEF vars, clientVars, diskVars
<1>2. Smooth /\ OrderInv /\ DataInv /\ PosInv /\ ReadInv /\ ReadsFollow
  BY <1>1 DEF FollowInv, Smooth, Without
<1>3. /\ Answers' = Answers /\ Pending' = Pending /\ Current' = Current
      /\ (Calling' <=> Calling)
  BY <1>1 DEF Answers, Replying, Pending, Current, Calling
<1>4. OrderInv' /\ DataInv'
  BY <1>1, <1>2, <1>3, SameOrder, SameData
<1>5. PosInv' /\ ReadInv' /\ ReadsFollow'
  BY <1>1, <1>2, <1>3, SamePos, SameRead, SameReads
<1> QED BY <1>4, <1>5 DEF FollowNext

LEMMA InitFollow == Init => FollowInv
<1> SUFFICES ASSUME Init PROVE FollowInv
  OBVIOUS
<1>1. /\ atou = <<>> /\ host.pc = "idle" /\ host.out = <<>> /\ ~Calling /\ client.pc = "idle"
      /\ client.op = "none" /\ result.op = "none" /\ held = <<>> /\ ToSet(atou) = {}
      /\ Pending = {}
  BY NoElements, NoCallFacts, NoResultFacts DEF Init, Idle, Calling, Pending
<1>2. OrderInv
  BY <1>1 DEF OrderInv, Working
<1>3. DataInv
  BY <1>1 DEF DataInv
<1>4. PosInv
  <2>1. DOMAIN held = {}
    BY <1>1
  <2> QED BY <1>1, <2>1 DEF PosInv
<1>5. ReadInv
  BY <1>1 DEF ReadInv, Reading
<1>6. ReadsFollow
  BY <1>1 DEF ReadsFollow
<1> QED BY <1>2, <1>3, <1>4, <1>5, <1>6 DEF FollowInv
-------------------------------------------------------------------------------
(* The invariant.                                                          *)

LEMMA InitInv == Init => IInv
<1> SUFFICES ASSUME Init PROVE IInv
  OBVIOUS
<1> USE DEF Init
<1>1. TypeOK
  <2>1. ClientType
    <3>1. held \in [DOMAIN held -> [ino : Nat, exp : Int]] /\ DOMAIN held \subseteq Int
      <4>1. DOMAIN <<>> = {}
        OBVIOUS
      <4> QED BY <4>1
    <3>2. calls \in 0 .. MaxCalls
      OBVIOUS
    <3>3. client \in Clients /\ result \in Results
      BY NoCallFacts, NoResultFacts
    <3>4. tag \in Nat /\ active \in BOOLEAN
      OBVIOUS
    <3> QED BY <3>1, <3>2, <3>3, <3>4 DEF ClientType
  <2>2. HostType
    BY NoElements DEF HostType, Idle, Working, Replying
  <2>3. DiskType /\ CollectType
    <3>1. content \in Seq(Seq(Items)) /\ Len(content) = 1
      <4>1. [i \in 1 .. FileLength |-> <<0, 0, i>>] \in Seq(Items)
        BY DEF Items
      <4> QED BY <4>1
    <3>2. dir \in [Names -> 0 .. Len(content)]
      BY <3>1
    <3>3. /\ unique \in Nat /\ DOMAIN table \subseteq 1 .. unique
          /\ table \in [DOMAIN table -> Opens]
          /\ \A h \in DOMAIN table : table[h].ino = 0 /\ table[h].mode = {}
      BY DEF VolumeTable, VolumeHandle, Opens
    <3>4. effects \in [Ids -> 0 .. 2]
      BY DEF Ids
    <3>5. host.pc # "collect"
      BY DEF Idle
    <3> QED BY <3>1, <3>2, <3>3, <3>4, <3>5 DEF DiskType, CollectType
  <2> QED BY <2>1, <2>2, <2>3, NoElements DEF TypeOK
<1>2. Commands = {} /\ Answers = {} /\ ~Calling /\ ToSet(atou) = {}
  BY NoElements, NoCallFacts DEF Commands, Answers, Working, Replying, Idle, Calling
<1>3. CallInv
  BY <1>2, NoCallFacts, NoResultFacts DEF CallInv, TodoInv
<1>4. TagInv
  BY <1>2 DEF TagInv
<1>5. HandleInv /\ HeldHandlesOpen
  BY <1>2, NoCallFacts DEF HandleInv, HeldHandlesOpen, Idle
<1>6. LeadsInv
  BY <1>2, NoCallFacts DEF LeadsInv, Ordered, Sending, Replying, Idle
<1>7. PartInv
  BY <1>2 DEF PartInv, Ids
<1>8. SingleInv
  BY <1>2 DEF SingleInv, Halfway
<1>9. TellsInv
  BY <1>2, NoResultFacts DEF TellsInv, Told, NoResult
<1> QED BY <1>1, <1>3, <1>4, <1>5, <1>6, <1>7, <1>8, <1>9 DEF IInv, QuietInv

LEMMA NextInv == IInv /\ Next => IInv'
<1> SUFFICES ASSUME IInv, Next PROVE IInv'
  OBVIOUS
<1>1. /\ TypeOK /\ CallInv /\ TagInv /\ HandleInv /\ HeldHandlesOpen /\ QuietInv
      /\ host.pc \in {"down", "flush"} => "restart" \in events
  BY DEF IInv, HandleInv
<1>2. TypeOK' /\ CallInv' /\ (ClientStep \/ ServerStep)
  BY <1>1, Steps
<1>3. /\ ClientStep \/ (ServerStep /\ ServerFlow)
      /\ events \subseteq events'
  BY <1>1, <1>2, Flows, ClientFlow DEF ServerFlow
<1>4. TagInv'
  BY <1>1, <1>2, <1>3, ServerTags, ClientTags
<1>5. HandleInv' /\ HeldHandlesOpen'
  BY <1>1, <1>3, ServerHandles, ClientHandles
<1>6. Quiet' => LeadsInv' /\ PartInv' /\ SingleInv' /\ TellsInv'
  BY <1>1, <1>2, <1>3, LeadsKept, PartsKept, SingleKept, TellsKept
<1> QED BY <1>2, <1>4, <1>5, <1>6 DEF IInv, QuietInv

LEMMA StutterInv == IInv /\ UNCHANGED vars => IInv'
<1> SUFFICES ASSUME IInv, UNCHANGED vars PROVE IInv'
  OBVIOUS
<1>1. /\ TypeOK /\ CallInv /\ TagInv /\ HandleInv /\ HeldHandlesOpen /\ QuietInv
  BY DEF IInv
<1>2. /\ client' = client /\ tag' = tag /\ active' = active /\ held' = held /\ calls' = calls
      /\ result' = result /\ svc' = svc /\ atou' = atou /\ utoa' = utoa /\ host' = host
      /\ table' = table /\ unique' = unique /\ dir' = dir /\ content' = content
      /\ effects' = effects /\ trouble' = trouble /\ events' = events
      /\ UNCHANGED clientVars /\ UNCHANGED diskVars
  BY DEF vars, clientVars, diskVars
<1>3. TypeOK'
  BY <1>1, <1>2, SameClientType, SameHostType, SameDiskType DEF TypeOK
<1>4. CallInv'
  BY <1>1, <1>2, ServerCallInv
<1>5. Commands' = Commands /\ Answers' = Answers
  BY <1>2 DEF Commands, Answers, Working, Replying
<1>6. TagInv'
  BY <1>1, <1>2, <1>5 DEF TagInv, Without, Calling, Fresh
<1>7. HandleInv' /\ HeldHandlesOpen'
  BY <1>1, <1>2, <1>5 DEF HandleInv, HeldHandlesOpen, Without, Closes, Brings
<1>8. ASSUME Quiet'
      PROVE  LeadsInv' /\ PartInv' /\ SingleInv' /\ TellsInv'
  <2>1. LeadsInv /\ PartInv /\ SingleInv /\ TellsInv
    BY <1>1, <1>2, <1>8, QuietBefore
  <2>2. Calm
    BY <1>2, <1>5, <2>1 DEF Calm, LeadsInv, Working, Replying, Sending, Current, Ordered
  <2>3. LeadsInv'
    BY <2>1, <2>2, CalmLeads
  <2>4. PartInv'
    BY <1>2, <1>5, <2>1 DEF PartInv, Calling
  <2>5. SingleInv'
    BY <1>2, <2>1 DEF SingleInv, Halfway, Calling, Replying
  <2>6. TellsInv'
    BY <1>2, <2>1, <2>2, CalmTells DEF Calm, Working
  <2> QED BY <2>3, <2>4, <2>5, <2>6
<1> QED BY <1>3, <1>4, <1>6, <1>7, <1>8 DEF IInv, QuietInv

\* What is on its way, wherever it is, belongs to a call that was made; what
\* bears the tag of the call in progress belongs to it; and what the program is
\* told agrees with what the server did.
THEOREM Invariance == Spec => []IInv
<1>1. IInv /\ [Next]_vars => IInv'
  BY NextInv, StutterInv
<1> QED BY InitInv, <1>1, PTL DEF Spec

\* The library, the server and the disk have values of the expected kind; a
\* request that the server collects data for is a write on a file that is open
\* for writing, and every handle is for a file that exists.
THEOREM TypeCorrect == Spec => []TypeOK
BY Invariance, PTL DEF IInv

\* host_recv_msg and host_msg: a call ends with the answer to its own last
\* message, whatever was left in the buffers by calls that timed out.
THEOREM AnswerIsMine == Spec => []ReplyIsMine
<1>1. IInv => ReplyIsMine
  BY DEF IInv, QuietInv, Quiet, TellsInv, ReplyIsMine
<1> QED BY Invariance, <1>1, PTL

\* handle_new and handle_free in hostsmash.c: a handle that the program holds
\* is open in the server, on the file it was opened on, also when the close of
\* another handle or an earlier open that nobody waits for is still to come.
THEOREM HeldIsOpen == Spec => []HeldHandlesOpen
BY Invariance, PTL DEF IInv

\* The message handlers of hostsmash.c: a call that returns success was carried
\* out, every message of it once.
THEOREM OkIsDone == Spec => []OkMeansDone
<1>1. IInv => OkMeansDone
  <2> SUFFICES ASSUME IInv, result.op # "none", result.status \in Success,
                      Without({"repeated", "refused", "dropped", "reboot"}),
                      NEW p \in Parts(result)
               PROVE  effects[<<result.id, p>>] = 1
    BY DEF OkMeansDone, Parts
  <2>1. Quiet /\ "dropped" \notin events
    BY DEF Quiet, Without
  <2>2. Told
    BY <2>1 DEF IInv, QuietInv, TellsInv
  <2> QED BY <2>1, <2>2 DEF Told, Meaning
<1> QED BY Invariance, <1>1, PTL

\* The reply_*_fail paths of hostsmash.c: a call that the server rejects has
\* done nothing. Nothing is said of one that host_recv_msg has given up.
THEOREM ErrorIsNotDone == Spec => []ErrorMeansNotDone
<1>1. IInv => ErrorMeansNotDone
  <2> SUFFICES ASSUME IInv, result.status \in HostErrors, result.op # "write", Quiet
               PROVE  effects[<<result.id, 1>>] = 0
    BY DEF ErrorMeansNotDone, Quiet
  <2>1. Told
    BY DEF IInv, QuietInv, TellsInv
  <2>2. result.op # "none"
    BY DEF IInv, CallInv, NoResult, HostErrors
  <2>3. 1 \in Parts(result)
    BY DEF Parts
  <2> QED BY <2>1, <2>2, <2>3 DEF Told, Meaning
<1> QED BY Invariance, <1>1, PTL

\* do_fread in hostsmash.c, sm_fread and host_recv_msg_cont: as long as nothing
\* was lost, repeated or restarted, a read that succeeds gives the bytes that
\* follow those of the last operation on the handle, all of them or up to the
\* end of the file, in order, out of however many messages.
THEOREM ReadsAreRight == Spec => []ReadsFollow
<1>1. Init => IInv /\ FollowInv
  BY InitInv, InitFollow
<1>2. IInv /\ FollowInv /\ [Next]_vars => IInv' /\ FollowInv'
  BY NextInv, StutterInv, NextFollow, StutterFollow
<1>3. FollowInv => ReadsFollow
  BY DEF FollowInv, ReadsFollow, Smooth
<1> QED BY <1>1, <1>2, <1>3, PTL DEF Spec
===============================================================================
