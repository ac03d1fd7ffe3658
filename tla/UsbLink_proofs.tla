---------------------------- MODULE UsbLink_proofs ----------------------------
(***************************************************************************)
(* Proofs about UsbLink: the reply that the host takes is its own, and a   *)
(* call that finds the line quiet gets its answer.                         *)
(*                                                                         *)
(* The second token of a magic is called the mark: whoever has read a mark *)
(* takes what follows for a command or a reply. As long as the host has    *)
(* given up on no command whose line was down, there is at most one mark   *)
(* between the host's writer and its reader, it belongs to the present     *)
(* command, and so does all that follows it.                               *)
(***************************************************************************)
EXTENDS UsbLink, SequenceTheorems, TLAPS

-----------------------------------------------------------------------------
(* Types.                                                                  *)

\* The commands, and what a reply can answer.
Of(kind) == IF kind = "cmd" THEN Commands ELSE Commands \cup {CrcError}
Token == {Magic(0), Magic(1), Noise}
             \cup ({"cmd"} \X Of("cmd") \X Nat) \cup ({"reply"} \X Of("reply") \X Nat)
Parser == [place : Nat, len : {0, 1, Long}, got : Seq(Token)]

HostType == [pc : {"idle", "send", "recv", "done"}, k : 0 .. Len(CmdData),
             out : Seq(Token), reply : Parser, t : Nat]
FwType == [pc : {"parse", "reply", "console"}, in : Parser, out : Seq(Seq(Token)), t : Nat]

TypeOK ==
    /\ host \in HostType /\ fw \in FwType
    /\ result \in [k : Nat, got : Int]
    /\ tx \in Seq(Token) /\ rx \in Seq(Token)
    /\ up \in BOOLEAN /\ paused \in BOOLEAN /\ late \in BOOLEAN /\ clean \in BOOLEAN
    /\ trouble \in Nat

MagicPiece == <<Magic(0), Magic(1)>>
\* What is queued where nobody is sending; a magic is only sent first.
Shape ==
    /\ Active => host.k > 0
    /\ host.pc # "send" => host.out = <<>>
    /\ host.pc # "recv" => host.reply = Start
    /\ fw.pc # "reply" => fw.out = <<>>
    /\ \A i \in 1 .. Len(fw.out) :
          \/ i = 1 /\ fw.out[i] = MagicPiece
          \/ Len(fw.out[i]) = 1 /\ fw.out[i][1][1] = "reply"
TypeInv == TypeOK /\ Shape

-----------------------------------------------------------------------------
(* Time. On a line that stays up the host is never kept from sending, and  *)
(* while it waits for a reply the firmware is idle or waits as long.       *)

TimeInv ==
    /\ Active /\ ~paused => up
    /\ host.pc = "send" /\ ~paused => host.t = 0
    /\ host.pc = "recv" /\ ~paused /\ host.t > 0 =>
          /\ tx = <<>> /\ fw.pc # "reply"
          /\ fw.pc = "parse" /\ fw.in.place > 0 => fw.t >= host.t
    /\ fw.t <= FwTicks

-----------------------------------------------------------------------------
(* The mark.                                                               *)

Mark == Magic(1)
NotMagic == {t \in Token : t[1] # "magic"}
OfCmd(k) == {t \in Token : t[1] = "cmd" /\ t[2] = k}
OfReply(k) == {t \in Token : t[1] = "noise" \/ (t[1] = "reply" /\ t[2] \in {k, CrcError})}

All(q, T) == \A i \in 1 .. Len(q) : q[i] \in T
Marked(q) == \E i \in 1 .. Len(q) : q[i] = Mark
\* After a mark there is nothing but T.
Tidy(q, T) == \A i, j \in 1 .. Len(q) : i < j /\ q[i] = Mark => q[j] \in T

\* The firmware will find no more magic.
CmdSpent ==
    /\ All(host.out, NotMagic) /\ All(tx, NotMagic)
    /\ fw.pc = "parse" => fw.in.place = 0
\* What the firmware sends after a magic.
RestOfReply(first, k) == \A i \in first .. Len(fw.out) : All(fw.out[i], OfReply(k))
MagicUnsent == fw.out # <<>> /\ fw.out[1] = MagicPiece

MarkInv(k) ==
    /\ Tidy(host.out, OfCmd(k)) /\ Tidy(tx, OfCmd(k)) /\ Tidy(rx, OfReply(k))
    /\ Marked(tx) => All(host.out, OfCmd(k))
    /\ fw.pc = "parse" /\ fw.in.place >= 2 =>
          /\ All(host.out, OfCmd(k)) /\ All(tx, OfCmd(k))
          /\ fw.in.place >= 3 => All(fw.in.got, OfCmd(k))
    /\ MagicUnsent => CmdSpent /\ RestOfReply(2, k)
    /\ Marked(rx) => CmdSpent /\ RestOfReply(1, k)
    /\ host.reply.place >= 2 =>
          /\ CmdSpent /\ RestOfReply(1, k) /\ All(rx, OfReply(k))
          /\ host.reply.place >= 3 => All(host.reply.got, OfReply(k))
    /\ ~Active => CmdSpent /\ ~MagicUnsent /\ ~Marked(rx)

OwnInv == late \/ (MarkInv(host.k) /\ OwnReply)

-----------------------------------------------------------------------------
(* A call that found the line quiet: its command, or its reply, is whole   *)
(* and alone on the way.                                                   *)

Size(kind, k) == Data(kind, k) + 4
Nth(kind, k, i) == IF i < 3 THEN Magic(i - 1) ELSE <<kind, k, i - 2>>
\* A parser has read the first tokens of this command or reply.
HasRead(s, kind, k) ==
    /\ s.place < Size(kind, k)
    /\ s.place >= 3 =>
          /\ s.len = Data(kind, k) /\ Len(s.got) = s.place - 2
          /\ \A i \in 1 .. s.place - 2 : s.got[i] = <<kind, k, i>>
\* The tokens of q are those from number n + 1.
Follows(q, n, kind, k) == \A i \in 1 .. Len(q) : q[i] = Nth(kind, k, n + i)

Asking(k) ==
    /\ fw.pc = "parse" /\ rx = <<>> /\ host.reply = Start
    /\ HasRead(fw.in, "cmd", k) /\ (fw.in.place > 0 => fw.t = 0)
    /\ fw.in.place + Len(tx) + Len(host.out) = Size("cmd", k)
    /\ Follows(tx, fw.in.place, "cmd", k)
    /\ Follows(host.out, fw.in.place + Len(tx), "cmd", k)

NSent(k) == IF Len(fw.out) = Data("reply", k) + 3 THEN 0 ELSE Size("reply", k) - Len(fw.out)
Answering(k) ==
    /\ host.out = <<>> /\ tx = <<>>
    /\ fw.pc # "console" /\ (fw.pc = "parse" => fw.in.place = 0)
    /\ Len(fw.out) <= Data("reply", k) + 3
    /\ \A i \in 1 .. Len(fw.out) :
          fw.out[i] = Pieces(k)[Data("reply", k) + 3 - Len(fw.out) + i]
    /\ HasRead(host.reply, "reply", k)
    /\ host.reply.place + Len(rx) = NSent(k)
    /\ Follows(rx, host.reply.place, "reply", k)

CleanInv ==
    clean => IF Active THEN up /\ ~paused /\ (Asking(host.k) \/ Answering(host.k))
                       ELSE result.got = result.k

Inv == TypeInv /\ TimeInv /\ OwnInv /\ CleanInv

-----------------------------------------------------------------------------
(* Tokens.                                                                 *)

\* The tokens, told apart by their first component.
LEMMA TokenFacts ==
    /\ Magic(0) \in Token /\ Magic(0)[1] = "magic" /\ Mark \in Token /\ Mark[1] = "magic"
    /\ Magic(0) # Mark
    /\ Noise \in Token /\ Noise[1] = "noise"
    /\ \A kind \in {"cmd", "reply"} : \A k \in Of(kind), i \in Nat :
          /\ <<kind, k, i>> \in Token
          /\ <<kind, k, i>>[1] = kind /\ <<kind, k, i>>[2] = k /\ <<kind, k, i>>[3] = i
BY DEF Magic, Mark, Noise, Token

\* A token with two numbers is not a magic.
LEMMA TokenKinds ==
    ASSUME NEW t \in Token
    PROVE  /\ t[1] \in {"magic", "noise", "cmd", "reply"}
           /\ t[1] = "magic" => t = Magic(0) \/ t = Mark
           /\ t[1] = "noise" => t = Noise
           /\ t[1] \in {"cmd", "reply"} =>
                 t[2] \in Of(t[1]) /\ t[3] \in Nat /\ t = <<t[1], t[2], t[3]>>
BY DEF Magic, Mark, Noise, Token

\* The tokens of a command or a reply are none of the magic.
LEMMA NotMark ==
    ASSUME NEW k
    PROVE  /\ OfCmd(k) \subseteq NotMagic /\ OfReply(k) \subseteq NotMagic
           /\ Mark \notin NotMagic /\ Magic(0) \notin NotMagic
           /\ Noise \in OfReply(k)
BY TokenFacts DEF OfCmd, OfReply, NotMagic

\* How much data there is.
LEMMA DataNat ==
    /\ Commands = 1 .. Len(CmdData) /\ Len(CmdData) \in Nat
    /\ \A kind \in {"cmd", "reply"} : \A k \in Of(kind) : k \in Nat /\ Data(kind, k) \in {0, 1}
<1>1. /\ DOMAIN CmdData = 1 .. Len(CmdData) /\ DOMAIN RepData = 1 .. Len(CmdData)
      /\ Len(CmdData) \in Nat
  BY LinkAssumption
<1>2. \A k \in 1 .. Len(CmdData) : CmdData[k] \in {0, 1} /\ RepData[k] \in {0, 1}
  BY <1>1, LinkAssumption
<1> QED BY <1>1, <1>2 DEF Commands, Data, CrcError, Of

-----------------------------------------------------------------------------
(* Queues.                                                                 *)

\* What is left of a queue when its head is taken.
LEMMA TailFacts ==
    ASSUME NEW S, NEW q \in Seq(S), q # <<>>
    PROVE  /\ Tail(q) \in Seq(S) /\ Len(q) \in Nat /\ Len(q) >= 1
           /\ Len(Tail(q)) = Len(q) - 1
           /\ \A i \in 1 .. Len(Tail(q)) : Tail(q)[i] = q[i + 1]
           /\ Head(q) = q[1] /\ q[1] \in S
BY HeadTailProperties

\* What a queue holds when a token is put in.
LEMMA AppendFacts ==
    ASSUME NEW S, NEW q \in Seq(S), NEW x \in S
    PROVE  /\ Append(q, x) \in Seq(S) /\ Append(q, x) # <<>>
           /\ Len(q) \in Nat /\ Len(Append(q, x)) = Len(q) + 1
           /\ \A i \in 1 .. Len(q) : Append(q, x)[i] = q[i]
           /\ Append(q, x)[Len(q) + 1] = x
BY AppendProperties

\* What a queue holds when a piece is sent.
LEMMA ConcatFacts ==
    ASSUME NEW S, NEW q \in Seq(S), NEW p \in Seq(S)
    PROVE  /\ q \o p \in Seq(S) /\ Len(q) \in Nat /\ Len(p) \in Nat
           /\ Len(q \o p) = Len(q) + Len(p)
           /\ \A i \in 1 .. Len(q) : (q \o p)[i] = q[i]
           /\ \A i \in 1 .. Len(p) : (q \o p)[Len(q) + i] = p[i]
<1>1. /\ q \o p \in Seq(S) /\ Len(q \o p) = Len(q) + Len(p)
      /\ Len(q) \in Nat /\ Len(p) \in Nat
  BY ConcatProperties
<1>2. \A i \in 1 .. Len(q) + Len(p) :
         (q \o p)[i] = IF i <= Len(q) THEN q[i] ELSE p[i - Len(q)]
  BY ConcatProperties
<1> QED BY <1>1, <1>2

\* A piece of one token.
LEMMA Singleton ==
    ASSUME NEW S, NEW q \in Seq(S), Len(q) = 1
    PROVE  q = <<q[1]>> /\ q[1] \in S
<1>1. 1 \in 1 .. Len(q)
  OBVIOUS
<1>2. PICK x \in S : x = q[1]
  BY <1>1, ElementOfSeq
<1>3. PICK r \in Seq(S) : r = <<x>>
  <2>1. <<x>> \in Seq(S)
    OBVIOUS
  <2> QED BY <2>1, Zenon
<1>4. Len(r) = 1 /\ r[1] = x
  BY <1>3
<1>5. \A i \in 1 .. Len(q) : q[i] = r[i]
  BY <1>2, <1>4
<1>6. q = r
  BY <1>4, <1>5, SeqEqual
<1> QED BY <1>2, <1>3, <1>6

\* r is what is left of q after losses.
Part(r, q) ==
    \E f \in [1 .. Len(r) -> 1 .. Len(q)] :
        /\ \A i, j \in 1 .. Len(r) : i < j => f[i] < f[j]
        /\ \A i \in 1 .. Len(r) : r[i] = q[f[i]]

\* Taking the head of a queue leaves a part of it.
LEMMA TailPart ==
    ASSUME NEW q \in Seq(Token), q # <<>>
    PROVE  Part(Tail(q), q)
<1> DEFINE f == [i \in 1 .. Len(Tail(q)) |-> i + 1]
<1>1. f \in [1 .. Len(Tail(q)) -> 1 .. Len(q)]
  BY TailFacts
<1>2. \A i, j \in 1 .. Len(Tail(q)) : i < j => f[i] < f[j]
  BY TailFacts
<1>3. \A i \in 1 .. Len(Tail(q)) : Tail(q)[i] = q[f[i]]
  BY TailFacts
<1> QED BY <1>1, <1>2, <1>3 DEF Part

\* So does a loss.
LEMMA WithoutPart ==
    ASSUME NEW q \in Seq(Token), NEW i \in 1 .. Len(q), NEW j \in 1 .. Len(q), i <= j
    PROVE  Without(q, i, j) \in Seq(Token) /\ Part(Without(q, i, j), q)
<1>1. Len(q) \in Nat /\ i \in Nat /\ j \in Nat /\ i >= 1 /\ j >= 1 /\ i <= Len(q) /\ j <= Len(q)
  OBVIOUS
<1>2. PICK L \in Nat : L = Len(q)
  BY <1>1
<1>3. i \in Nat /\ j \in Nat /\ i >= 1 /\ i <= j /\ j <= L
  BY <1>1, <1>2
<1>4. PICK a \in Seq(Token) :
        a = SubSeq(q, 1, i - 1) /\ Len(a) = i - 1 /\ \A n \in 1 .. i - 1 : a[n] = q[n]
  <2> DEFINE a == SubSeq(q, 1, i - 1)
  <2>1. \A n \in 1 .. i - 1 : q[n] \in Token
    BY <1>1
  <2>2. IF 1 <= i - 1 THEN Len(a) = i - 1 - 1 + 1 ELSE Len(a) = 0
    BY <1>1, SubSeqProperties
  <2>3. a \in Seq(Token) /\ \A n \in 1 .. i - 1 - 1 + 1 : a[n] = q[1 + n - 1]
    BY <1>1, <2>1, SubSeqProperties
  <2>4. Len(a) = i - 1 /\ \A n \in 1 .. i - 1 : a[n] = q[n]
    BY <1>1, <2>2, <2>3
  <2> QED BY <2>3, <2>4, Zenon
<1>5. PICK b \in Seq(Token) :
        b = SubSeq(q, j + 1, Len(q)) /\ Len(b) = L - j /\ \A n \in 1 .. L - j : b[n] = q[j + n]
  <2> DEFINE b == SubSeq(q, j + 1, Len(q))
  <2>1. \A n \in j + 1 .. Len(q) : q[n] \in Token
    BY <1>1
  <2>2. IF j + 1 <= Len(q) THEN Len(b) = Len(q) - (j + 1) + 1 ELSE Len(b) = 0
    BY <1>1, SubSeqProperties
  <2>3. b \in Seq(Token) /\ \A n \in 1 .. Len(q) - (j + 1) + 1 : b[n] = q[j + 1 + n - 1]
    BY <1>1, <2>1, SubSeqProperties
  <2>4. Len(b) = L - j /\ \A n \in 1 .. L - j : b[n] = q[j + n]
    BY <1>1, <1>2, <2>2, <2>3
  <2> QED BY <2>3, <2>4, Zenon
<1>6. PICK r : r = Without(q, i, j)
  OBVIOUS
<1>7. r = a \o b
  BY <1>4, <1>5, <1>6 DEF Without
<1>8. /\ r \in Seq(Token) /\ Len(r) = Len(a) + Len(b)
      /\ \A n \in 1 .. Len(a) : r[n] = a[n]
      /\ \A n \in 1 .. Len(b) : r[Len(a) + n] = b[n]
  <2> HIDE <1>4, <1>5
  <2> QED BY <1>7, ConcatFacts
<1>9. PICK M \in Nat : M = Len(r) /\ M = (i - 1) + (L - j)
  BY <1>3, <1>4, <1>5, <1>8
<1> DEFINE f == [n \in 1 .. M |-> IF n < i THEN n ELSE n + (j - i) + 1]
<1>10. f \in [1 .. M -> 1 .. L]
  BY <1>3, <1>9
<1>11. \A m, n \in 1 .. M : m < n => f[m] < f[n]
  BY <1>3, <1>9
<1>12. ASSUME NEW n \in 1 .. M PROVE r[n] = q[f[n]]
  <2>1. CASE n < i
    <3>1. n \in 1 .. i - 1 /\ f[n] = n
      BY <2>1, <1>3
    <3>2. r[n] = a[n] /\ a[n] = q[n]
      BY <3>1, <1>4, <1>8
    <3> QED BY <3>1, <3>2
  <2>2. CASE n >= i
    <3>1. PICK m \in 1 .. L - j : n = (i - 1) + m /\ f[n] = j + m
      <4>1. /\ n - (i - 1) \in 1 .. L - j /\ n = (i - 1) + (n - (i - 1))
            /\ f[n] = j + (n - (i - 1))
        BY <2>2, <1>3, <1>9
      <4> QED BY <4>1, Zenon
    <3>2. r[Len(a) + m] = b[m] /\ b[m] = q[j + m] /\ Len(a) = i - 1
      BY <1>4, <1>5, <1>8
    <3> QED BY <3>1, <3>2
  <2> QED BY <2>1, <2>2, <1>3
<1> HIDE DEF f
<1>13. Part(r, q)
  BY <1>2, <1>9, <1>10, <1>11, <1>12 DEF Part
<1> QED BY <1>6, <1>8, <1>13

\* What is said of a queue holds of what is left of it.
LEMMA PartKeeps ==
    ASSUME NEW q \in Seq(Token), NEW r \in Seq(Token), Part(r, q), NEW T
    PROVE  /\ All(q, T) => All(r, T)
           /\ Tidy(q, T) => Tidy(r, T)
           /\ Marked(r) => Marked(q)
           /\ q = <<>> => r = <<>>
<1>1. PICK f \in [1 .. Len(r) -> 1 .. Len(q)] :
        /\ \A i, j \in 1 .. Len(r) : i < j => f[i] < f[j]
        /\ \A i \in 1 .. Len(r) : r[i] = q[f[i]]
  BY DEF Part
<1>2. All(q, T) => All(r, T)
  BY <1>1 DEF All
<1>3. Tidy(q, T) => Tidy(r, T)
  BY <1>1 DEF Tidy
<1>4. Marked(r) => Marked(q)
  BY <1>1 DEF Marked
<1>5. q = <<>> => r = <<>>
  <2> SUFFICES ASSUME q = <<>>, r # <<>> PROVE FALSE
    OBVIOUS
  <2>1. 1 \in 1 .. Len(r)
    BY TailFacts
  <2>2. f[1] \in 1 .. 0
    BY <1>1, <2>1
  <2> QED BY <2>2
<1> QED BY <1>2, <1>3, <1>4, <1>5

\* A queue that holds only T holds no mark, if T is not of the magic.
LEMMA AllUnmarked ==
    ASSUME NEW q \in Seq(Token), NEW T, All(q, T)
    PROVE  /\ T \subseteq NotMagic => ~Marked(q) /\ All(q, NotMagic)
           /\ Tidy(q, T)
BY NotMark DEF All, Marked, Tidy

LEMMA UnmarkedTidy ==
    ASSUME NEW q, ~Marked(q), NEW T
    PROVE  Tidy(q, T)
BY DEF Marked, Tidy

LEMMA EmptyQueue ==
    ASSUME NEW T
    PROVE  All(<<>>, T) /\ Tidy(<<>>, T) /\ ~Marked(<<>>)
BY DEF All, Tidy, Marked

\* Taking the head.
LEMMA HeadKeeps ==
    ASSUME NEW q \in Seq(Token), q # <<>>, NEW T
    PROVE  /\ All(q, T) => Head(q) \in T /\ All(Tail(q), T)
           /\ Tidy(q, T) => Tidy(Tail(q), T)
           /\ Tidy(q, T) /\ Head(q) = Mark => All(Tail(q), T)
           /\ Head(q) = Mark => Marked(q)
           /\ Marked(Tail(q)) => Marked(q)
<1>1. Tail(q) \in Seq(Token) /\ Part(Tail(q), q)
  BY TailFacts, TailPart
<1>2. /\ All(q, T) => All(Tail(q), T)
      /\ Tidy(q, T) => Tidy(Tail(q), T)
      /\ Marked(Tail(q)) => Marked(q)
  BY <1>1, PartKeeps
<1>3. /\ Len(q) \in Nat /\ 1 \in 1 .. Len(q) /\ Head(q) = q[1] /\ Len(Tail(q)) = Len(q) - 1
      /\ \A i \in 1 .. Len(Tail(q)) : Tail(q)[i] = q[i + 1]
  BY TailFacts
<1>4. All(q, T) => Head(q) \in T
  BY <1>3 DEF All
<1>5. Head(q) = Mark => Marked(q)
  BY <1>3 DEF Marked
<1>6. ASSUME Tidy(q, T), Head(q) = Mark PROVE All(Tail(q), T)
  <2> SUFFICES ASSUME NEW i \in 1 .. Len(Tail(q)) PROVE Tail(q)[i] \in T
    BY DEF All
  <2>1. i + 1 \in 1 .. Len(q) /\ 1 < i + 1 /\ q[1] = Mark
    BY <1>3, <1>6
  <2>2. q[i + 1] \in T
    BY <2>1, <1>3, <1>6 DEF Tidy
  <2> QED BY <2>2, <1>3
<1> QED BY <1>2, <1>4, <1>5, <1>6

\* Putting a token in.
LEMMA AppendKeeps ==
    ASSUME NEW q \in Seq(Token), NEW t \in Token, NEW T
    PROVE  /\ All(Append(q, t), T) <=> All(q, T) /\ t \in T
           /\ Tidy(q, T) /\ (Marked(q) => t \in T) => Tidy(Append(q, t), T)
           /\ Marked(Append(q, t)) <=> Marked(q) \/ t = Mark
<1> DEFINE r == Append(q, t)
<1>1. /\ Len(q) \in Nat /\ Len(r) = Len(q) + 1 /\ r[Len(q) + 1] = t
      /\ \A i \in 1 .. Len(q) : r[i] = q[i]
  BY AppendFacts
<1> HIDE DEF r
<1>2. \A i \in 1 .. Len(r) : i \in 1 .. Len(q) \/ i = Len(q) + 1
  BY <1>1
<1>3. 1 .. Len(q) \subseteq 1 .. Len(r) /\ Len(q) + 1 \in 1 .. Len(r)
  BY <1>1
<1>4. All(r, T) <=> All(q, T) /\ t \in T
  BY <1>1, <1>2, <1>3 DEF All
<1>5. Marked(r) <=> Marked(q) \/ t = Mark
  BY <1>1, <1>2, <1>3 DEF Marked
<1>6. ASSUME Tidy(q, T), Marked(q) => t \in T PROVE Tidy(r, T)
  <2> SUFFICES ASSUME NEW i \in 1 .. Len(r), NEW j \in 1 .. Len(r), i < j, r[i] = Mark
               PROVE  r[j] \in T
    BY DEF Tidy
  <2>1. i \in 1 .. Len(q) /\ q[i] = Mark
    BY <1>1, <1>2
  <2>2. CASE j \in 1 .. Len(q)
    BY <2>1, <2>2, <1>1, <1>6 DEF Tidy
  <2>3. CASE j = Len(q) + 1
    BY <2>1, <2>3, <1>1, <1>6 DEF Marked
  <2> QED BY <2>2, <2>3, <1>2
<1> QED BY <1>4, <1>5, <1>6 DEF r
-----------------------------------------------------------------------------
(* Commands and replies.                                                   *)

\* What follows the magic.
LEMMA BodyFacts ==
    ASSUME NEW kind \in {"cmd", "reply"}, NEW k \in Of(kind)
    PROVE  /\ Body(kind, k) \in Seq(Token) /\ Len(Body(kind, k)) = Data(kind, k) + 2
           /\ \A i \in 1 .. Data(kind, k) + 2 : Body(kind, k)[i] = <<kind, k, i>>
           /\ Body(kind, k)[1] = <<kind, k, 1>> /\ 1 \in 1 .. Len(Body(kind, k))
<1>1. PICK n \in {2, 3} : n = Data(kind, k) + 2
  BY DataNat
<1>2. Body(kind, k) = [i \in 1 .. n |-> <<kind, k, i>>]
  BY <1>1 DEF Body
<1>3. \A i \in 1 .. n : <<kind, k, i>> \in Token
  BY TokenFacts
<1>4. /\ Body(kind, k) \in Seq(Token) /\ Len(Body(kind, k)) = n
      /\ \A i \in 1 .. n : Body(kind, k)[i] = <<kind, k, i>>
  BY <1>1, <1>2, <1>3
<1> QED BY <1>1, <1>4

\* A whole command.
LEMMA CommandFacts ==
    ASSUME NEW k \in Commands
    PROVE  /\ Command(k) \in Seq(Token) /\ Len(Command(k)) = Size("cmd", k)
           /\ \A i \in 1 .. Size("cmd", k) : Command(k)[i] = Nth("cmd", k, i)
<1>1. k \in Of("cmd")
  BY DEF Of
<1>2. PICK n \in {2, 3} : n = Data("cmd", k) + 2
  BY <1>1, DataNat
<1>3. /\ Body("cmd", k) \in Seq(Token) /\ Len(Body("cmd", k)) = n
      /\ \A i \in 1 .. n : Body("cmd", k)[i] = <<"cmd", k, i>>
  BY <1>1, <1>2, BodyFacts
<1>4. /\ MagicPiece \in Seq(Token) /\ Len(MagicPiece) = 2
      /\ MagicPiece[1] = Magic(0) /\ MagicPiece[2] = Magic(1)
  BY TokenFacts DEF MagicPiece, Mark
<1>5. /\ Command(k) \in Seq(Token) /\ Len(Command(k)) = 2 + n
      /\ \A i \in 1 .. 2 : Command(k)[i] = MagicPiece[i]
      /\ \A i \in 1 .. n : Command(k)[2 + i] = Body("cmd", k)[i]
  <2>1. PICK m \in Seq(Token), b \in Seq(Token) : m = MagicPiece /\ b = Body("cmd", k)
    BY <1>3, <1>4, Zenon
  <2>2. Command(k) = m \o b
    BY <2>1 DEF Command, MagicPiece
  <2>3. m \in Seq(Token) /\ Len(m) = 2 /\ b \in Seq(Token) /\ Len(b) = n
    BY <2>1, <1>3, <1>4
  <2>4. /\ m \o b \in Seq(Token) /\ Len(m \o b) = Len(m) + Len(b)
        /\ \A i \in 1 .. Len(m) : (m \o b)[i] = m[i]
        /\ \A i \in 1 .. Len(b) : (m \o b)[Len(m) + i] = b[i]
    BY ConcatFacts
  <2> QED BY <2>1, <2>2, <2>3, <2>4, Zenon
<1>6. ASSUME NEW i \in 1 .. 2 + n PROVE Command(k)[i] = Nth("cmd", k, i)
  <2>1. CASE i = 1
    BY <2>1, <1>4, <1>5 DEF Nth
  <2>2. CASE i = 2
    BY <2>2, <1>4, <1>5 DEF Nth
  <2>3. CASE i > 2
    <3>1. i - 2 \in 1 .. n /\ i = 2 + (i - 2)
      BY <2>3, <1>2
    <3>2. Command(k)[2 + (i - 2)] = <<"cmd", k, i - 2>>
      BY <3>1, <1>3, <1>5
    <3> QED BY <3>1, <3>2, <2>3 DEF Nth
  <2> QED BY <2>1, <2>2, <2>3, <1>2
<1>7. Size("cmd", k) = 2 + n
  <2>1. Data("cmd", k) \in {0, 1}
    BY <1>1, DataNat
  <2> QED BY <2>1, <1>2 DEF Size
<1> QED BY <1>5, <1>6, <1>7

\* A whole reply, in pieces.
LEMMA PiecesFacts ==
    ASSUME NEW k \in Of("reply")
    PROVE  /\ Pieces(k) \in Seq(Seq(Token)) /\ Len(Pieces(k)) = Data("reply", k) + 3
           /\ Pieces(k)[1] = MagicPiece
           /\ \A i \in 2 .. Data("reply", k) + 3 : Pieces(k)[i] = <<<<"reply", k, i - 1>>>>
<1>1. PICK n \in {2, 3} : n = Data("reply", k) + 2
  BY DataNat
<1>2. /\ Body("reply", k) \in Seq(Token) /\ Len(Body("reply", k)) = n
      /\ \A i \in 1 .. n : Body("reply", k)[i] = <<"reply", k, i>>
  BY <1>1, BodyFacts
<1>3. PICK b : b = [i \in 1 .. n |-> <<Body("reply", k)[i]>>]
  OBVIOUS
<1>4. b \in Seq(Seq(Token)) /\ Len(b) = n /\ \A i \in 1 .. n : b[i] = <<<<"reply", k, i>>>>
  <2>1. \A i \in 1 .. n : Body("reply", k)[i] \in Token
    BY <1>1, <1>2
  <2>2. \A i \in 1 .. n : <<Body("reply", k)[i]>> \in Seq(Token)
    BY <2>1
  <2>3. PICK S : S = Seq(Token)
    OBVIOUS
  <2>4. b \in [1 .. n -> S]
    BY <2>2, <2>3, <1>3, Zenon
  <2>5. b \in Seq(S) /\ Len(b) = n
    BY <2>4, <1>1
  <2>6. \A i \in 1 .. n : b[i] = <<<<"reply", k, i>>>>
    BY <1>2, <1>3
  <2> QED BY <2>3, <2>5, <2>6
<1>5. MagicPiece \in Seq(Token)
  BY TokenFacts DEF MagicPiece, Mark
<1>6. PICK a : a = <<MagicPiece>>
  OBVIOUS
<1>7. a \in Seq(Seq(Token)) /\ Len(a) = 1 /\ a[1] = MagicPiece
  BY <1>5, <1>6
<1>8. Pieces(k) = a \o b
  <2>1. DOMAIN Body("reply", k) = 1 .. n
    BY <1>1, <1>2
  <2> QED BY <2>1, <1>3, <1>6 DEF Pieces, MagicPiece
<1>9. /\ Pieces(k) \in Seq(Seq(Token)) /\ Len(Pieces(k)) = 1 + n
      /\ Pieces(k)[1] = MagicPiece
      /\ \A i \in 1 .. n : Pieces(k)[1 + i] = <<<<"reply", k, i>>>>
  <2>1. PICK S, p : S = Seq(Token) /\ p = a \o b
    OBVIOUS
  <2>2. /\ p \in Seq(S) /\ Len(p) = Len(a) + Len(b)
        /\ \A i \in 1 .. Len(a) : p[i] = a[i]
        /\ \A i \in 1 .. Len(b) : p[Len(a) + i] = b[i]
    <3>1. PICK c \in Seq(S), d \in Seq(S) : c = a /\ d = b
      BY <2>1, <1>4, <1>7
    <3>2. /\ c \o d \in Seq(S) /\ Len(c \o d) = Len(c) + Len(d)
          /\ \A i \in 1 .. Len(c) : (c \o d)[i] = c[i]
          /\ \A i \in 1 .. Len(d) : (c \o d)[Len(c) + i] = d[i]
      BY ConcatFacts
    <3> QED BY <3>1, <3>2, <2>1, Zenon
  <2>3. Pieces(k) = p /\ Len(p) = 1 + n /\ 1 \in 1 .. Len(a)
    BY <2>1, <2>2, <1>4, <1>7, <1>8
  <2>4. \A i \in 1 .. n : p[1 + i] = <<<<"reply", k, i>>>>
    BY <2>2, <1>4, <1>7, Zenon
  <2>5. p[1] = MagicPiece
    BY <2>2, <2>3, <1>7, Zenon
  <2> QED BY <2>1, <2>2, <2>3, <2>4, <2>5, Zenon
<1>10. ASSUME NEW i \in 2 .. 1 + n PROVE Pieces(k)[i] = <<<<"reply", k, i - 1>>>>
  <2>1. i - 1 \in 1 .. n /\ i = 1 + (i - 1)
    BY <1>1
  <2> QED BY <2>1, <1>9
<1>11. Data("reply", k) + 3 = 1 + n
  <2>1. Data("reply", k) \in {0, 1}
    BY DataNat
  <2> QED BY <2>1, <1>1
<1> QED BY <1>9, <1>10, <1>11

\* One token read by a parser.
LEMMA ReadsFacts ==
    ASSUME NEW s \in Parser, NEW t \in Token, NEW r \in Reads(s, t)
    PROVE  /\ r \in Parser
           /\ s.place < 2 => r = Start \/ (t = Magic(s.place) /\ r = [s EXCEPT !.place = @ + 1])
           /\ s.place = 2 => r.place = 3 /\ r.len \in Lengths(t) /\ r.got = <<t>>
           /\ s.place > 2 => r.place = s.place + 1 /\ r.len = s.len /\ r.got = Append(s.got, t)
           /\ Complete(r) => s.place > 2
<1>1. /\ s = [place |-> s.place, len |-> s.len, got |-> s.got]
      /\ s.place \in Nat /\ s.len \in {0, 1, 9} /\ s.got \in Seq(Token)
  BY DEF Parser, Long
<1>2. Start \in Parser /\ Start.place = 0 /\ Start.len = 0
  BY DEF Start, Parser
<1>3. CASE s.place < 2
  <2>1. r = Start \/ (t = Magic(s.place) /\ r = [s EXCEPT !.place = @ + 1])
    BY <1>3 DEF Reads
  <2>2. r = [s EXCEPT !.place = @ + 1] =>
            r \in Parser /\ r.place = s.place + 1 /\ r.len = s.len
    BY <1>1 DEF Parser
  <2>3. r \in Parser /\ r.place <= 2 /\ r.len \in {0, 1, 9}
    BY <2>1, <2>2, <1>1, <1>2, <1>3
  <2> QED BY <2>1, <2>3, <1>1, <1>3 DEF Complete
<1>4. CASE s.place = 2
  <2>1. Lengths(t) \subseteq {0, 1, Long}
    <3>1. IsHeader(t) => t[1] \in {"cmd", "reply"}
      BY TokenKinds DEF IsHeader
    <3>2. IsHeader(t) => Data(t[1], t[2]) \in {0, 1}
      BY <3>1, TokenKinds, DataNat
    <3> QED BY <3>2 DEF Lengths
  <2>2. PICK n \in Lengths(t) : r = [place |-> 3, len |-> n, got |-> <<t>>]
    BY <1>4 DEF Reads
  <2>3. r.place = 3 /\ r.len = n /\ r.got = <<t>> /\ r \in Parser
    BY <2>1, <2>2 DEF Parser
  <2>4. r.len \in {0, 1, 9}
    BY <2>1, <2>3 DEF Long
  <2> QED BY <2>3, <2>4, <1>4 DEF Complete
<1>5. CASE s.place > 2
  <2>1. r = [s EXCEPT !.place = @ + 1, !.got = Append(@, t)]
    BY <1>1, <1>5 DEF Reads
  <2>2. Append(s.got, t) \in Seq(Token)
    BY <1>1, AppendFacts
  <2>3. PICK g \in Seq(Token) : g = Append(s.got, t)
    BY <2>2
  <2>4. PICK n, l : n = s.place + 1 /\ l = s.len
    OBVIOUS
  <2>5. r = [place |-> n, len |-> l, got |-> g]
    BY <2>1, <2>3, <2>4, <1>1
  <2>6. r \in Parser
    BY <2>5, <2>4, <1>1 DEF Parser, Long
  <2>7. r.place = s.place + 1 /\ r.len = s.len /\ r.got = Append(s.got, t)
    BY <2>3, <2>4, <2>5
  <2> QED BY <2>6, <2>7, <1>1, <1>5
<1> QED BY <1>1, <1>3, <1>4, <1>5
-----------------------------------------------------------------------------
(* What each step does, field by field; the types are kept.                *)

LEMMA HostFields ==
    ASSUME NEW h \in HostType
    PROVE  /\ h = [pc |-> h.pc, k |-> h.k, out |-> h.out, reply |-> h.reply, t |-> h.t]
           /\ h.pc \in {"idle", "send", "recv", "done"} /\ h.k \in Nat /\ h.k <= Len(CmdData)
           /\ h.out \in Seq(Token) /\ h.reply \in Parser /\ h.t \in Nat
BY LinkAssumption DEF HostType

LEMMA FwFields ==
    ASSUME NEW f \in FwType
    PROVE  /\ f = [pc |-> f.pc, in |-> f.in, out |-> f.out, t |-> f.t]
           /\ f.pc \in {"parse", "reply", "console"} /\ f.in \in Parser
           /\ f.out \in Seq(Seq(Token)) /\ f.t \in Nat
BY DEF FwType

LEMMA ParserFields ==
    /\ Start \in Parser /\ Start.place = 0
    /\ \A s \in Parser : s.place \in Nat /\ s.len \in {0, 1, 9} /\ s.got \in Seq(Token)
BY DEF Parser, Start, Long

\* What is being sent while the queue is not sent on.
PieceShape(out) ==
    \A i \in 1 .. Len(out) :
        \/ i = 1 /\ out[i] = MagicPiece
        \/ Len(out[i]) = 1 /\ out[i][1][1] = "reply"

LEMMA BeginStep ==
    ASSUME TypeInv, Begin
    PROVE  /\ host.pc = "idle" /\ host'.pc = "send" /\ host'.k = host.k + 1 /\ host'.k \in Commands
           /\ host'.out = Command(host'.k) /\ host'.reply = Start /\ host'.t = 0
           /\ TypeInv'
<1> USE DEF TypeInv, TypeOK
<1>1. host.k \in Nat /\ host.k < Len(CmdData) /\ Len(CmdData) \in Nat
  BY HostFields, LinkAssumption DEF Begin
<1>2. PICK k \in Commands : k = host.k + 1
  BY <1>1, DataNat
<1>3. host' = [pc |-> "send", k |-> k, out |-> Command(k), reply |-> Start, t |-> 0]
  BY <1>2 DEF Begin
<1>4. Command(k) \in Seq(Token) /\ Start \in Parser /\ k \in 0 .. Len(CmdData) /\ k > 0
  BY <1>1, <1>2, CommandFacts, ParserFields
<1>5. host' \in HostType
  BY <1>3, <1>4 DEF HostType
<1>6. clean' \in BOOLEAN /\ paused' \in BOOLEAN
  BY DEF Begin
<1>7. TypeOK'
  BY <1>5, <1>6 DEF Begin
<1>8. Shape'
  BY <1>3, <1>4 DEF Begin, Shape, Active
<1> QED BY <1>2, <1>3, <1>7, <1>8 DEF Begin

LEMMA PutStep ==
    ASSUME TypeInv, Put
    PROVE  /\ host.pc = "send" /\ host'.pc = "send" /\ host'.k = host.k
           /\ host'.out = Tail(host.out) /\ host'.reply = host.reply /\ host'.t = 0
           /\ TypeInv'
<1> USE DEF TypeInv, TypeOK
<1>1. /\ host.out # <<>> /\ host.out \in Seq(Token)
      /\ Head(host.out) \in Token /\ Tail(host.out) \in Seq(Token)
      /\ Append(tx, Head(host.out)) \in Seq(Token)
  <2>1. host.out # <<>> /\ host.out \in Seq(Token)
    BY HostFields DEF Put
  <2>2. Head(host.out) \in Token /\ Tail(host.out) \in Seq(Token)
    BY <2>1, TailFacts
  <2> QED BY <2>1, <2>2, AppendFacts
<1>2. PICK out \in Seq(Token) : out = Tail(host.out)
  BY <1>1
<1>3. /\ host' \in HostType /\ host'.pc = host.pc /\ host'.k = host.k
      /\ host'.out = out /\ host'.reply = host.reply /\ host'.t = 0
  <2>1. host' = [host EXCEPT !.out = out, !.t = 0]
    BY <1>2 DEF Put
  <2> QED BY <2>1 DEF HostType
<1>4. TypeOK'
  BY <1>1, <1>3 DEF Put
<1>5. Shape'
  BY <1>3 DEF Put, Shape, Active
<1> QED BY <1>2, <1>3, <1>4, <1>5 DEF Put

LEMMA AllPutStep ==
    ASSUME TypeInv, AllPut
    PROVE  /\ host.pc = "send" /\ host'.pc = "recv" /\ host'.k = host.k
           /\ host.out = <<>> /\ host'.out = host.out
           /\ host'.reply = host.reply /\ host'.reply = Start /\ host'.t = 0
           /\ TypeInv'
<1> USE DEF TypeInv, TypeOK
<1>3. /\ host' \in HostType /\ host'.pc = "recv" /\ host'.k = host.k
      /\ host'.out = host.out /\ host'.reply = host.reply /\ host'.t = 0
  <2>1. host' = [host EXCEPT !.pc = "recv", !.t = 0]
    BY DEF AllPut
  <2> QED BY <2>1 DEF HostType
<1>4. TypeOK'
  BY <1>3 DEF AllPut
<1>5. Shape'
  BY <1>3 DEF AllPut, Shape, Active
<1> QED BY <1>3, <1>4, <1>5 DEF AllPut, Shape

\* A call returns.
LEMMA ReturnsStep ==
    ASSUME TypeOK, Active, NEW got \in Int, NEW next \in {"idle", "done"}, Returns(got, next)
    PROVE  /\ host'.pc = next /\ host'.k = host.k /\ host'.out = <<>> /\ host'.reply = Start
           /\ host'.t = 0 /\ host' \in HostType
           /\ result'.k = host.k /\ result'.got = got /\ result' \in [k : Nat, got : Int]
<1>1. PICK out \in Seq(Token), reply \in Parser : out = <<>> /\ reply = Start
  <2>1. <<>> \in Seq(Token) /\ Start \in Parser
    BY ParserFields
  <2> QED BY <2>1, Zenon
<1>2. host' = [host EXCEPT !.pc = next, !.out = out, !.reply = reply, !.t = 0]
  BY <1>1 DEF Returns
<1>3. /\ host'.pc = next /\ host'.k = host.k /\ host'.out = <<>> /\ host'.reply = Start
      /\ host'.t = 0 /\ host' \in HostType
  BY <1>1, <1>2 DEF TypeOK, HostType
<1>4. result' \in [k : Nat, got : Int] /\ result'.k = host.k /\ result'.got = got
  BY HostFields DEF Returns, TypeOK
<1> QED BY <1>3, <1>4

LEMMA GiveUpStep ==
    ASSUME TypeInv, GiveUp
    PROVE  /\ Active /\ host'.pc \in {"idle", "done"} /\ host'.k = host.k
           /\ host'.out = <<>> /\ host'.reply = Start /\ host'.t = 0
           /\ result'.k = host.k /\ result'.got = Nothing
           /\ TypeInv'
<1> USE DEF TypeInv, TypeOK
<1>1. PICK next \in {"idle", "done"} : Returns(Nothing, next)
  BY DEF GiveUp
<1>2. Active /\ Nothing \in Int
  BY DEF GiveUp, Active, Nothing
<1>3. /\ host'.pc = next /\ host'.k = host.k /\ host'.out = <<>> /\ host'.reply = Start
      /\ host'.t = 0 /\ host' \in HostType
      /\ result'.k = host.k /\ result'.got = Nothing /\ result' \in [k : Nat, got : Int]
  BY <1>1, <1>2, ReturnsStep
<1>4. TypeOK'
  BY <1>3 DEF GiveUp
<1>5. Shape'
  BY <1>3 DEF GiveUp, Shape, Active
<1> QED BY <1>2, <1>3, <1>4, <1>5

\* The host reads a token. Either the reply goes on, or the call returns.
Took == \E s \in Reads(host.reply, Head(rx)) :
           /\ Complete(s) /\ s \in Parser
           /\ host'.pc \in {"idle", "done"} /\ host'.out = <<>> /\ host'.reply = Start
           /\ host'.t = 0 /\ result'.k = host.k
           /\ \/ \E k \in Of("reply") : s.got = Body("reply", k) /\ result'.got = k
              \/ s.got # Body("reply", host.k) /\ result'.got = Nothing
ReadOn == /\ host'.reply \in Reads(host.reply, Head(rx)) /\ ~Complete(host'.reply)
          /\ host'.pc = host.pc /\ host'.out = host.out /\ host'.t = host.t /\ result' = result

LEMMA ReceiveStep ==
    ASSUME TypeInv, Receive
    PROVE  /\ host.pc = "recv" /\ rx # <<>> /\ Head(rx) \in Token /\ host'.k = host.k
           /\ Took \/ ReadOn
           /\ TypeInv'
<1> USE DEF TypeInv, TypeOK
<1>1. host.pc = "recv" /\ rx # <<>> /\ Active
  BY DEF Receive, Active
<1>2. Head(rx) \in Token /\ Tail(rx) \in Seq(Token)
  BY <1>1, TailFacts
<1>3. PICK s \in Reads(host.reply, Head(rx)) :
        IF ~Complete(s)
        THEN host' = [host EXCEPT !.reply = s] /\ UNCHANGED result
        ELSE \/ \E k \in Commands \cup {CrcError} :
                    s.got = Body("reply", k) /\ Returns(k, "idle")
             \/ /\ \A k \in {host.k, CrcError} : s.got # Body("reply", k)
                /\ \E next \in {"idle", "done"} : Returns(Nothing, next)
  BY DEF Receive
<1>4. s \in Parser
  BY <1>2, HostFields, ReadsFacts
<1>5. CASE ~Complete(s)
  <2>1. host' = [pc |-> host.pc, k |-> host.k, out |-> host.out, reply |-> s, t |-> host.t]
    BY <1>3, <1>5, HostFields
  <2>2. host' \in HostType /\ result' = result
    BY <1>3, <1>4, <1>5, <2>1, HostFields DEF HostType
  <2>3. TypeOK'
    BY <2>2, <1>2 DEF Receive
  <2>4. Shape'
    BY <2>1, <1>1 DEF Receive, Shape, Active
  <2> QED BY <2>1, <2>2, <2>3, <2>4, <1>1, <1>2, <1>3, <1>5 DEF ReadOn
<1>6. CASE Complete(s)
  <2>1. PICK got \in Int, next \in {"idle", "done"} :
          /\ Returns(got, next)
          /\ \/ got \in Of("reply") /\ s.got = Body("reply", got)
             \/ got = Nothing /\ s.got # Body("reply", host.k)
    <3>1. Of("reply") = Commands \cup {CrcError} /\ Nothing \in Int
      BY DEF Of, Nothing
    <3>2. Of("reply") \subseteq Int
      <4>1. \A k \in Of("reply") : k \in Nat
        BY DataNat
      <4> QED BY <4>1
    <3> QED BY <3>1, <3>2, <1>3, <1>6
  <2>2. /\ host'.pc = next /\ host'.k = host.k /\ host'.out = <<>> /\ host'.reply = Start
        /\ host'.t = 0 /\ host' \in HostType
        /\ result'.k = host.k /\ result'.got = got /\ result' \in [k : Nat, got : Int]
    BY <2>1, <1>1, ReturnsStep
  <2>3. TypeOK'
    BY <2>2, <1>2 DEF Receive
  <2>4. Shape'
    BY <2>2 DEF Receive, Shape, Active
  <2>5. Took
    BY <2>1, <2>2, <1>4, <1>6 DEF Took
  <2> QED BY <2>2, <2>3, <2>4, <2>5, <1>1, <1>2
<1> QED BY <1>5, <1>6
\* The parser of the firmware takes a token.
ParsesOn == \E s \in Reads(fw.in, Head(tx)) :
               /\ s \in Parser /\ ~Complete(s)
               /\ fw'.pc = "parse" /\ fw'.in = s /\ fw'.out = fw.out /\ fw'.t = 0
Drops == /\ fw'.pc = "parse" /\ fw'.in = Start /\ fw'.out = fw.out /\ fw'.t = 0
         /\ \E s \in Reads(fw.in, Head(tx)) : s \in Parser /\ s.place = 3 /\ s.len = Long
ToConsole == /\ fw.in.place = 0 /\ Head(tx)[1] # "magic"
             /\ fw'.pc = "console" /\ fw'.in = fw.in /\ fw'.out = fw.out /\ fw'.t = fw.t
Answers == \E s \in Reads(fw.in, Head(tx)), k \in Of("reply") :
              /\ s \in Parser /\ Complete(s) /\ Received(s, k)
              /\ fw'.pc = "reply" /\ fw'.in = fw.in /\ fw'.out = Pieces(k) /\ fw'.t = fw.t

LEMMA ParseStep ==
    ASSUME TypeInv, Parse
    PROVE  /\ fw.pc = "parse" /\ fw.out = <<>> /\ tx # <<>> /\ Head(tx) \in Token
           /\ ToConsole \/ ParsesOn \/ Drops \/ Answers
           /\ TypeInv'
<1> USE DEF TypeInv, TypeOK
<1>1. fw.pc = "parse" /\ tx # <<>> /\ fw.out = <<>>
  BY DEF Parse, Shape
<1>2. Head(tx) \in Token /\ Tail(tx) \in Seq(Token)
  BY <1>1, TailFacts
<1>3. fw.in \in Parser
  BY FwFields
<1>4. fw' \in FwType => TypeOK'
  BY <1>2 DEF Parse
<1>7. ASSUME fw'.out = <<>>, fw'.pc # "reply" PROVE Shape'
  <2>1. host' = host
    BY DEF Parse
  <2> QED BY <2>1, <1>7 DEF Shape, Active
<1>5. CASE fw.in.place = 0 /\ Head(tx)[1] # "magic" /\ fw' = [fw EXCEPT !.pc = "console"]
  <2>1. /\ fw' \in FwType /\ fw'.pc = "console" /\ fw'.in = fw.in
        /\ fw'.out = fw.out /\ fw'.t = fw.t
    BY <1>5 DEF FwType
  <2> QED BY <2>1, <1>1, <1>2, <1>4, <1>7, <1>5 DEF ToConsole
<1>6. CASE \E s \in Reads(fw.in, Head(tx)) :
             \/ /\ s.place = 3 /\ s.len = Long
                /\ fw' = [fw EXCEPT !.in = Start, !.t = 0]
             \/ ~Complete(s) /\ fw' = [fw EXCEPT !.in = s, !.t = 0]
             \/ /\ Complete(s)
                /\ \E k \in Commands \cup {CrcError} :
                       Received(s, k) /\ fw' = [fw EXCEPT !.pc = "reply", !.out = Pieces(k)]
  <2>1. PICK s \in Reads(fw.in, Head(tx)) :
             \/ /\ s.place = 3 /\ s.len = Long
                /\ fw' = [fw EXCEPT !.in = Start, !.t = 0]
             \/ ~Complete(s) /\ fw' = [fw EXCEPT !.in = s, !.t = 0]
             \/ /\ Complete(s)
                /\ \E k \in Commands \cup {CrcError} :
                       Received(s, k) /\ fw' = [fw EXCEPT !.pc = "reply", !.out = Pieces(k)]
    BY <1>6
  <2>2. s \in Parser
    BY <1>2, <1>3, ReadsFacts
  <2>3. CASE s.place = 3 /\ s.len = Long /\ fw' = [fw EXCEPT !.in = Start, !.t = 0]
    <3>1. /\ fw' \in FwType /\ fw'.pc = fw.pc /\ fw'.in = Start
          /\ fw'.out = fw.out /\ fw'.t = 0
      BY <2>3, ParserFields DEF FwType
    <3> QED BY <3>1, <2>2, <2>3, <1>1, <1>2, <1>4, <1>7 DEF Drops
  <2>4. CASE ~Complete(s) /\ fw' = [fw EXCEPT !.in = s, !.t = 0]
    <3>1. fw' \in FwType /\ fw'.pc = fw.pc /\ fw'.in = s /\ fw'.out = fw.out /\ fw'.t = 0
      BY <2>2, <2>4 DEF FwType
    <3> QED BY <3>1, <2>2, <2>4, <1>1, <1>2, <1>4, <1>7 DEF ParsesOn
  <2>5. CASE /\ Complete(s)
             /\ \E k \in Commands \cup {CrcError} :
                    Received(s, k) /\ fw' = [fw EXCEPT !.pc = "reply", !.out = Pieces(k)]
    <3>1. PICK k \in Of("reply") :
            Received(s, k) /\ fw' = [fw EXCEPT !.pc = "reply", !.out = Pieces(k)]
      BY <2>5 DEF Of
    <3>2. PICK out \in Seq(Seq(Token)) : out = Pieces(k)
      BY PiecesFacts
    <3>3. fw' \in FwType /\ fw'.pc = "reply" /\ fw'.in = fw.in /\ fw'.out = out /\ fw'.t = fw.t
      BY <3>1, <3>2 DEF FwType
    <3>4. PieceShape(out)
      <4>1. PICK n \in Nat : n = Data("reply", k) + 3
        <5>1. Data("reply", k) \in {0, 1}
          BY DataNat
        <5>2. Data("reply", k) + 3 \in Nat
          BY <5>1
        <5> QED BY <5>2
      <4>2. /\ Len(out) = n /\ out[1] = MagicPiece
            /\ \A i \in 2 .. n : out[i] = <<<<"reply", k, i - 1>>>>
        BY <3>2, <4>1, PiecesFacts
      <4>3. ASSUME NEW i \in 2 .. n PROVE Len(out[i]) = 1 /\ out[i][1][1] = "reply"
        <5>1. out[i] = <<<<"reply", k, i - 1>>>>
          BY <4>2
        <5>2. \A x : Len(<<x>>) = 1 /\ <<x>>[1] = x
          OBVIOUS
        <5> QED BY <5>1, <5>2
      <4>4. \A i \in 1 .. n : i = 1 \/ i \in 2 .. n
        OBVIOUS
      <4> QED BY <4>2, <4>3, <4>4 DEF PieceShape
    <3>5. Shape'
      BY <3>3, <3>4 DEF Parse, Shape, Active, PieceShape
    <3>6. Answers
      BY <3>1, <3>2, <3>3, <2>2, <2>5 DEF Answers
    <3> QED BY <3>3, <3>5, <3>6, <1>1, <1>2, <1>4, <1>7
  <2> QED BY <2>1, <2>3, <2>4, <2>5
<1> QED BY <1>5, <1>6 DEF Parse

LEMMA ConsoleStep ==
    ASSUME TypeInv, Console
    PROVE  tx # <<>> /\ fw.pc = "console" /\ Tail(tx) \in Seq(Token) /\ TypeInv'
<1> USE DEF TypeInv, TypeOK
<1>1. Tail(tx) \in Seq(Token)
  BY TailFacts DEF Console
<1>2. TypeOK'
  BY <1>1 DEF Console
<1>3. Shape'
  BY DEF Console, Shape, Active
<1> QED BY <1>1, <1>2, <1>3 DEF Console

LEMMA TimeOutStep ==
    ASSUME TypeInv, TimeOut
    PROVE  /\ fw.pc = "parse" /\ fw.t >= FwTicks
           /\ fw'.pc = "parse" /\ fw'.in = Start /\ fw'.out = fw.out /\ fw'.t = 0
           /\ TypeInv'
<1> USE DEF TypeInv, TypeOK
<1>1. fw' \in FwType /\ fw'.pc = fw.pc /\ fw'.in = Start /\ fw'.out = fw.out /\ fw'.t = 0
  BY ParserFields DEF FwType, TimeOut, Forgets
<1>2. TypeOK'
  BY <1>1 DEF TimeOut
<1>3. Shape'
  BY <1>1 DEF TimeOut, Shape, Active
<1> QED BY <1>1, <1>2, <1>3 DEF TimeOut

LEMMA TroubledStep ==
    ASSUME TypeOK, Troubled
    PROVE  clean' = FALSE /\ clean' \in BOOLEAN /\ trouble' \in Nat
<1>1. trouble' \in Nat
  BY DEF Troubled, TypeOK
<1>2. clean' = FALSE
  BY DEF Troubled
<1>3. clean' \in BOOLEAN
  BY <1>2
<1> QED BY <1>1, <1>2, <1>3

LEMMA SendPieceStep ==
    ASSUME TypeInv, SendPiece
    PROVE  /\ fw.pc = "reply" /\ fw.out # <<>> /\ fw.out \in Seq(Seq(Token))
           /\ Head(fw.out) \in Seq(Token)
           /\ \/ Head(fw.out) = MagicPiece
              \/ \E t \in Token : Head(fw.out) = <<t>> /\ t[1] = "reply"
           /\ fw'.pc = "reply" /\ fw'.in = fw.in /\ fw'.out = Tail(fw.out) /\ fw'.t = fw.t
           /\ rx' = rx \/ (up /\ rx' = rx \o Head(fw.out))
           /\ ~MagicUnsent' /\ TypeInv'
<1> USE DEF TypeInv, TypeOK
<1>1. fw.pc = "reply" /\ fw.out # <<>> /\ fw.out \in Seq(Seq(Token))
  BY FwFields DEF SendPiece
<1>2. PICK S : S = Seq(Token)
  OBVIOUS
<1>3. /\ Tail(fw.out) \in Seq(S) /\ Len(fw.out) \in Nat /\ Len(fw.out) >= 1
      /\ Len(Tail(fw.out)) = Len(fw.out) - 1
      /\ \A i \in 1 .. Len(Tail(fw.out)) : Tail(fw.out)[i] = fw.out[i + 1]
      /\ Head(fw.out) = fw.out[1] /\ fw.out[1] \in S
  <2>1. PICK out \in Seq(S) : out = fw.out
    BY <1>1, <1>2
  <2>2. out # <<>>
    BY <2>1, <1>1
  <2> QED BY <2>1, <2>2, TailFacts
<1>4. PICK out \in Seq(Seq(Token)) : out = Tail(fw.out)
  BY <1>2, <1>3
<1>5. fw' \in FwType /\ fw'.pc = "reply" /\ fw'.in = fw.in /\ fw'.out = out /\ fw'.t = fw.t
  BY <1>1, <1>4 DEF FwType, SendPiece
<1>6. rx \o Head(fw.out) \in Seq(Token)
  BY <1>2, <1>3
<1>7. rx' = rx \/ (up /\ rx' = rx \o Head(fw.out))
  BY DEF SendPiece, Troubled
<1>8. clean' \in BOOLEAN /\ trouble' \in Nat
  <2>1. CASE UNCHANGED <<clean, trouble>>
    BY <2>1
  <2>2. CASE Troubled
    BY <2>2, TroubledStep
  <2> QED BY <2>1, <2>2 DEF SendPiece
<1>9. TypeOK'
  BY <1>5, <1>6, <1>7, <1>8 DEF SendPiece
<1>10. \A i \in 1 .. Len(out) : Len(out[i]) = 1 /\ out[i][1][1] = "reply"
  <2> SUFFICES ASSUME NEW i \in 1 .. Len(out)
               PROVE  Len(out[i]) = 1 /\ out[i][1][1] = "reply"
    OBVIOUS
  <2>1. i + 1 \in 1 .. Len(fw.out) /\ i + 1 # 1 /\ i \in 1 .. Len(Tail(fw.out))
    BY <1>3, <1>4
  <2>2. out[i] = fw.out[i + 1]
    BY <2>1, <1>3, <1>4, Zenon
  <2> QED BY <2>1, <2>2 DEF Shape
<1>11. Shape'
  BY <1>5, <1>10 DEF SendPiece, Shape, Active
<1>12. \/ Head(fw.out) = MagicPiece
       \/ \E t \in Token : Head(fw.out) = <<t>> /\ t[1] = "reply"
  <2>1. 1 \in 1 .. Len(fw.out)
    BY <1>3
  <2>2. CASE Len(fw.out[1]) = 1 /\ fw.out[1][1][1] = "reply"
    <3>1. PICK p \in Seq(Token) : p = fw.out[1]
      BY <1>2, <1>3
    <3>2. Len(p) = 1 /\ p[1][1] = "reply"
      BY <3>1, <2>2
    <3>3. p = <<p[1]>> /\ p[1] \in Token
      BY <3>2, Singleton
    <3> QED BY <3>1, <3>2, <3>3, <1>3
  <2> QED BY <2>1, <2>2, <1>3 DEF Shape
<1>13. ~MagicUnsent'
  <2> SUFFICES ASSUME out # <<>>, out[1] = MagicPiece PROVE FALSE
    BY <1>5 DEF MagicUnsent
  <2>1. 1 \in 1 .. Len(out)
    <3>1. Len(out) \in Nat /\ Len(out) # 0
      OBVIOUS
    <3> QED BY <3>1
  <2>2. Len(MagicPiece) = 2
    BY DEF MagicPiece
  <2>3. Len(out[1]) = 1
    BY <2>1, <1>10
  <2>4. 1 = 2
    BY <2>2, <2>3, Zenon
  <2> QED BY <2>4
<1> QED BY <1>1, <1>2, <1>3, <1>4, <1>5, <1>7, <1>9, <1>11, <1>12, <1>13

LEMMA RepliedStep ==
    ASSUME TypeInv, Replied
    PROVE  /\ fw.pc = "reply" /\ fw.out = <<>>
           /\ fw'.pc = "parse" /\ fw'.in = Start /\ fw'.out = fw.out /\ fw'.t = 0
           /\ TypeInv'
<1> USE DEF TypeInv, TypeOK
<1>1. fw.out = <<>> /\ fw.pc = "reply"
  BY DEF Replied
<1>2. fw' \in FwType /\ fw'.pc = "parse" /\ fw'.in = Start /\ fw'.out = fw.out /\ fw'.t = 0
  BY ParserFields DEF FwType, Replied
<1>3. TypeOK'
  BY <1>2 DEF Replied
<1>4. Shape'
  BY <1>1, <1>2 DEF Replied, Shape, Active
<1> QED BY <1>1, <1>2, <1>3, <1>4
\* More on the way to the host than the firmware has sent: text, or a part of a token.
LEMMA NoiseStep ==
    ASSUME TypeInv, RepeatData \/ Output
    PROVE  /\ rx' = Append(rx, Noise) /\ clean' = FALSE /\ TypeInv'
           /\ UNCHANGED <<host, result, tx, fw, up, paused, late>>
<1> USE DEF TypeInv, TypeOK
<1>1. /\ rx' = Append(rx, Noise) /\ Troubled
      /\ UNCHANGED <<host, result, tx, fw, up, paused, late>>
  BY DEF RepeatData, Output, Unchanged
<1>2. Append(rx, Noise) \in Seq(Token)
  BY TokenFacts, AppendFacts
<1>3. clean' = FALSE /\ clean' \in BOOLEAN /\ trouble' \in Nat
  BY <1>1, TroubledStep
<1>4. TypeOK'
  BY <1>1, <1>2, <1>3
<1>5. Shape'
  BY <1>1 DEF Shape, Active
<1> QED BY <1>1, <1>3, <1>4, <1>5

\* Something is lost on the way.
LEMMA LoseCommandStep ==
    ASSUME TypeInv, LoseCommand
    PROVE  /\ tx # <<>> /\ tx' \in Seq(Token) /\ Part(tx', tx) /\ clean' = FALSE /\ TypeInv'
           /\ UNCHANGED <<host, result, rx, fw, up, paused, late>>
<1> USE DEF TypeInv, TypeOK
<1>1. PICK i \in 1 .. Len(tx), j \in 1 .. Len(tx) : i <= j /\ tx' = Without(tx, i, j)
  <2>1. DOMAIN tx = 1 .. Len(tx)
    OBVIOUS
  <2> QED BY <2>1 DEF LoseCommand
<1>2. tx' \in Seq(Token) /\ Part(tx', tx)
  BY <1>1, WithoutPart
<1>3. clean' = FALSE /\ clean' \in BOOLEAN /\ trouble' \in Nat
  BY TroubledStep DEF LoseCommand
<1>4. TypeOK'
  BY <1>2, <1>3 DEF LoseCommand, Unchanged
<1>5. Shape'
  BY DEF LoseCommand, Unchanged, Shape, Active
<1> QED BY <1>2, <1>3, <1>4, <1>5 DEF LoseCommand, Unchanged

LEMMA LoseReplyStep ==
    ASSUME TypeInv, LoseReply
    PROVE  /\ rx' \in Seq(Token) /\ Part(rx', rx) /\ clean' = FALSE /\ TypeInv'
           /\ UNCHANGED <<host, result, tx, fw, up, paused, late>>
<1> USE DEF TypeInv, TypeOK
<1>1. PICK i \in 1 .. Len(rx), j \in 1 .. Len(rx) : i <= j /\ rx' = Without(rx, i, j)
  <2>1. DOMAIN rx = 1 .. Len(rx)
    OBVIOUS
  <2> QED BY <2>1 DEF LoseReply
<1>2. rx' \in Seq(Token) /\ Part(rx', rx)
  BY <1>1, WithoutPart
<1>3. clean' = FALSE /\ clean' \in BOOLEAN /\ trouble' \in Nat
  BY TroubledStep DEF LoseReply
<1>4. TypeOK'
  BY <1>2, <1>3 DEF LoseReply, Unchanged
<1>5. Shape'
  BY DEF LoseReply, Unchanged, Shape, Active
<1> QED BY <1>2, <1>3, <1>4, <1>5 DEF LoseReply, Unchanged

\* The line goes down and comes up.
LEMMA LineStep ==
    ASSUME TypeInv, Close \/ Reopen
    PROVE  /\ (up' = FALSE /\ paused' = TRUE /\ clean' = FALSE)
                 \/ (~up /\ up' = TRUE /\ UNCHANGED <<paused, clean>>)
           /\ UNCHANGED <<host, result, tx, rx, fw, late>>
           /\ TypeInv'
<1> USE DEF TypeInv, TypeOK
<1>1. UNCHANGED <<host, result, tx, rx, fw, late>>
  BY DEF Close, Reopen
<1>2. Shape'
  BY <1>1 DEF Shape, Active
<1>3. CASE Close
  <2>1. clean' = FALSE /\ clean' \in BOOLEAN /\ trouble' \in Nat
    BY <1>3, TroubledStep DEF Close
  <2>2. up' = FALSE /\ paused' = TRUE
    BY <1>3 DEF Close
  <2>3. up' \in BOOLEAN /\ paused' \in BOOLEAN
    BY <2>2
  <2>4. TypeOK'
    BY <1>1, <2>1, <2>3
  <2> QED BY <1>1, <1>2, <2>1, <2>2, <2>4
<1>4. CASE Reopen
  <2>1. ~up /\ up' = TRUE /\ UNCHANGED <<paused, clean, trouble>>
    BY <1>4 DEF Reopen
  <2>2. up' \in BOOLEAN
    BY <2>1
  <2>3. TypeOK'
    BY <1>1, <2>1, <2>2
  <2> QED BY <1>1, <1>2, <2>1, <2>3
<1> QED BY <1>3, <1>4

LEMMA TickStep ==
    ASSUME TypeInv, Tick
    PROVE  /\ ~Busy
           /\ host'.pc = host.pc /\ host'.k = host.k /\ host'.out = host.out
           /\ host'.reply = host.reply
           /\ host'.t = IF Active THEN host.t + 1 ELSE host.t
           /\ fw'.pc = fw.pc /\ fw'.in = fw.in /\ fw'.out = fw.out
           /\ fw'.t = IF fw.t < FwTicks /\ fw.pc = "parse" /\ fw.in.place > 0
                      THEN fw.t + 1 ELSE fw.t
           /\ UNCHANGED <<result, tx, rx, up, paused, late, clean, trouble>>
           /\ TypeInv'
<1> USE DEF TypeInv, TypeOK
<1>1. PICK t \in Nat : t = IF Active THEN host.t + 1 ELSE host.t
  <2>1. host.t \in Nat /\ host.t + 1 \in Nat
    BY HostFields
  <2> QED BY <2>1
<1>2. PICK u \in Nat : u = IF fw.t < FwTicks /\ fw.pc = "parse" /\ fw.in.place > 0
                           THEN fw.t + 1 ELSE fw.t
  <2>1. fw.t \in Nat /\ fw.t + 1 \in Nat
    BY FwFields
  <2> QED BY <2>1
<1>3. /\ host' \in HostType /\ host'.pc = host.pc /\ host'.k = host.k /\ host'.out = host.out
      /\ host'.reply = host.reply /\ host'.t = t
  <2>1. host' = [host EXCEPT !.t = t]
    BY <1>1 DEF Tick
  <2> QED BY <2>1 DEF HostType
<1>4. /\ fw' \in FwType /\ fw'.pc = fw.pc /\ fw'.in = fw.in /\ fw'.out = fw.out /\ fw'.t = u
  <2>1. fw' = [fw EXCEPT !.t = u]
    BY <1>2 DEF Tick
  <2> QED BY <2>1 DEF FwType
<1>5. TypeOK'
  BY <1>3, <1>4 DEF Tick
<1>6. Shape'
  BY <1>3, <1>4 DEF Tick, Shape, Active
<1> QED BY <1>1, <1>2, <1>3, <1>4, <1>5, <1>6 DEF Tick

LEMMA TypeInit == Init => TypeInv
<1> SUFFICES ASSUME Init PROVE TypeInv
  OBVIOUS
<1>1. <<>> \in Seq(Token) /\ <<>> \in Seq(Seq(Token)) /\ 0 \in 0 .. Len(CmdData)
  BY LinkAssumption
<1>2. host \in HostType /\ fw \in FwType
  BY <1>1, ParserFields DEF Init, HostType, FwType
<1>3. result \in [k : Nat, got : Int]
  BY DEF Init, Nothing
<1>4. TypeOK
  BY <1>1, <1>2, <1>3 DEF Init, TypeOK
<1>5. Shape
  BY DEF Init, Shape, Active
<1> QED BY <1>4, <1>5 DEF TypeInv

LEMMA TypeNext == TypeInv /\ [Next]_vars => TypeInv'
<1> SUFFICES ASSUME TypeInv, [Next]_vars PROVE TypeInv'
  OBVIOUS
<1>1. CASE UNCHANGED vars
  BY <1>1 DEF vars, TypeInv, TypeOK, Shape, Active
<1>2. CASE Next
  BY <1>2, BeginStep, PutStep, AllPutStep, GiveUpStep, ReceiveStep, ParseStep, ConsoleStep,
     TimeOutStep, SendPieceStep, RepliedStep, NoiseStep, LoseCommandStep, LoseReplyStep,
     LineStep, TickStep DEF Next, HostStep, FwStep
<1> QED BY <1>1, <1>2

\* Every variable stays in its set, and what waits to be sent has its shape: a
\* magic is only sent as the first piece of a reply.
THEOREM Typing == Spec => []TypeInv
BY TypeInit, TypeNext, PTL DEF Spec
-----------------------------------------------------------------------------
(* Time.                                                                   *)

LEMMA Numbers ==
    ASSUME TypeInv
    PROVE  /\ host.t \in Nat /\ fw.t \in Nat /\ fw.in.place \in Nat /\ host.reply.place \in Nat
           /\ FwTicks \in Nat /\ FwTicks > 0 /\ HostTicks \in Nat /\ FwTicks < HostTicks
           /\ TxSize \in Nat /\ TxSize > 0
<1>1. host.t \in Nat /\ fw.t \in Nat
  BY HostFields, FwFields DEF TypeInv, TypeOK
<1>2. fw.in \in Parser /\ host.reply \in Parser
  BY HostFields, FwFields DEF TypeInv, TypeOK
<1>3. fw.in.place \in Nat /\ host.reply.place \in Nat
  BY <1>2, ParserFields
<1> QED BY <1>1, <1>3, LinkAssumption

LEMMA TimeInit == Init => TimeInv
BY LinkAssumption DEF Init, TimeInv, Active

LEMMA TimeNext == TypeInv /\ TimeInv /\ [Next]_vars => TimeInv'
<1> SUFFICES ASSUME TypeInv, TimeInv, [Next]_vars PROVE TimeInv'
  OBVIOUS
<1>n. /\ host.t \in Nat /\ fw.t \in Nat /\ fw.in.place \in Nat
      /\ FwTicks \in Nat /\ FwTicks > 0 /\ TxSize \in Nat /\ TxSize > 0
  BY Numbers
<1>1. CASE Begin
  <2>1. host'.pc = "send" /\ host'.t = 0 /\ paused' = ~up /\ UNCHANGED <<up, fw>>
    BY <1>1, BeginStep DEF Begin
  <2> QED BY <2>1, <1>n DEF TimeInv, Active
<1>2. CASE Put
  <2>1. host.pc = "send" /\ host'.pc = "send" /\ host'.t = 0 /\ UNCHANGED <<up, paused, fw>>
    BY <1>2, PutStep DEF Put
  <2> QED BY <2>1, <1>n DEF TimeInv, Active
<1>3. CASE AllPut
  <2>1. host.pc = "send" /\ host'.pc = "recv" /\ host'.t = 0 /\ UNCHANGED <<up, paused, fw>>
    BY <1>3, AllPutStep DEF AllPut
  <2> QED BY <2>1, <1>n DEF TimeInv, Active
<1>4. CASE GiveUp
  <2>1. host'.pc \in {"idle", "done"} /\ fw' = fw
    BY <1>4, GiveUpStep DEF GiveUp
  <2> QED BY <2>1 DEF TimeInv, Active
<1>5. CASE Receive
  <2>1. UNCHANGED <<tx, fw, up, paused>> /\ host.pc = "recv"
    BY <1>5, ReceiveStep DEF Receive
  <2>2. host'.pc \in {"idle", "done"} \/ (host'.pc = host.pc /\ host'.t = host.t)
    BY <1>5, ReceiveStep DEF Took, ReadOn
  <2> QED BY <2>1, <2>2 DEF TimeInv, Active
<1>6. CASE Parse
  <2>1. tx # <<>> /\ UNCHANGED <<host, up, paused>>
    BY <1>6, ParseStep DEF Parse
  <2>2. fw'.t = 0 \/ fw'.t = fw.t
    BY <1>6, ParseStep DEF ToConsole, ParsesOn, Drops, Answers
  <2>3. fw'.t <= FwTicks
    BY <2>2, <1>n DEF TimeInv
  <2> QED BY <2>1, <2>3 DEF TimeInv, Active
<1>7. CASE Console
  <2>1. tx # <<>> /\ UNCHANGED <<host, up, paused, fw>>
    BY <1>7, ConsoleStep DEF Console
  <2> QED BY <2>1 DEF TimeInv, Active
<1>8. CASE TimeOut
  <2>1. /\ fw.pc = "parse" /\ fw'.pc = "parse" /\ fw'.in.place = 0 /\ fw'.t = 0
        /\ UNCHANGED <<host, tx, up, paused>>
    BY <1>8, TimeOutStep, ParserFields DEF TimeOut
  <2> QED BY <2>1, <1>n DEF TimeInv, Active
<1>9. CASE SendPiece
  <2>1. fw.pc = "reply" /\ fw'.t = fw.t /\ UNCHANGED <<host, tx, up, paused>>
    BY <1>9, SendPieceStep DEF SendPiece
  <2> QED BY <2>1 DEF TimeInv, Active
<1>10. CASE Replied
  <2>1. fw.pc = "reply" /\ fw'.t = 0 /\ UNCHANGED <<host, tx, up, paused>>
    BY <1>10, RepliedStep DEF Replied
  <2> QED BY <2>1, <1>n DEF TimeInv, Active
<1>11. CASE RepeatData \/ Output
  <2>1. UNCHANGED <<host, tx, fw, up, paused>>
    BY <1>11, NoiseStep
  <2> QED BY <2>1 DEF TimeInv, Active
<1>12. CASE LoseCommand
  <2>1. tx # <<>> /\ UNCHANGED <<host, fw, up, paused>>
    BY <1>12, LoseCommandStep
  <2> QED BY <2>1 DEF TimeInv, Active
<1>13. CASE LoseReply
  <2>1. UNCHANGED <<host, tx, fw, up, paused>>
    BY <1>13, LoseReplyStep
  <2> QED BY <2>1 DEF TimeInv, Active
<1>14. CASE Close \/ Reopen
  <2>1. /\ UNCHANGED <<host, tx, fw>>
        /\ paused' = TRUE \/ (up' = TRUE /\ paused' = paused)
    BY <1>14, LineStep
  <2> QED BY <2>1 DEF TimeInv, Active
<1>15. CASE Tick
  <2>1. /\ ~Busy /\ UNCHANGED <<tx, up, paused>>
        /\ host'.pc = host.pc /\ fw'.pc = fw.pc /\ fw'.in = fw.in
        /\ host'.t = IF Active THEN host.t + 1 ELSE host.t
        /\ fw'.t = IF fw.t < FwTicks /\ fw.pc = "parse" /\ fw.in.place > 0
                   THEN fw.t + 1 ELSE fw.t
    BY <1>15, TickStep
  <2>2. fw'.t <= FwTicks
    BY <2>1, <1>n DEF TimeInv
  <2>3. ASSUME host.pc = "send", ~paused PROVE FALSE
    <3>1. up /\ tx = <<>>
      BY <2>1, <2>3 DEF TimeInv, Active, Busy
    <3>2. Len(tx) < TxSize
      BY <3>1, <1>n
    <3> QED BY <2>1, <2>3, <3>2 DEF Busy
  <2>4. ASSUME host.pc = "recv", ~paused
        PROVE  tx = <<>> /\ fw.pc # "reply" /\ (fw.pc = "parse" /\ fw.in.place > 0 => fw'.t >= host'.t)
    <3>1. up /\ tx = <<>> /\ fw.pc # "reply"
      BY <2>1, <2>4 DEF TimeInv, Active, Busy
    <3>2. ASSUME fw.pc = "parse", fw.in.place > 0 PROVE fw'.t >= host'.t
      <4>1. ~(fw.t >= FwTicks)
        BY <2>1, <3>2 DEF Busy
      <4>2. fw'.t = fw.t + 1 /\ host'.t = host.t + 1
        BY <4>1, <2>1, <2>4, <3>2, <1>n DEF Active
      <4>3. host.t > 0 => fw.t >= host.t
        BY <2>4, <3>2 DEF TimeInv
      <4> QED BY <4>2, <4>3, <1>n
    <3> QED BY <3>1, <3>2
  <2> QED BY <2>1, <2>2, <2>3, <2>4 DEF TimeInv, Active
<1>16. CASE UNCHANGED vars
  BY <1>16 DEF vars, TimeInv, Active
<1> QED BY <1>1, <1>2, <1>3, <1>4, <1>5, <1>6, <1>7, <1>8, <1>9, <1>10, <1>11, <1>12, <1>13,
           <1>14, <1>15, <1>16 DEF Next, HostStep, FwStep

\* When the host gives up on a command during which the line was up, nothing is on the way
\* and the firmware is not in the middle of anything.
Quiet == tx = <<>> /\ rx = <<>> /\ fw.pc # "reply" /\ (fw.pc = "parse" => fw.in.place = 0)
LEMMA GivesUpQuietly ==
    ASSUME TypeInv, TimeInv, GiveUp, ~paused
    PROVE  Quiet /\ host.pc = "recv"
<1>n. /\ host.t \in Nat /\ fw.t \in Nat /\ fw.in.place \in Nat
      /\ FwTicks \in Nat /\ FwTicks > 0 /\ HostTicks \in Nat /\ FwTicks < HostTicks
  BY Numbers
<1>1. host.t >= HostTicks /\ host.t > 0
  BY <1>n DEF GiveUp, Expired
<1>2. host.pc = "recv" /\ rx = <<>>
  <2>1. host.pc # "send"
    BY <1>1, <1>n DEF TimeInv
  <2> QED BY <2>1 DEF GiveUp
<1>3. tx = <<>> /\ fw.pc # "reply" /\ (fw.pc = "parse" /\ fw.in.place > 0 => fw.t >= host.t)
  BY <1>1, <1>2 DEF TimeInv
<1>4. ~(fw.t >= host.t)
  BY <1>1, <1>n DEF TimeInv
<1> QED BY <1>2, <1>3, <1>4, <1>n DEF Quiet
-----------------------------------------------------------------------------
(* The mark: steps of the host's writer.                                   *)

LEMMA Queues ==
    ASSUME TypeInv
    PROVE  /\ host.out \in Seq(Token) /\ tx \in Seq(Token) /\ rx \in Seq(Token)
           /\ host.reply \in Parser /\ fw.in \in Parser /\ fw.out \in Seq(Seq(Token))
BY HostFields, FwFields DEF TypeInv, TypeOK

\* A new command brings the only magic.
LEMMA BeginMark ==
    ASSUME TypeInv, MarkInv(host.k), Begin
    PROVE  MarkInv(host.k)'
<1>1. PICK k \in Commands : k = host'.k /\ host'.out = Command(k) /\ host'.reply = Start
  BY BeginStep
<1>2. ~Active /\ Active' /\ UNCHANGED <<tx, rx, fw>>
  BY BeginStep DEF Begin, Active
<1>3. All(tx, NotMagic) /\ (fw.pc = "parse" => fw.in.place = 0) /\ ~MagicUnsent /\ ~Marked(rx)
  BY <1>2 DEF MarkInv, CmdSpent
<1>4. ~Marked(tx)
  BY <1>3, Queues, AllUnmarked
<1>5. Tidy(tx, OfCmd(k)) /\ Tidy(rx, OfReply(k))
  BY <1>3, <1>4, UnmarkedTidy
<1>6. Tidy(Command(k), OfCmd(k))
  <2>1. /\ Len(Command(k)) = Size("cmd", k)
        /\ \A i \in 1 .. Size("cmd", k) : Command(k)[i] = Nth("cmd", k, i)
    BY CommandFacts
  <2>2. PICK n \in Nat : n = Size("cmd", k)
    <3>1. Data("cmd", k) \in {0, 1}
      BY DataNat DEF Of
    <3>2. Size("cmd", k) \in Nat
      BY <3>1 DEF Size
    <3> QED BY <3>2
  <2> SUFFICES ASSUME NEW i \in 1 .. n, NEW j \in 1 .. n, i < j, Command(k)[i] = Mark
               PROVE  Command(k)[j] \in OfCmd(k)
    BY <2>1, <2>2 DEF Tidy
  <2>3. i # 1
    <3>1. Nth("cmd", k, 1) = Magic(0)
      BY DEF Nth
    <3>2. i = 1 => Command(k)[1] = Magic(0) /\ Command(k)[1] = Mark
      BY <2>1, <2>2, <3>1
    <3> QED BY <3>2, TokenFacts
  <2>4. j >= 3
    BY <2>3
  <2>5. Command(k)[j] = <<"cmd", k, j - 2>> /\ j - 2 \in Nat
    BY <2>1, <2>2, <2>4 DEF Nth
  <2>6. <<"cmd", k, j - 2>> \in OfCmd(k)
    BY <2>5, TokenFacts DEF OfCmd, Of
  <2> QED BY <2>5, <2>6
<1>7. Start.place = 0
  BY ParserFields
<1> QED BY <1>1, <1>2, <1>3, <1>4, <1>5, <1>6, <1>7 DEF MarkInv, MagicUnsent

LEMMA PutMark ==
    ASSUME TypeInv, MarkInv(host.k), Put
    PROVE  MarkInv(host.k)'
<1>1. /\ host'.k = host.k /\ host'.out = Tail(host.out) /\ host'.reply = host.reply
      /\ host.out # <<>> /\ tx' = Append(tx, Head(host.out))
      /\ Active /\ Active' /\ UNCHANGED <<rx, fw>>
  BY PutStep DEF Put, Active
<1>2. PICK t \in Token, k \in Nat : t = Head(host.out) /\ k = host.k
  BY <1>1, Queues, TailFacts, HostFields DEF TypeInv, TypeOK
<1>3. \A T : /\ All(host.out, T) => t \in T /\ All(Tail(host.out), T)
             /\ Tidy(host.out, T) => Tidy(Tail(host.out), T)
             /\ Tidy(host.out, T) /\ t = Mark => All(Tail(host.out), T)
             /\ All(Append(tx, t), T) <=> All(tx, T) /\ t \in T
             /\ Tidy(tx, T) /\ (Marked(tx) => t \in T) => Tidy(Append(tx, t), T)
             /\ Marked(Append(tx, t)) <=> Marked(tx) \/ t = Mark
  BY <1>1, <1>2, Queues, HeadKeeps, AppendKeeps
<1>4. Tidy(host'.out, OfCmd(k)) /\ Tidy(tx', OfCmd(k))
  BY <1>1, <1>2, <1>3 DEF MarkInv
<1>5. Marked(tx') => All(host'.out, OfCmd(k))
  BY <1>1, <1>2, <1>3 DEF MarkInv
<1>6. fw.pc = "parse" /\ fw.in.place >= 2 => All(host'.out, OfCmd(k)) /\ All(tx', OfCmd(k))
  BY <1>1, <1>2, <1>3 DEF MarkInv
<1>7. CmdSpent => CmdSpent'
  BY <1>1, <1>2, <1>3 DEF CmdSpent
<1> QED BY <1>1, <1>2, <1>4, <1>5, <1>6, <1>7 DEF MarkInv, MagicUnsent, RestOfReply

LEMMA AllPutMark ==
    ASSUME TypeInv, MarkInv(host.k), AllPut
    PROVE  MarkInv(host.k)'
<1>1. /\ host'.k = host.k /\ host'.out = host.out /\ host'.reply = host.reply
      /\ Active /\ Active' /\ UNCHANGED <<tx, rx, fw>>
  BY AllPutStep DEF AllPut, Active
<1> QED BY <1>1 DEF MarkInv, MagicUnsent, RestOfReply, CmdSpent

LEMMA GiveUpMark ==
    ASSUME TypeInv, TimeInv, MarkInv(host.k), GiveUp, ~paused
    PROVE  MarkInv(host.k)'
<1>1. /\ host'.k = host.k /\ host'.out = <<>> /\ host'.reply = Start
      /\ ~Active' /\ UNCHANGED <<tx, rx, fw>>
  BY GiveUpStep DEF GiveUp, Active
<1>2. /\ tx = <<>> /\ rx = <<>> /\ fw.pc # "reply" /\ fw.out = <<>>
      /\ fw.pc = "parse" => fw.in.place = 0
  BY GivesUpQuietly DEF Quiet, TypeInv, Shape
<1>3. ~(fw.pc = "parse" /\ fw.in.place >= 2)
  BY <1>2
<1>4. ~(Start.place >= 2)
  BY ParserFields
<1> QED BY <1>1, <1>2, <1>3, <1>4, EmptyQueue DEF MarkInv, MagicUnsent, RestOfReply, CmdSpent

-----------------------------------------------------------------------------
(* The mark: the line.                                                     *)

LEMMA NoiseMark ==
    ASSUME TypeInv, MarkInv(host.k), RepeatData \/ Output
    PROVE  MarkInv(host.k)'
<1>1. rx' = Append(rx, Noise) /\ UNCHANGED <<host, tx, fw>>
  BY NoiseStep
<1>2. PICK k : k = host.k
  OBVIOUS
<1>3. Noise \in OfReply(k) /\ Noise # Mark
  BY NotMark
<1>4. /\ Tidy(rx, OfReply(k)) => Tidy(rx', OfReply(k))
      /\ All(rx, OfReply(k)) => All(rx', OfReply(k))
      /\ Marked(rx') => Marked(rx)
  BY <1>1, <1>3, Queues, TokenFacts, AppendKeeps
<1> QED BY <1>1, <1>2, <1>4 DEF MarkInv, MagicUnsent, RestOfReply, CmdSpent, Active

LEMMA LoseCommandMark ==
    ASSUME TypeInv, MarkInv(host.k), LoseCommand
    PROVE  MarkInv(host.k)'
<1>1. tx' \in Seq(Token) /\ Part(tx', tx) /\ UNCHANGED <<host, rx, fw>>
  BY LoseCommandStep
<1>2. \A T : /\ Tidy(tx, T) => Tidy(tx', T)
             /\ All(tx, T) => All(tx', T)
             /\ Marked(tx') => Marked(tx)
  BY <1>1, Queues, PartKeeps
<1> QED BY <1>1, <1>2 DEF MarkInv, MagicUnsent, RestOfReply, CmdSpent, Active

LEMMA LoseReplyMark ==
    ASSUME TypeInv, MarkInv(host.k), LoseReply
    PROVE  MarkInv(host.k)'
<1>1. rx' \in Seq(Token) /\ Part(rx', rx) /\ UNCHANGED <<host, tx, fw>>
  BY LoseReplyStep
<1>2. \A T : /\ Tidy(rx, T) => Tidy(rx', T)
             /\ All(rx, T) => All(rx', T)
             /\ Marked(rx') => Marked(rx)
  BY <1>1, Queues, PartKeeps
<1> QED BY <1>1, <1>2 DEF MarkInv, MagicUnsent, RestOfReply, CmdSpent, Active

\* Steps that move nothing.
LEMMA StillMark ==
    ASSUME MarkInv(host.k), Active' = Active,
           host'.k = host.k, host'.out = host.out, host'.reply = host.reply,
           fw'.pc = fw.pc, fw'.in = fw.in, fw'.out = fw.out, tx' = tx, rx' = rx
    PROVE  MarkInv(host.k)'
BY DEF MarkInv, MagicUnsent, RestOfReply, CmdSpent
-----------------------------------------------------------------------------
(* The mark: the parser of the firmware.                                   *)

\* A parser that is not within a magic does not begin one with another token.
LEMMA ReadsPlain ==
    ASSUME NEW s \in Parser, NEW t \in NotMagic, NEW r \in Reads(s, t), s.place < 2
    PROVE  r.place = 0
<1>1. t \in Token /\ t[1] # "magic" /\ s.place \in Nat
  BY ParserFields DEF NotMagic
<1>2. t # Magic(0) /\ t # Magic(1)
  BY <1>1, TokenFacts DEF Mark
<1>3. s.place = 0 \/ s.place = 1
  BY <1>1
<1>4. t # Magic(s.place)
  BY <1>2, <1>3
<1> QED BY <1>1, <1>4, ReadsFacts, ParserFields

\* A parser is behind a mark only when it has read one.
LEMMA ReadsMark ==
    ASSUME NEW s \in Parser, NEW t \in Token, NEW r \in Reads(s, t), s.place < 2, r.place >= 2
    PROVE  t = Mark /\ r.place = 2
<1>1. s.place \in Nat /\ Start.place = 0
  BY ParserFields
<1>2. t = Magic(s.place) /\ r = [s EXCEPT !.place = @ + 1]
  BY <1>1, ReadsFacts
<1>3. r.place = s.place + 1
  BY <1>2 DEF Parser
<1> QED BY <1>1, <1>2, <1>3 DEF Mark

\* What it has read after the magic.
LEMMA ReadsGot ==
    ASSUME NEW s \in Parser, NEW t \in Token, NEW r \in Reads(s, t), NEW T,
           s.place >= 2, s.place >= 3 => All(s.got, T), t \in T
    PROVE  All(r.got, T) /\ r.place >= 3
<1>1. s.place \in Nat /\ s.got \in Seq(Token)
  BY ParserFields
<1>2. CASE s.place = 2
  <2>1. r.got = <<t>> /\ r.place = 3
    BY <1>2, ReadsFacts
  <2>2. PICK q : q = <<t>>
    OBVIOUS
  <2>3. Len(q) = 1 /\ q[1] = t
    BY <2>2
  <2>4. All(q, T)
    BY <2>3 DEF All
  <2> QED BY <2>1, <2>2, <2>4
<1>3. CASE s.place > 2
  <2>1. r.got = Append(s.got, t) /\ r.place = s.place + 1
    BY <1>3, ReadsFacts
  <2>2. All(Append(s.got, t), T)
    BY <1>1, <1>3, AppendKeeps
  <2> QED BY <2>1, <2>2, <1>1, <1>3
<1> QED BY <1>1, <1>2, <1>3

\* A command that is received is the present one.
LEMMA ReceivedOwn ==
    ASSUME NEW s, NEW c \in Of("reply"), Received(s, c), NEW k \in Nat, All(s.got, OfCmd(k))
    PROVE  c \in {k, CrcError}
<1> SUFFICES ASSUME c # CrcError PROVE c = k
  OBVIOUS
<1>1. c \in Of("cmd") /\ s.got = Body("cmd", c)
  BY DEF Received, Of
<1>2. /\ 1 \in 1 .. Len(s.got) /\ s.got[1] = <<"cmd", c, 1>>
  BY <1>1, BodyFacts
<1>3. <<"cmd", c, 1>> \in OfCmd(k)
  BY <1>2 DEF All
<1>4. <<"cmd", c, 1>>[2] = k
  BY <1>3 DEF OfCmd
<1> QED BY <1>4

LEMMA ParseMark ==
    ASSUME TypeInv, MarkInv(host.k), Parse
    PROVE  MarkInv(host.k)'
<1>1. /\ fw.pc = "parse" /\ fw.out = <<>> /\ tx # <<>> /\ Head(tx) \in Token
      /\ tx' = Tail(tx) /\ UNCHANGED <<host, rx>>
      /\ ToConsole \/ ParsesOn \/ Drops \/ Answers
  BY ParseStep DEF Parse
<1>2. PICK t \in Token, k \in Nat : t = Head(tx) /\ k = host.k
  BY <1>1, HostFields DEF TypeInv, TypeOK
<1>3. \A T : /\ All(tx, T) => t \in T /\ All(tx', T)
             /\ Tidy(tx, T) => Tidy(tx', T)
             /\ Tidy(tx, T) /\ t = Mark => All(tx', T)
             /\ t = Mark => Marked(tx)
             /\ Marked(tx') => Marked(tx)
  BY <1>1, <1>2, Queues, HeadKeeps
<1>4. fw.in \in Parser /\ fw.in.place \in Nat /\ ~MagicUnsent
  BY <1>1, Queues, ParserFields DEF MagicUnsent
\* The steps that stay within the parser change only its place.
<1>5. ASSUME fw'.out = fw.out,
             fw'.pc = "parse" /\ fw'.in.place >= 2 =>
                 /\ All(host.out, OfCmd(k)) /\ All(tx', OfCmd(k))
                 /\ fw'.in.place >= 3 => All(fw'.in.got, OfCmd(k)),
             CmdSpent => (fw'.pc = "parse" => fw'.in.place = 0)
      PROVE  MarkInv(host.k)'
  <2>1. CmdSpent => CmdSpent'
    BY <1>1, <1>3, <1>5 DEF CmdSpent
  <2>2. Tidy(tx', OfCmd(k)) /\ (Marked(tx') => All(host.out, OfCmd(k)))
    BY <1>2, <1>3 DEF MarkInv
  <2> QED BY <2>1, <2>2, <1>1, <1>2, <1>5 DEF MarkInv, MagicUnsent, RestOfReply, Active
<1>6. CASE ToConsole
  BY <1>5, <1>6 DEF ToConsole
<1>7. CASE Drops
  BY <1>5, <1>7, ParserFields DEF Drops
<1>8. CASE ParsesOn
  <2>1. PICK s \in Reads(fw.in, t) : /\ s \in Parser /\ fw'.pc = "parse" /\ fw'.in = s
                                     /\ fw'.out = fw.out
    BY <1>2, <1>8 DEF ParsesOn
  <2>2. s.place \in Nat
    BY <2>1, ParserFields
  <2>3. ASSUME s.place >= 2
        PROVE  /\ All(host.out, OfCmd(k)) /\ All(tx', OfCmd(k))
               /\ s.place >= 3 => All(s.got, OfCmd(k))
    <3>1. CASE fw.in.place < 2
      <4>1. t = Mark /\ s.place = 2
        BY <2>3, <3>1, <1>4, ReadsMark
      <4> QED BY <4>1, <1>2, <1>3 DEF MarkInv
    <3>2. CASE fw.in.place >= 2
      <4>1. /\ All(host.out, OfCmd(k)) /\ All(tx, OfCmd(k))
            /\ fw.in.place >= 3 => All(fw.in.got, OfCmd(k))
        BY <3>2, <1>1, <1>2 DEF MarkInv
      <4>2. t \in OfCmd(k) /\ All(tx', OfCmd(k))
        BY <4>1, <1>3
      <4>3. All(s.got, OfCmd(k))
        BY <4>1, <4>2, <3>2, <1>4, ReadsGot
      <4> QED BY <4>1, <4>2, <4>3
    <3> QED BY <3>1, <3>2, <1>4
  <2>4. ASSUME CmdSpent PROVE s.place = 0
    <3>1. fw.in.place = 0 /\ t \in NotMagic
      BY <2>4, <1>1, <1>3 DEF CmdSpent
    <3>2. fw.in.place < 2
      BY <3>1
    <3> QED BY <3>1, <3>2, <1>4, ReadsPlain
  <2> QED BY <2>1, <2>3, <2>4, <1>5
<1>9. CASE Answers
  <2>1. PICK s \in Reads(fw.in, t), c \in Of("reply") :
          /\ s \in Parser /\ Complete(s) /\ Received(s, c)
          /\ fw'.pc = "reply" /\ fw'.out = Pieces(c)
    BY <1>2, <1>9 DEF Answers
  <2>2. fw.in.place > 2
    BY <2>1, <1>4, ReadsFacts
  <2>3. /\ All(host.out, OfCmd(k)) /\ All(tx, OfCmd(k)) /\ All(fw.in.got, OfCmd(k))
    BY <2>2, <1>1, <1>2, <1>4 DEF MarkInv
  <2>4. t \in OfCmd(k) /\ All(tx', OfCmd(k))
    BY <2>3, <1>3
  <2>5. All(s.got, OfCmd(k))
    BY <2>2, <2>3, <2>4, <1>4, ReadsGot
  <2>6. c \in {k, CrcError}
    BY <2>1, <2>5, ReceivedOwn
  <2>7. /\ All(host.out, NotMagic) /\ All(tx', NotMagic)
        /\ Tidy(tx', OfCmd(k)) /\ ~Marked(tx')
    <3>1. tx' \in Seq(Token) /\ host.out \in Seq(Token)
      BY <1>1, Queues, TailFacts
    <3>2. OfCmd(k) \subseteq NotMagic
      BY NotMark
    <3> QED BY <3>1, <3>2, <2>3, <2>4, AllUnmarked
  <2>8. CmdSpent'
    BY <2>1, <2>7, <1>1 DEF CmdSpent
  <2>9. RestOfReply(2, k)'
    <3> SUFFICES ASSUME NEW i \in 2 .. Len(Pieces(c)) PROVE All(Pieces(c)[i], OfReply(k))
      BY <2>1 DEF RestOfReply
    <3>1. PICK n \in {0, 1} : n = Data("reply", c)
      BY DataNat
    <3>2. i \in 2 .. n + 3
      BY <3>1, PiecesFacts
    <3>3. Pieces(c)[i] = <<<<"reply", c, i - 1>>>> /\ i - 1 \in Nat
      BY <3>1, <3>2, PiecesFacts
    <3>4. PICK x : x = <<"reply", c, i - 1>>
      OBVIOUS
    <3>5. x \in OfReply(k)
      BY <3>3, <3>4, <2>6, TokenFacts DEF OfReply
    <3>6. PICK q : q = <<x>>
      OBVIOUS
    <3>7. Len(q) = 1 /\ q[1] = x
      BY <3>6
    <3>8. All(q, OfReply(k))
      BY <3>5, <3>7 DEF All
    <3> QED BY <3>3, <3>4, <3>6, <3>8
  <2>10. ~CmdSpent
    BY <2>2, <1>1, <1>4 DEF CmdSpent
  <2>11. Active /\ ~Marked(rx) /\ ~(host.reply.place >= 2)
    BY <2>10 DEF MarkInv
  <2> QED BY <2>1, <2>3, <2>7, <2>8, <2>9, <2>11, <1>1, <1>2 DEF MarkInv, Active
<1> QED BY <1>1, <1>6, <1>7, <1>8, <1>9

LEMMA ConsoleMark ==
    ASSUME TypeInv, MarkInv(host.k), Console
    PROVE  MarkInv(host.k)'
<1>1. tx # <<>> /\ tx' = Tail(tx) /\ UNCHANGED <<host, rx, fw>> /\ fw.pc = "console"
  BY DEF Console
<1>2. \A T : /\ All(tx, T) => All(tx', T)
             /\ Tidy(tx, T) => Tidy(tx', T)
             /\ Marked(tx') => Marked(tx)
  BY <1>1, Queues, HeadKeeps
<1> QED BY <1>1, <1>2 DEF MarkInv, MagicUnsent, RestOfReply, CmdSpent, Active

\* The parser starts again, after its time-out or a reply.
LEMMA StartMark ==
    ASSUME TypeInv, MarkInv(host.k), TimeOut \/ Replied
    PROVE  MarkInv(host.k)'
<1>1. /\ fw'.pc = "parse" /\ fw'.in = Start /\ fw'.out = fw.out
      /\ UNCHANGED <<host, tx, rx>>
  BY TimeOutStep, RepliedStep DEF TimeOut, Replied
<1>2. fw'.in.place = 0 /\ ~(fw'.in.place >= 2)
  BY <1>1, ParserFields
<1> QED BY <1>1, <1>2 DEF MarkInv, MagicUnsent, RestOfReply, CmdSpent, Active
-----------------------------------------------------------------------------
(* The mark: the reply.                                                    *)

\* A piece goes on the way token by token.
LEMMA PieceTokens ==
    ASSUME NEW q \in Seq(Token)
    PROVE  /\ q \o MagicPiece = Append(Append(q, Magic(0)), Magic(1))
           /\ \A t \in Token : q \o <<t>> = Append(q, t)
<1>1. \A t \in Token : q \o <<t>> = Append(q, t)
  BY AppendIsConcat
<1>2. PICK a \in Token, b \in Token : a = Magic(0) /\ b = Magic(1)
  BY TokenFacts DEF Mark
<1>3. PICK p \in Seq(Token) : p = <<a, b>> /\ Len(p) = 2 /\ p[1] = a /\ p[2] = b
  <2>1. <<a, b>> \in Seq(Token) /\ Len(<<a, b>>) = 2 /\ <<a, b>>[1] = a /\ <<a, b>>[2] = b
    OBVIOUS
  <2> QED BY <2>1, Zenon
<1>4. PICK n \in Nat : n = Len(q)
  OBVIOUS
<1>5. PICK r \in Seq(Token) : /\ r = q \o p /\ Len(r) = n + 2
                              /\ \A i \in 1 .. n : r[i] = q[i]
                              /\ r[n + 1] = a /\ r[n + 2] = b
  <2>1. /\ q \o p \in Seq(Token) /\ Len(q \o p) = Len(q) + Len(p)
        /\ \A i \in 1 .. Len(q) : (q \o p)[i] = q[i]
        /\ \A i \in 1 .. Len(p) : (q \o p)[Len(q) + i] = p[i]
    BY ConcatFacts
  <2>2. 1 \in 1 .. Len(p) /\ 2 \in 1 .. Len(p)
    BY <1>3
  <2> QED BY <2>1, <2>2, <1>3, <1>4, Zenon
<1>6. PICK u \in Seq(Token) : /\ u = Append(q, a) /\ Len(u) = n + 1
                              /\ \A i \in 1 .. n : u[i] = q[i]
                              /\ u[n + 1] = a
  <2>1. /\ Append(q, a) \in Seq(Token) /\ Len(Append(q, a)) = Len(q) + 1
        /\ \A i \in 1 .. Len(q) : Append(q, a)[i] = q[i]
        /\ Append(q, a)[Len(q) + 1] = a
    BY AppendFacts
  <2> QED BY <2>1, <1>4, Zenon
<1>7. PICK v \in Seq(Token) : /\ v = Append(u, b) /\ Len(v) = n + 2
                              /\ \A i \in 1 .. n + 1 : v[i] = u[i]
                              /\ v[n + 2] = b
  <2>1. PICK v \in Seq(Token) : /\ v = Append(u, b) /\ Len(v) = Len(u) + 1
                                /\ \A i \in 1 .. Len(u) : v[i] = u[i]
                                /\ v[Len(u) + 1] = b
    <3>1. /\ Append(u, b) \in Seq(Token) /\ Len(Append(u, b)) = Len(u) + 1
          /\ \A i \in 1 .. Len(u) : Append(u, b)[i] = u[i]
          /\ Append(u, b)[Len(u) + 1] = b
      BY AppendFacts
    <3> QED BY <3>1, Zenon
  <2>2. Len(u) + 1 = n + 2
    BY <1>6
  <2>3. Len(v) = n + 2 /\ (\A i \in 1 .. n + 1 : v[i] = u[i]) /\ v[n + 2] = b
    BY <2>1, <2>2, <1>6, Zenon
  <2> QED BY <2>1, <2>3, Zenon
<1>8. ASSUME NEW i \in 1 .. n + 2 PROVE r[i] = v[i]
  <2>1. CASE i <= n
    <3>1. i \in 1 .. n /\ i \in 1 .. n + 1
      BY <2>1
    <3> QED BY <3>1, <1>5, <1>6, <1>7
  <2>2. CASE i = n + 1
    <3>1. i \in 1 .. n + 1
      BY <2>2
    <3> QED BY <3>1, <2>2, <1>5, <1>6, <1>7
  <2>3. CASE i = n + 2
    BY <2>3, <1>5, <1>7
  <2> QED BY <2>1, <2>2, <2>3
<1>9. r = v
  <2>1. Len(r) = Len(v) /\ \A i \in 1 .. Len(r) : r[i] = v[i]
    BY <1>5, <1>7, <1>8, Zenon
  <2> QED BY <2>1, SeqEqual, Zenon
<1>10. q \o MagicPiece = r /\ v = Append(Append(q, Magic(0)), Magic(1))
  <2>1. MagicPiece = p
    BY <1>2, <1>3 DEF MagicPiece
  <2> QED BY <2>1, <1>2, <1>5, <1>6, <1>7
<1> QED BY <1>1, <1>9, <1>10

\* If the rest of a reply is all that is to be sent, it is no magic.
LEMMA RestNoMagic ==
    ASSUME TypeInv, NEW k, RestOfReply(1, k)
    PROVE  ~MagicUnsent
<1> SUFFICES ASSUME fw.out # <<>>, fw.out[1] = MagicPiece PROVE FALSE
  BY DEF MagicUnsent
<1>1. 1 \in 1 .. Len(fw.out)
  <2>1. Len(fw.out) \in Nat /\ Len(fw.out) # 0
    BY Queues
  <2> QED BY <2>1
<1>2. All(MagicPiece, OfReply(k))
  BY <1>1 DEF RestOfReply
<1>3. Len(MagicPiece) = 2 /\ MagicPiece[1] = Magic(0)
  BY DEF MagicPiece
<1>4. Magic(0) \in OfReply(k)
  BY <1>2, <1>3 DEF All
<1> QED BY <1>4, NotMark

LEMMA SendPieceMark ==
    ASSUME TypeInv, MarkInv(host.k), SendPiece
    PROVE  MarkInv(host.k)'
<1>1. /\ fw.pc = "reply" /\ fw.out # <<>> /\ fw'.pc = "reply" /\ fw'.in = fw.in
      /\ fw'.out = Tail(fw.out) /\ ~MagicUnsent' /\ UNCHANGED <<host, tx>>
      /\ rx' = rx \/ rx' = rx \o Head(fw.out)
  BY SendPieceStep DEF SendPiece
<1>2. PICK k : k = host.k
  OBVIOUS
<1>3. /\ Len(fw.out) \in Nat /\ Len(fw.out) >= 1 /\ Len(fw'.out) = Len(fw.out) - 1
      /\ \A i \in 1 .. Len(fw'.out) : fw'.out[i] = fw.out[i + 1]
      /\ Head(fw.out) = fw.out[1]
  <2>0. PICK S : S = Seq(Token)
    OBVIOUS
  <2>1. PICK out \in Seq(S) : out = fw.out
    BY <2>0, Queues
  <2>2. out # <<>>
    BY <2>1, <1>1
  <2> QED BY <2>1, <2>2, <1>1, TailFacts
<1>4. RestOfReply(2, k) => RestOfReply(1, k)'
  <2> SUFFICES ASSUME RestOfReply(2, k), NEW i \in 1 .. Len(fw'.out)
               PROVE  All(fw'.out[i], OfReply(k))
    BY DEF RestOfReply
  <2>1. i + 1 \in 2 .. Len(fw.out) /\ fw'.out[i] = fw.out[i + 1]
    BY <1>3
  <2> QED BY <2>1 DEF RestOfReply
<1>5. RestOfReply(1, k) => RestOfReply(2, k) /\ All(Head(fw.out), OfReply(k))
  <2> SUFFICES ASSUME RestOfReply(1, k) PROVE RestOfReply(2, k) /\ All(fw.out[1], OfReply(k))
    BY <1>3
  <2>1. 1 \in 1 .. Len(fw.out) /\ \A i \in 2 .. Len(fw.out) : i \in 1 .. Len(fw.out)
    BY <1>3
  <2> QED BY <2>1 DEF RestOfReply
<1>6. CmdSpent' = CmdSpent /\ Active' = Active
  BY <1>1 DEF CmdSpent, Active
<1>7. CASE rx' = rx
  BY <1>1, <1>2, <1>4, <1>5, <1>6, <1>7 DEF MarkInv
<1>8. CASE rx' = rx \o Head(fw.out) /\ Head(fw.out) = MagicPiece
  <2>1. MagicUnsent
    BY <1>1, <1>3, <1>8 DEF MagicUnsent
  <2>2. CmdSpent /\ RestOfReply(2, k) /\ Active
    BY <2>1, <1>2 DEF MarkInv
  <2>3. ~RestOfReply(1, k)
    BY <2>1, RestNoMagic
  <2>4. ~Marked(rx) /\ ~(host.reply.place >= 2)
    BY <2>3, <1>2 DEF MarkInv
  <2>5. Tidy(rx', OfReply(k))
    <3>1. PICK q \in Seq(Token) : q = Append(rx, Magic(0))
      BY Queues, TokenFacts, AppendFacts
    <3>2. Magic(0) \in Token /\ Magic(1) \in Token /\ Magic(0) # Mark
      BY TokenFacts DEF Mark
    <3>3. ~Marked(q)
      BY <3>1, <3>2, <2>4, Queues, AppendKeeps
    <3>4. Tidy(Append(q, Magic(1)), OfReply(k))
      BY <3>2, <3>3, UnmarkedTidy, AppendKeeps
    <3> QED BY <3>1, <3>4, <1>8, Queues, PieceTokens
  <2> QED BY <2>2, <2>4, <2>5, <1>1, <1>2, <1>4, <1>6 DEF MarkInv
<1>9. CASE rx' = rx \o Head(fw.out) /\ \E t \in Token : Head(fw.out) = <<t>> /\ t[1] = "reply"
  <2>1. PICK t \in Token : Head(fw.out) = <<t>> /\ t[1] = "reply"
    BY <1>9
  <2>2. rx' = Append(rx, t) /\ t # Mark
    <3>1. rx' = rx \o <<t>> /\ rx \in Seq(Token)
      BY <2>1, <1>9, Queues
    <3>2. rx \o <<t>> = Append(rx, t)
      BY <3>1, PieceTokens
    <3> QED BY <3>1, <3>2, <2>1, TokenFacts
  <2>3. RestOfReply(1, k) => t \in OfReply(k)
    <3>1. PICK p : p = <<t>>
      OBVIOUS
    <3>2. Len(p) = 1 /\ p[1] = t
      BY <3>1
    <3>3. All(p, OfReply(k)) => t \in OfReply(k)
      BY <3>2 DEF All
    <3> QED BY <3>1, <3>3, <2>1, <1>5
  <2>4. /\ Tidy(rx, OfReply(k)) /\ (Marked(rx) => t \in OfReply(k)) => Tidy(rx', OfReply(k))
        /\ All(rx, OfReply(k)) /\ t \in OfReply(k) => All(rx', OfReply(k))
        /\ Marked(rx') => Marked(rx)
    BY <2>2, Queues, AppendKeeps
  <2> QED BY <2>3, <2>4, <1>1, <1>2, <1>4, <1>5, <1>6 DEF MarkInv
<1> QED BY <1>1, <1>7, <1>8, <1>9, SendPieceStep

LEMMA ReceiveMark ==
    ASSUME TypeInv, MarkInv(host.k), Receive
    PROVE  /\ MarkInv(host.k)'
           /\ OwnReply => OwnReply'
<1>1. /\ host.pc = "recv" /\ rx # <<>> /\ host'.k = host.k /\ rx' = Tail(rx)
      /\ UNCHANGED <<tx, fw, late>>
      /\ Took \/ ReadOn
  BY ReceiveStep DEF Receive
<1>2. PICK t \in Token, k \in Nat : t = Head(rx) /\ k = host.k
  BY ReceiveStep, HostFields DEF TypeInv, TypeOK
<1>3. \A T : /\ All(rx, T) => t \in T /\ All(rx', T)
             /\ Tidy(rx, T) => Tidy(rx', T)
             /\ Tidy(rx, T) /\ t = Mark => All(rx', T)
             /\ t = Mark => Marked(rx)
             /\ Marked(rx') => Marked(rx)
  BY <1>1, <1>2, Queues, HeadKeeps
<1>4. host.reply \in Parser /\ host.reply.place \in Nat
  BY Queues, ParserFields
<1>5. ASSUME NEW s \in Reads(host.reply, t), s.place >= 2
      PROVE  /\ CmdSpent /\ RestOfReply(1, k) /\ All(rx', OfReply(k))
             /\ s.place >= 3 => All(s.got, OfReply(k))
  <2>1. CASE host.reply.place < 2
    <3>1. t = Mark /\ s.place = 2
      BY <2>1, <1>4, <1>5, ReadsMark
    <3> QED BY <3>1, <1>2, <1>3 DEF MarkInv
  <2>2. CASE host.reply.place >= 2
    <3>1. /\ CmdSpent /\ RestOfReply(1, k) /\ All(rx, OfReply(k))
          /\ host.reply.place >= 3 => All(host.reply.got, OfReply(k))
      BY <2>2, <1>2 DEF MarkInv
    <3>2. t \in OfReply(k) /\ All(rx', OfReply(k))
      BY <3>1, <1>3
    <3>3. All(s.got, OfReply(k))
      BY <3>1, <3>2, <2>2, <1>4, ReadsGot
    <3> QED BY <3>1, <3>2, <3>3
  <2> QED BY <2>1, <2>2, <1>4
<1>6. CASE ReadOn
  <2>1. /\ host'.reply \in Reads(host.reply, t)
        /\ host'.pc = host.pc /\ host'.out = host.out /\ result' = result
    BY <1>2, <1>6 DEF ReadOn
  <2>2. CmdSpent' = CmdSpent /\ Active' = Active /\ MagicUnsent' = MagicUnsent
    BY <2>1, <1>1 DEF CmdSpent, Active, MagicUnsent
  <2>3. host'.reply.place >= 2 =>
           /\ CmdSpent /\ RestOfReply(1, k) /\ All(rx', OfReply(k))
           /\ host'.reply.place >= 3 => All(host'.reply.got, OfReply(k))
    BY <2>1, <1>5
  <2>4. MarkInv(host.k)'
    BY <2>1, <2>2, <2>3, <1>1, <1>2, <1>3 DEF MarkInv, RestOfReply
  <2>5. OwnReply => OwnReply'
    BY <2>1, <1>1 DEF OwnReply
  <2> QED BY <2>4, <2>5
<1>7. CASE Took
  <2>1. PICK s \in Reads(host.reply, t) :
           /\ Complete(s) /\ s \in Parser
           /\ host'.pc \in {"idle", "done"} /\ host'.out = <<>> /\ host'.reply = Start
           /\ result'.k = host.k
           /\ \/ \E c \in Of("reply") : s.got = Body("reply", c) /\ result'.got = c
              \/ result'.got = Nothing
    BY <1>2, <1>7 DEF Took
  <2>2. s.place \in Nat /\ s.place >= 3
    <3>1. s.place \in Nat /\ s.len \in {0, 1, 9}
      BY <2>1, ParserFields
    <3> QED BY <3>1, <2>1 DEF Complete
  <2>3. CmdSpent /\ RestOfReply(1, k) /\ All(rx', OfReply(k)) /\ All(s.got, OfReply(k))
    BY <2>2, <1>5
  <2>4. ~MagicUnsent /\ ~MagicUnsent'
    BY <2>3, <1>1, RestNoMagic DEF MagicUnsent
  <2>5. ~Marked(rx') /\ Tidy(rx', OfReply(k))
    <3>1. rx' \in Seq(Token)
      BY <1>1, Queues, TailFacts
    <3> QED BY <3>1, <2>3, NotMark, AllUnmarked
  <2>6. CmdSpent' /\ ~Active'
    BY <2>1, <2>3, <1>1, EmptyQueue DEF CmdSpent, Active
  <2>7. ~(fw.pc = "parse" /\ fw.in.place >= 2) /\ ~(Start.place >= 2)
    BY <2>3, ParserFields DEF CmdSpent
  <2>8. Tidy(tx, OfCmd(k)) /\ (Marked(tx) => All(<<>>, OfCmd(k))) /\ Tidy(<<>>, OfCmd(k))
    BY <1>2, EmptyQueue DEF MarkInv
  <2>9. MarkInv(host.k)'
    BY <2>1, <2>4, <2>5, <2>6, <2>7, <2>8, <1>1, <1>2 DEF MarkInv
  <2>10. result'.got \in {k, CrcError, Nothing}
    <3> SUFFICES ASSUME NEW c \in Of("reply"), s.got = Body("reply", c)
                 PROVE  c \in {k, CrcError}
      BY <2>1
    <3>1. 1 \in 1 .. Len(s.got) /\ s.got[1] = <<"reply", c, 1>>
      BY BodyFacts
    <3>2. <<"reply", c, 1>> \in OfReply(k)
      BY <3>1, <2>3 DEF All
    <3>3. <<"reply", c, 1>>[1] = "reply" /\ <<"reply", c, 1>>[2] = c
      BY TokenFacts
    <3> QED BY <3>2, <3>3 DEF OfReply
  <2> QED BY <2>1, <2>9, <2>10, <1>2 DEF OwnReply
<1> QED BY <1>1, <1>6, <1>7

-----------------------------------------------------------------------------
(* A reply that is taken is the host's own.                                *)

LEMMA OwnInit == Init => OwnInv
<1> SUFFICES ASSUME Init PROVE MarkInv(host.k) /\ OwnReply
  BY DEF OwnInv
<1>1. /\ host.out = <<>> /\ tx = <<>> /\ rx = <<>> /\ fw.pc = "parse" /\ fw.in = Start
      /\ fw.out = <<>> /\ host.reply = Start /\ host.pc = "idle" /\ result.got = Nothing
  BY DEF Init
<1>2. Start.place = 0
  BY ParserFields
<1>3. MarkInv(host.k)
  BY <1>1, <1>2, EmptyQueue DEF MarkInv, MagicUnsent, RestOfReply, CmdSpent, Active
<1> QED BY <1>1, <1>3 DEF OwnReply

LEMMA OwnNext == TypeInv /\ TimeInv /\ OwnInv /\ [Next]_vars => OwnInv'
<1> SUFFICES ASSUME TypeInv, TimeInv, OwnInv, [Next]_vars, ~late'
             PROVE  MarkInv(host.k)' /\ OwnReply'
  BY DEF OwnInv
<1>1. ~late
  <2>1. late => late'
    BY DEF Next, vars, HostStep, FwStep, Begin, Put, AllPut, GiveUp, Receive, Parse, Console,
           TimeOut, SendPiece, Replied, RepeatData, Output, LoseCommand, LoseReply, Close, Reopen,
           Tick, Unchanged
  <2> QED BY <2>1
<1>2. MarkInv(host.k) /\ OwnReply
  BY <1>1 DEF OwnInv
<1>3. CASE GiveUp
  <2>1. ~paused
    BY <1>3 DEF GiveUp
  <2>2. result'.got = Nothing
    BY <1>3, GiveUpStep
  <2> QED BY <2>1, <2>2, <1>2, <1>3, GiveUpMark DEF OwnReply
<1>4. CASE Receive
  BY <1>2, <1>4, ReceiveMark
<1>5. ASSUME result' = result, late' = late PROVE OwnReply'
  BY <1>2, <1>5 DEF OwnReply
<1>6. CASE Begin \/ Put \/ AllPut
  BY <1>2, <1>5, <1>6, BeginMark, PutMark, AllPutMark DEF Begin, Put, AllPut
<1>7. CASE Parse \/ Console
  BY <1>2, <1>5, <1>7, ParseMark, ConsoleMark DEF Parse, Console
<1>8. CASE TimeOut \/ Replied
  BY <1>2, <1>5, <1>8, StartMark DEF TimeOut, Replied
<1>9. CASE SendPiece
  BY <1>2, <1>5, <1>9, SendPieceMark DEF SendPiece
<1>10. CASE RepeatData \/ Output
  BY <1>2, <1>5, <1>10, NoiseMark, NoiseStep
<1>11. CASE LoseCommand
  BY <1>2, <1>5, <1>11, LoseCommandMark, LoseCommandStep
<1>12. CASE LoseReply
  BY <1>2, <1>5, <1>12, LoseReplyMark, LoseReplyStep
<1>13. CASE Close \/ Reopen
  <2>1. UNCHANGED <<host, result, tx, rx, fw, late>>
    BY <1>13 DEF Close, Reopen
  <2>2. Active' = Active
    BY <2>1 DEF Active
  <2> QED BY <2>1, <2>2, <1>2, <1>5, StillMark
<1>14. CASE Tick
  <2>1. /\ host'.pc = host.pc /\ host'.k = host.k /\ host'.out = host.out
        /\ host'.reply = host.reply
        /\ fw'.pc = fw.pc /\ fw'.in = fw.in /\ fw'.out = fw.out
        /\ UNCHANGED <<result, tx, rx, late>>
    BY <1>14, TickStep
  <2>2. Active' = Active
    BY <2>1 DEF Active
  <2> QED BY <2>1, <2>2, <1>2, <1>5, StillMark
<1>15. CASE UNCHANGED vars
  <2>1. UNCHANGED <<host, result, tx, rx, fw, late>>
    BY <1>15 DEF vars
  <2>2. Active' = Active
    BY <2>1 DEF Active
  <2> QED BY <2>1, <2>2, <1>2, <1>5, StillMark
<1> QED BY <1>3, <1>4, <1>6, <1>7, <1>8, <1>9, <1>10, <1>11, <1>12, <1>13, <1>14, <1>15
        DEF Next, HostStep, FwStep
-----------------------------------------------------------------------------
(* A clean call: a command or a reply in order.                            *)

\* Whose the present command is.
LEMMA OwnCommand ==
    ASSUME TypeInv, Active
    PROVE  host.k \in Commands /\ host.k \in Of("cmd") /\ host.k \in Of("reply")
<1>1. host.k \in Nat /\ host.k <= Len(CmdData) /\ host.k > 0
  BY HostFields DEF TypeInv, TypeOK, Shape
<1>2. host.k \in Commands
  BY <1>1, DataNat
<1> QED BY <1>2 DEF Of

\* Two commands, or replies, differ.
LEMMA BodyOwn ==
    ASSUME NEW kind \in {"cmd", "reply"}, NEW k \in Of(kind), NEW c \in Of(kind),
           Body(kind, c) = Body(kind, k)
    PROVE  c = k
<1>1. <<kind, c, 1>> = <<kind, k, 1>>
  BY BodyFacts
<1> QED BY <1>1

\* How long a command or a reply is.
LEMMA SizeFacts ==
    ASSUME NEW kind \in {"cmd", "reply"}, NEW k \in Of(kind)
    PROVE  /\ Data(kind, k) \in Nat /\ Data(kind, k) <= 1
           /\ Size(kind, k) \in Nat /\ Size(kind, k) = Data(kind, k) + 4
<1>1. Data(kind, k) \in {0, 1}
  BY DataNat
<1> QED BY <1>1 DEF Size

\* The tokens that follow, with the first one taken.
LEMMA FollowsTail ==
    ASSUME NEW q \in Seq(Token), q # <<>>, NEW n \in Nat, NEW kind, NEW k, Follows(q, n, kind, k)
    PROVE  Head(q) = Nth(kind, k, n + 1) /\ Follows(Tail(q), n + 1, kind, k)
<1>1. /\ Len(q) \in Nat /\ Len(q) >= 1 /\ Len(Tail(q)) = Len(q) - 1
      /\ \A i \in 1 .. Len(Tail(q)) : Tail(q)[i] = q[i + 1]
      /\ Head(q) = q[1]
  BY TailFacts
<1>2. Head(q) = Nth(kind, k, n + 1)
  <2>1. 1 \in 1 .. Len(q)
    BY <1>1
  <2> QED BY <2>1, <1>1 DEF Follows
<1>3. ASSUME NEW i \in 1 .. Len(Tail(q)) PROVE Tail(q)[i] = Nth(kind, k, n + 1 + i)
  <2>1. i + 1 \in 1 .. Len(q) /\ n + (i + 1) = n + 1 + i
    BY <1>1
  <2>2. Tail(q)[i] = Nth(kind, k, n + (i + 1))
    BY <2>1, <1>1 DEF Follows
  <2> QED BY <2>1, <2>2
<1> QED BY <1>2, <1>3 DEF Follows

\* The tokens that follow, with one more.
LEMMA FollowsAppend ==
    ASSUME NEW q \in Seq(Token), NEW n \in Nat, NEW kind, NEW k, NEW t \in Token,
           Follows(q, n, kind, k), t = Nth(kind, k, n + Len(q) + 1)
    PROVE  Follows(Append(q, t), n, kind, k)
<1>1. /\ Len(q) \in Nat /\ Len(Append(q, t)) = Len(q) + 1
      /\ \A i \in 1 .. Len(q) : Append(q, t)[i] = q[i]
      /\ Append(q, t)[Len(q) + 1] = t
  BY AppendFacts
<1>2. ASSUME NEW i \in 1 .. Len(q) + 1 PROVE Append(q, t)[i] = Nth(kind, k, n + i)
  <2>1. CASE i \in 1 .. Len(q)
    BY <2>1, <1>1 DEF Follows
  <2>2. CASE i = Len(q) + 1
    <3>1. n + i = n + Len(q) + 1
      BY <2>2, <1>1
    <3> QED BY <3>1, <2>2, <1>1
  <2> QED BY <2>1, <2>2, <1>1
<1> QED BY <1>1, <1>2 DEF Follows

LEMMA FollowsNothing ==
    ASSUME NEW n, NEW kind, NEW k
    PROVE  Follows(<<>>, n, kind, k) /\ Len(<<>>) = 0
<1>1. Len(<<>>) = 0
  OBVIOUS
<1>2. 1 .. 0 = {}
  OBVIOUS
<1> QED BY <1>1, <1>2 DEF Follows

\* The next token of a command or a reply keeps a parser in step, and the last one
\* completes it.
LEMMA ReadsNth ==
    ASSUME NEW kind \in {"cmd", "reply"}, NEW k \in Of(kind), NEW s \in Parser, NEW t \in Token,
           HasRead(s, kind, k), t = Nth(kind, k, s.place + 1), NEW r \in Reads(s, t)
    PROVE  /\ r \in Parser /\ r.place = s.place + 1
           /\ r.len = s.len \/ r.len = Data(kind, k)
           /\ r.place < Size(kind, k) => HasRead(r, kind, k) /\ ~Complete(r)
           /\ r.place >= Size(kind, k) => Complete(r) /\ r.got = Body(kind, k)
<1>1. PICK n \in Nat, d \in {0, 1} : n = s.place /\ d = Data(kind, k)
  BY DataNat, ParserFields
<1>2. Size(kind, k) = d + 4 /\ n < d + 4 /\ s.len \in {0, 1, 9} /\ s.got \in Seq(Token)
  BY <1>1, ParserFields DEF Size, HasRead
<1>3. r \in Parser
  BY ReadsFacts
<1>4. CASE n < 2
  <2>1. t = Magic(n)
    <3>1. n + 1 < 3 /\ n + 1 - 1 = n
      BY <1>4
    <3> QED BY <3>1, <1>1 DEF Nth
  <2>2. r = [s EXCEPT !.place = @ + 1]
    BY <2>1, <1>1, <1>4 DEF Reads
  <2>3. r.place = n + 1 /\ r.len = s.len
    BY <2>2, <1>1 DEF Parser
  <2>4. r.place < d + 4 /\ ~(r.place >= 3) /\ ~(r.place = r.len + 4)
    BY <2>3, <1>2, <1>4
  <2> QED BY <2>3, <2>4, <1>1, <1>2, <1>3 DEF HasRead, Complete
<1>5. CASE n = 2
  <2>1. t = <<kind, k, 1>>
    <3>1. n + 1 = 3 /\ n + 1 - 2 = 1
      BY <1>5
    <3> QED BY <3>1, <1>1 DEF Nth
  <2>2. t[1] = kind /\ t[2] = k /\ t[3] = 1
    BY <2>1, TokenFacts
  <2>3. Lengths(t) = {d}
    <3>1. IsHeader(t)
      BY <2>2, TokenFacts DEF IsHeader
    <3> QED BY <3>1, <2>2, <1>1 DEF Lengths
  <2>4. r.place = 3 /\ r.len = d /\ r.got = <<t>>
    BY <2>3, <1>1, <1>5, ReadsFacts
  <2>5. PICK g : g = <<t>>
    OBVIOUS
  <2>6. Len(g) = 1 /\ g[1] = t
    BY <2>5
  <2>7. \A i \in 1 .. r.place - 2 : r.got[i] = <<kind, k, i>>
    <3>1. \A i \in 1 .. 3 - 2 : i = 1
      OBVIOUS
    <3> QED BY <3>1, <2>1, <2>4, <2>5, <2>6
  <2>8. r.place < d + 4 /\ Len(r.got) = r.place - 2 /\ ~(r.place = r.len + 4)
    <3>1. Len(r.got) = 1
      BY <2>4, <2>5, <2>6
    <3> QED BY <3>1, <2>4
  <2> QED BY <2>4, <2>7, <2>8, <1>1, <1>2, <1>3, <1>5 DEF HasRead, Complete
<1>6. CASE n > 2
  <2>1. t = <<kind, k, n - 1>>
    <3>1. ~(n + 1 < 3) /\ n + 1 - 2 = n - 1
      BY <1>6
    <3> QED BY <3>1, <1>1 DEF Nth
  <2>2. /\ s.len = d /\ Len(s.got) = n - 2
        /\ \A i \in 1 .. n - 2 : s.got[i] = <<kind, k, i>>
    BY <1>1, <1>6 DEF HasRead
  <2>3. r.place = n + 1 /\ r.len = d /\ r.got = Append(s.got, t)
    BY <2>2, <1>1, <1>6, ReadsFacts
  <2>4. PICK g \in Seq(Token) : /\ g = Append(s.got, t) /\ Len(g) = Len(s.got) + 1
                                /\ \A i \in 1 .. Len(s.got) : g[i] = s.got[i]
                                /\ g[Len(s.got) + 1] = t
    <3>1. /\ Append(s.got, t) \in Seq(Token) /\ Len(Append(s.got, t)) = Len(s.got) + 1
          /\ \A i \in 1 .. Len(s.got) : Append(s.got, t)[i] = s.got[i]
          /\ Append(s.got, t)[Len(s.got) + 1] = t
      BY <1>2, AppendFacts
    <3> QED BY <3>1, Zenon
  <2>5. Len(s.got) + 1 = n - 1 /\ n - 1 \in Nat
    BY <2>2, <1>6
  <2>6. Len(g) = n - 1 /\ g[n - 1] = t /\ \A i \in 1 .. n - 2 : g[i] = s.got[i]
    BY <2>2, <2>4, <2>5, Zenon
  <2>7. ASSUME NEW i \in 1 .. n - 1 PROVE g[i] = <<kind, k, i>>
    <3>1. i \in 1 .. n - 2 \/ i = n - 1
      BY <1>6
    <3> QED BY <3>1, <2>1, <2>2, <2>6
  <2>8. r.place - 2 = n - 1
    BY <2>3, <1>6
  <2>9. CASE n + 1 < d + 4
    <3>1. ~Complete(r)
      BY <2>3, <2>9 DEF Complete
    <3>2. HasRead(r, kind, k)
      BY <2>3, <2>4, <2>6, <2>7, <2>8, <2>9, <1>1, <1>2 DEF HasRead
    <3> QED BY <3>1, <3>2, <2>3, <2>9, <1>1, <1>2, <1>3
  <2>10. CASE n + 1 >= d + 4
    <3>1. n - 1 = d + 2
      BY <2>10, <1>2
    <3>2. PICK b \in Seq(Token) : b = Body(kind, k) /\ Len(b) = n - 1
                                  /\ \A i \in 1 .. n - 1 : b[i] = <<kind, k, i>>
      <4>1. /\ Body(kind, k) \in Seq(Token) /\ Len(Body(kind, k)) = n - 1
            /\ \A i \in 1 .. n - 1 : Body(kind, k)[i] = <<kind, k, i>>
        BY <3>1, <1>1, BodyFacts
      <4> QED BY <4>1, Zenon
    <3>3. Len(g) = Len(b) /\ \A i \in 1 .. Len(g) : g[i] = b[i]
      BY <3>2, <2>6, <2>7, Zenon
    <3>4. g = b
      BY <3>3, SeqEqual, Zenon
    <3>5. Complete(r)
      BY <2>3, <2>10, <1>2 DEF Complete
    <3> QED BY <3>2, <3>4, <3>5, <2>3, <2>4, <2>10, <1>1, <1>2, <1>3
  <2> QED BY <2>9, <2>10, <1>2
<1> QED BY <1>4, <1>5, <1>6
-----------------------------------------------------------------------------
(* A clean call: its steps.                                                *)

\* The command is put in the queue of an idle firmware.
LEMMA BeginClean ==
    ASSUME TypeInv, OwnInv, Begin, clean'
    PROVE  Active' /\ up' /\ ~paused' /\ Asking(host.k)'
<1>1. PICK k \in Commands : k = host'.k /\ host'.out = Command(k) /\ host'.reply = Start
  BY BeginStep
<1>2. /\ tx' = <<>> /\ rx' = <<>> /\ fw'.pc = "parse" /\ fw' = fw /\ up' /\ ~paused' /\ ~late
      /\ ~Active /\ Active'
  BY BeginStep DEF Begin, Active
<1>3. fw.in.place = 0
  BY <1>2 DEF OwnInv, MarkInv, CmdSpent
<1>4. PICK out \in Seq(Token), n \in Nat :
        /\ out = Command(k) /\ n = Size("cmd", k) /\ Len(out) = n /\ n > 0
        /\ \A i \in 1 .. n : out[i] = Nth("cmd", k, i)
  <2>1. Size("cmd", k) \in Nat /\ Size("cmd", k) > 0
    BY SizeFacts DEF Of
  <2>2. /\ Command(k) \in Seq(Token) /\ Len(Command(k)) = Size("cmd", k)
        /\ \A i \in 1 .. Size("cmd", k) : Command(k)[i] = Nth("cmd", k, i)
    BY CommandFacts
  <2> QED BY <2>1, <2>2, Zenon
<1>5. Follows(out, 0 + 0, "cmd", k)
  <2>1. \A i \in 1 .. n : 0 + 0 + i = i
    OBVIOUS
  <2> QED BY <2>1, <1>4 DEF Follows
<1>6. HasRead(fw.in, "cmd", k)
  BY <1>3, <1>4 DEF HasRead
<1>7. fw.in.place + Len(<<>>) + Len(out) = n
  BY <1>3, <1>4, FollowsNothing
<1>8. Follows(<<>>, 0, "cmd", k)
  BY FollowsNothing
<1>9. Follows(out, fw.in.place + Len(<<>>), "cmd", k)
  BY <1>3, <1>5, FollowsNothing
<1>10. ~(fw.in.place > 0)
  BY <1>3
<1> QED BY <1>1, <1>2, <1>3, <1>4, <1>6, <1>7, <1>8, <1>9, <1>10 DEF Asking

\* The writer's queue moves on.
LEMMA PutClean ==
    ASSUME TypeInv, NEW k, Asking(k), Put
    PROVE  Asking(k)'
<1>1. /\ host.out # <<>> /\ host'.out = Tail(host.out) /\ host'.reply = host.reply
      /\ tx' = Append(tx, Head(host.out)) /\ UNCHANGED <<rx, fw>>
  BY PutStep DEF Put
<1>2. PICK q \in Seq(Token), out \in Seq(Token), n \in Nat, m \in Nat :
        q = tx /\ out = host.out /\ n = fw.in.place /\ m = Len(q)
  <2>1. tx \in Seq(Token) /\ host.out \in Seq(Token) /\ fw.in.place \in Nat /\ Len(tx) \in Nat
    BY Queues, Numbers
  <2> QED BY <2>1, Zenon
<1>3. PICK t \in Token : t = Head(out)
  BY <1>1, <1>2, TailFacts
<1>4. Follows(q, n, "cmd", k) /\ Follows(out, n + m, "cmd", k)
  BY <1>2 DEF Asking
<1>5. n + m \in Nat
  OBVIOUS
<1>6. t = Nth("cmd", k, n + m + 1) /\ Follows(Tail(out), n + m + 1, "cmd", k)
  <2>1. out # <<>>
    BY <1>1, <1>2
  <2>2. Head(out) = Nth("cmd", k, n + m + 1) /\ Follows(Tail(out), n + m + 1, "cmd", k)
    BY <2>1, <1>4, <1>5, FollowsTail
  <2> QED BY <2>2, <1>3
<1>7. Follows(Append(q, t), n, "cmd", k)
  BY <1>2, <1>4, <1>6, FollowsAppend
<1>8. Len(Append(q, t)) = m + 1 /\ Len(Tail(out)) = Len(out) - 1 /\ Len(out) \in Nat
  <2>1. Len(Append(q, t)) = m + 1
    BY <1>2, AppendFacts
  <2>2. Len(Tail(out)) = Len(out) - 1 /\ Len(out) \in Nat
    BY <1>1, <1>2, TailFacts
  <2> QED BY <2>1, <2>2
<1>9. n + Len(Append(q, t)) + Len(Tail(out)) = n + Len(q) + Len(out)
  <2>1. \A l \in Nat : n + (m + 1) + (l - 1) = n + m + l
    OBVIOUS
  <2>2. n + (m + 1) + (Len(out) - 1) = n + m + Len(out)
    BY <2>1, <1>8
  <2> QED BY <2>2, <1>2, <1>8, Zenon
<1>10. n + Len(Append(q, t)) = n + m + 1
  BY <1>8
<1>11. tx' = Append(q, t) /\ host'.out = Tail(out) /\ fw'.in.place = n
  BY <1>1, <1>2, <1>3
<1>12. fw'.in.place + Len(tx') + Len(host'.out) = Size("cmd", k)
  BY <1>2, <1>9, <1>11, Zenon DEF Asking
<1>13. Follows(tx', fw'.in.place, "cmd", k) /\ Follows(host'.out, fw'.in.place + Len(tx'), "cmd", k)
  BY <1>6, <1>7, <1>10, <1>11, Zenon
<1>14. /\ fw'.pc = "parse" /\ rx' = <<>> /\ host'.reply = Start
       /\ HasRead(fw'.in, "cmd", k) /\ (fw'.in.place > 0 => fw'.t = 0)
  BY <1>1 DEF Asking
<1> QED BY <1>12, <1>13, <1>14 DEF Asking

\* A clean call is not given up.
LEMMA GiveUpClean ==
    ASSUME TypeInv, TimeInv, NEW k \in Commands, Asking(k) \/ Answering(k), GiveUp, ~paused
    PROVE  FALSE
<1>1. /\ tx = <<>> /\ rx = <<>> /\ fw.pc # "reply" /\ (fw.pc = "parse" => fw.in.place = 0)
      /\ host.pc = "recv" /\ host.out = <<>> /\ fw.out = <<>>
  BY GivesUpQuietly DEF Quiet, TypeInv, Shape
<1>2. Len(<<>>) = 0
  OBVIOUS
<1>3. /\ Size("cmd", k) \in Nat /\ Size("cmd", k) >= 4
      /\ Data("reply", k) \in Nat /\ Size("reply", k) = Data("reply", k) + 4
  BY SizeFacts DEF Of
<1>4. CASE Asking(k)
  <2>1. 0 + 0 + 0 = Size("cmd", k)
    BY <1>1, <1>2, <1>4, Zenon DEF Asking
  <2> QED BY <2>1, <1>3
<1>5. CASE Answering(k)
  <2>1. NSent(k) = Size("reply", k) - 0
    <3>1. ~(0 = Data("reply", k) + 3)
      BY <1>3
    <3>2. Len(fw.out) = 0
      BY <1>1
    <3> QED BY <3>1, <3>2 DEF NSent
  <2>2. host.reply.place + 0 = NSent(k) /\ host.reply.place < Size("reply", k)
    BY <1>1, <1>2, <1>5 DEF Answering, HasRead
  <2>3. host.reply.place \in Nat
    BY Numbers
  <2> QED BY <2>1, <2>2, <2>3, <1>3
<1> QED BY <1>4, <1>5

\* A step of one who has nothing to do with it.
LEMMA StillClean ==
    ASSUME NEW k, fw'.pc = fw.pc, fw'.in = fw.in, fw'.out = fw.out, host'.out = host.out,
           host'.reply = host.reply, tx' = tx, rx' = rx
    PROVE  /\ Asking(k) /\ (fw.in.place > 0 => fw'.t = 0) => Asking(k)'
           /\ Answering(k) => Answering(k)'
BY DEF Asking, Answering, NSent

\* The firmware reads the command and begins to answer it.
LEMMA ParseClean ==
    ASSUME TypeInv, NEW k \in Commands, Asking(k), Parse
    PROVE  Asking(k)' \/ Answering(k)'
<1>0. k \in Of("cmd") /\ k \in Of("reply")
  BY DEF Of
<1>1. /\ fw.pc = "parse" /\ fw.out = <<>> /\ tx # <<>> /\ Head(tx) \in Token
      /\ tx' = Tail(tx) /\ UNCHANGED <<host, rx>>
      /\ ToConsole \/ ParsesOn \/ Drops \/ Answers
  BY ParseStep DEF Parse
<1>2. PICK q \in Seq(Token), out \in Seq(Token), n \in Nat, t \in Token :
        q = tx /\ out = host.out /\ n = fw.in.place /\ t = Head(tx)
  <2>1. tx \in Seq(Token) /\ host.out \in Seq(Token) /\ fw.in.place \in Nat
    BY Queues, Numbers
  <2> QED BY <2>1, <1>1, Zenon
<1>3. /\ HasRead(fw.in, "cmd", k) /\ fw.in \in Parser
      /\ n + Len(q) + Len(out) = Size("cmd", k)
      /\ Follows(q, n, "cmd", k) /\ Follows(out, n + Len(q), "cmd", k)
  BY <1>2, Queues DEF Asking
<1>4. t = Nth("cmd", k, n + 1) /\ Follows(Tail(q), n + 1, "cmd", k)
  <2>1. q # <<>> /\ Follows(q, n, "cmd", k)
    BY <1>1, <1>2, <1>3
  <2>2. Head(q) = Nth("cmd", k, n + 1) /\ Follows(Tail(q), n + 1, "cmd", k)
    BY <2>1, FollowsTail
  <2> QED BY <2>2, <1>2
<1>5. PICK m \in Nat, l \in Nat : m = Len(Tail(q)) /\ Len(q) = m + 1 /\ l = Len(out)
  <2>1. Len(q) \in Nat /\ Len(q) >= 1 /\ Len(Tail(q)) = Len(q) - 1 /\ Tail(q) \in Seq(Token)
    BY <1>1, <1>2, TailFacts
  <2>2. Len(Tail(q)) \in Nat /\ Len(q) = Len(Tail(q)) + 1 /\ Len(out) \in Nat
    BY <2>1
  <2> QED BY <2>2, Zenon
<1>6. n + 1 + m + l = Size("cmd", k) /\ Follows(out, n + 1 + m, "cmd", k)
  <2>1. n + (m + 1) = n + 1 + m
    OBVIOUS
  <2>2. n + Len(q) = n + 1 + m
    BY <2>1, <1>5
  <2> QED BY <2>2, <1>3, <1>5
<1>7. Data("cmd", k) \in Nat /\ Data("cmd", k) <= 1 /\ Size("cmd", k) \in Nat
      /\ Size("cmd", k) = Data("cmd", k) + 4
  BY <1>0, SizeFacts
<1>8. ASSUME NEW s \in Reads(fw.in, t)
      PROVE  /\ s \in Parser /\ s.place = n + 1
             /\ s.place < Size("cmd", k) => HasRead(s, "cmd", k) /\ ~Complete(s)
             /\ s.place >= Size("cmd", k) => Complete(s) /\ s.got = Body("cmd", k)
  <2>1. t = Nth("cmd", k, fw.in.place + 1)
    BY <1>2, <1>4
  <2>2. /\ s \in Parser /\ s.place = fw.in.place + 1
        /\ s.place < Size("cmd", k) => HasRead(s, "cmd", k) /\ ~Complete(s)
        /\ s.place >= Size("cmd", k) => Complete(s) /\ s.got = Body("cmd", k)
    BY <2>1, <1>0, <1>3, ReadsNth
  <2> QED BY <2>2, <1>2
<1>9. ~ToConsole
  <2> SUFFICES ASSUME n = 0, t[1] # "magic" PROVE FALSE
    BY <1>2 DEF ToConsole
  <2>1. t = Magic(0)
    <3>1. 0 + 1 < 3 /\ 0 + 1 - 1 = 0
      OBVIOUS
    <3> QED BY <3>1, <1>4 DEF Nth
  <2> QED BY <2>1, TokenFacts
<1>10. ~Drops
  <2> SUFFICES ASSUME NEW s \in Reads(fw.in, t), s.place = 3, s.len = Long PROVE FALSE
    BY <1>2 DEF Drops
  <2>1. HasRead(s, "cmd", k)
    BY <1>7, <1>8
  <2> QED BY <2>1, <1>7 DEF HasRead, Long
<1>11. CASE ParsesOn
  <2>1. PICK s \in Reads(fw.in, t) :
           /\ ~Complete(s) /\ fw'.pc = "parse" /\ fw'.in = s
           /\ fw'.out = fw.out /\ fw'.t = 0
    BY <1>2, <1>11 DEF ParsesOn
  <2>2. s.place = n + 1 /\ s \in Parser
    BY <1>8
  <2>3. HasRead(s, "cmd", k)
    <3>1. s.place < Size("cmd", k) \/ s.place >= Size("cmd", k)
      BY <2>2, <1>7
    <3> QED BY <3>1, <2>1, <1>8
  <2>4. /\ fw'.in.place = n + 1 /\ tx' = Tail(q) /\ host'.out = out /\ fw'.in.place + Len(tx') = n + 1 + m
    BY <2>1, <2>2, <1>1, <1>2, <1>5
  <2>5. fw'.in.place + Len(tx') + Len(host'.out) = Size("cmd", k)
    BY <2>4, <1>5, <1>6
  <2>6. Follows(tx', fw'.in.place, "cmd", k) /\ Follows(host'.out, fw'.in.place + Len(tx'), "cmd", k)
    BY <2>4, <1>4, <1>6, Zenon
  <2>7. /\ fw'.pc = "parse" /\ rx' = <<>> /\ host'.reply = Start
        /\ HasRead(fw'.in, "cmd", k) /\ fw'.t = 0
    BY <2>1, <2>3, <1>1 DEF Asking
  <2> QED BY <2>5, <2>6, <2>7 DEF Asking
<1>12. CASE Answers
  <2>1. PICK s \in Reads(fw.in, t), c \in Of("reply") :
           /\ Complete(s) /\ Received(s, c)
           /\ fw'.pc = "reply" /\ fw'.out = Pieces(c) /\ fw'.t = fw.t
    BY <1>2, <1>12 DEF Answers
  <2>2. /\ s.place = n + 1 /\ s.place >= Size("cmd", k) /\ s.got = Body("cmd", k)
    BY <2>1, <1>7, <1>8
  <2>3. c = k
    <3>1. c # CrcError
      BY <2>1, <2>2 DEF Received
    <3>2. c \in Of("cmd") /\ Body("cmd", c) = Body("cmd", k)
      BY <3>1, <2>1, <2>2 DEF Received, Of
    <3> QED BY <3>2, <1>0, BodyOwn
  <2>4. m = 0 /\ l = 0
    BY <2>2, <1>6, <1>7
  <2>5. tx' = <<>> /\ host'.out = <<>>
    <3>1. Tail(q) \in Seq(Token) /\ Len(Tail(q)) = 0
      BY <2>4, <1>1, <1>2, <1>5, TailFacts
    <3>2. Tail(q) = <<>> /\ out = <<>>
      <4>1. \A p \in Seq(Token) : Len(p) = 0 => p = <<>>
        OBVIOUS
      <4> QED BY <4>1, <3>1, <2>4, <1>5
    <3> QED BY <3>2, <1>1, <1>2
  <2>6. PICK p \in Seq(Seq(Token)), d \in Nat :
          p = Pieces(k) /\ d = Data("reply", k) /\ Len(p) = d + 3
    <3>1. Data("reply", k) \in Nat
      BY <1>0, SizeFacts
    <3> QED BY <3>1, <1>0, PiecesFacts
  <2>7. /\ Len(fw'.out) = d + 3
        /\ \A i \in 1 .. Len(fw'.out) : fw'.out[i] = Pieces(k)[d + 3 - Len(fw'.out) + i]
    <3>1. \A i \in 1 .. d + 3 : d + 3 - (d + 3) + i = i
      OBVIOUS
    <3>2. fw'.out = p
      BY <2>1, <2>3, <2>6
    <3>3. Len(fw'.out) = d + 3
      BY <3>2, <2>6
    <3> QED BY <3>1, <3>2, <3>3, <2>6, Zenon
  <2>8. NSent(k)' = 0
    BY <2>6, <2>7 DEF NSent
  <2>9. host'.reply = Start /\ rx' = <<>> /\ Start.place = 0
    BY <1>1, ParserFields DEF Asking
  <2>10. HasRead(Start, "reply", k)
    <3>1. Size("reply", k) \in Nat /\ Size("reply", k) >= 4
      BY <1>0, SizeFacts
    <3> QED BY <3>1, <2>9 DEF HasRead
  <2>11. host'.reply.place + Len(rx') = NSent(k)'
    BY <2>8, <2>9, FollowsNothing
  <2>12. Follows(rx', host'.reply.place, "reply", k)
    BY <2>9, FollowsNothing
  <2>13. Len(fw'.out) <= d + 3
    BY <2>7
  <2> QED BY <2>1, <2>5, <2>6, <2>7, <2>9, <2>10, <2>11, <2>12, <2>13 DEF Answering
<1> QED BY <1>1, <1>9, <1>10, <1>11, <1>12

\* The firmware sends its answer, piece by piece.
LEMMA SendPieceClean ==
    ASSUME TypeInv, NEW k \in Commands, Answering(k), up, SendPiece, clean'
    PROVE  Answering(k)'
<1>0. k \in Of("reply")
  BY DEF Of
<1>1. /\ fw.pc = "reply" /\ fw.out # <<>> /\ fw'.pc = "reply" /\ fw'.in = fw.in
      /\ fw'.out = Tail(fw.out) /\ UNCHANGED <<host, tx>>
  BY SendPieceStep DEF SendPiece
<1>2. rx' = rx \o Head(fw.out)
  BY DEF SendPiece, Troubled
<1>3. PICK S : S = Seq(Token)
  OBVIOUS
<1>4. PICK out \in Seq(S), L \in Nat : out = fw.out /\ L = Len(out) /\ out # <<>>
  <2>1. fw.out \in Seq(S) /\ Len(fw.out) \in Nat
    BY <1>3, Queues
  <2> QED BY <2>1, <1>1, Zenon
<1>5. /\ L >= 1 /\ Len(Tail(out)) = L - 1 /\ Head(out) = out[1]
      /\ \A i \in 1 .. L - 1 : Tail(out)[i] = out[i + 1]
  BY <1>4, TailFacts
<1>6. PICK d \in Nat : /\ d = Data("reply", k) /\ d <= 1 /\ Size("reply", k) = d + 4
                       /\ Len(Pieces(k)) = d + 3
  <2>1. Data("reply", k) \in Nat /\ Data("reply", k) <= 1 /\ Size("reply", k) = Data("reply", k) + 4
    BY <1>0, SizeFacts
  <2> QED BY <2>1, <1>0, PiecesFacts
<1>7. /\ L <= d + 3
      /\ \A i \in 1 .. L : out[i] = Pieces(k)[d + 3 - L + i]
  BY <1>4, <1>6 DEF Answering
<1>8. PICK p \in Nat, n \in Nat, q \in Seq(Token) :
        p = host.reply.place /\ q = rx /\ n = Len(q)
  <2>1. host.reply.place \in Nat /\ rx \in Seq(Token) /\ Len(rx) \in Nat
    BY Numbers, Queues
  <2> QED BY <2>1, Zenon
<1>9. Follows(q, p, "reply", k) /\ p + n = NSent(k)
  BY <1>8 DEF Answering
<1>10. /\ Len(fw'.out) = L - 1 /\ Len(fw'.out) <= d + 3
       /\ \A i \in 1 .. Len(fw'.out) : fw'.out[i] = Pieces(k)[d + 3 - Len(fw'.out) + i]
  <2>1. fw'.out = Tail(out) /\ Len(fw'.out) = L - 1
    BY <1>1, <1>4, <1>5
  <2>2. ASSUME NEW i \in 1 .. L - 1 PROVE Tail(out)[i] = Pieces(k)[d + 3 - (L - 1) + i]
    <3>1. i + 1 \in 1 .. L /\ d + 3 - L + (i + 1) = d + 3 - (L - 1) + i
      OBVIOUS
    <3>2. Tail(out)[i] = Pieces(k)[d + 3 - L + (i + 1)]
      BY <3>1, <1>5, <1>7
    <3> QED BY <3>1, <3>2
  <2>3. L - 1 <= d + 3
    BY <1>7
  <2>4. \A i \in 1 .. Len(fw'.out) : fw'.out[i] = Pieces(k)[d + 3 - Len(fw'.out) + i]
    BY <2>1, <2>2, Zenon
  <2> QED BY <2>1, <2>3, <2>4
<1>11. NSent(k)' = d + 5 - L
  <2>1. L - 1 # d + 3 /\ d + 4 - (L - 1) = d + 5 - L
    BY <1>7
  <2> QED BY <2>1, <1>6, <1>10 DEF NSent
<1>12. p + Len(rx') = d + 5 - L /\ Follows(rx', p, "reply", k)
  <2>1. CASE L = d + 3
    <3>1. p = 0 /\ n = 0
      <4>1. NSent(k) = 0
        BY <2>1, <1>4, <1>6 DEF NSent
      <4> QED BY <4>1, <1>8, <1>9
    <3>2. Head(out) = MagicPiece
      <4>1. 1 \in 1 .. L /\ d + 3 - L + 1 = 1
        BY <2>1
      <4>2. out[1] = Pieces(k)[1]
        BY <4>1, <1>7
      <4> QED BY <4>2, <1>0, <1>5, PiecesFacts
    <3>3. PICK a \in Token, b \in Token : a = Magic(0) /\ b = Magic(1)
      BY TokenFacts DEF Mark
    <3>4. a = Nth("reply", k, 0 + 0 + 1) /\ b = Nth("reply", k, 0 + 1 + 1)
      BY <3>3 DEF Nth
    <3>5. PICK u \in Seq(Token) : u = Append(q, a)
      BY AppendFacts
    <3>6. Len(u) = 1 /\ Follows(u, 0, "reply", k)
      <4>1. Len(u) = Len(q) + 1
        BY <3>5, AppendFacts
      <4>2. Follows(Append(q, a), 0, "reply", k)
        BY <3>1, <3>4, <1>8, <1>9, FollowsAppend
      <4> QED BY <4>1, <4>2, <3>1, <3>5, <1>8
    <3>7. Len(Append(u, b)) = 2 /\ Follows(Append(u, b), 0, "reply", k)
      <4>1. Len(Append(u, b)) = Len(u) + 1
        BY AppendFacts
      <4>2. Follows(Append(u, b), 0, "reply", k)
        BY <3>4, <3>6, FollowsAppend
      <4>3. Len(u) + 1 = 2
        BY <3>6
      <4> QED BY <4>1, <4>2, <4>3, Zenon
    <3>8. rx' = Append(u, b)
      <4>1. rx' = q \o MagicPiece
        BY <3>2, <1>2, <1>4, <1>8
      <4> QED BY <4>1, <3>3, <3>5, PieceTokens
    <3>9. Len(rx') = 2 /\ Follows(rx', p, "reply", k)
      BY <3>1, <3>7, <3>8
    <3> QED BY <3>1, <3>9, <2>1
  <2>2. CASE L < d + 3
    <3>1. p + n = d + 4 - L
      BY <2>2, <1>4, <1>6, <1>9 DEF NSent
    <3>2. PICK j \in Nat : j = d + 3 - L /\ j \in 1 .. d + 2
      <4>1. d + 3 - L \in Nat /\ d + 3 - L \in 1 .. d + 2
        BY <2>2, <1>5
      <4> QED BY <4>1
    <3>3. Head(out) = <<<<"reply", k, j>>>>
      <4>1. 1 \in 1 .. L /\ d + 3 - L + 1 = j + 1 /\ j + 1 \in 2 .. d + 3 /\ j + 1 - 1 = j
        BY <3>2, <1>5
      <4>2. out[1] = Pieces(k)[j + 1]
        BY <4>1, <1>7
      <4>3. Pieces(k)[j + 1] = <<<<"reply", k, j + 1 - 1>>>>
        <5>1. j + 1 \in 2 .. Data("reply", k) + 3
          BY <4>1, <1>6
        <5> QED BY <5>1, <1>0, PiecesFacts
      <4> QED BY <4>1, <4>2, <4>3, <1>5
    <3>4. PICK t \in Token : t = <<"reply", k, j>>
      BY <1>0, TokenFacts
    <3>5. t = Nth("reply", k, p + n + 1)
      <4>1. p + n + 1 = j + 2 /\ ~(j + 2 < 3) /\ j + 2 - 2 = j
        BY <3>1, <3>2
      <4>2. Nth("reply", k, j + 2) = <<"reply", k, j>>
        BY <4>1 DEF Nth
      <4> QED BY <4>1, <4>2, <3>4
    <3>6. rx' = Append(q, t)
      <4>1. rx' = q \o <<t>>
        BY <3>3, <3>4, <1>2, <1>4, <1>8
      <4> QED BY <4>1, PieceTokens
    <3>7. Follows(Append(q, t), p, "reply", k)
      BY <3>5, <1>8, <1>9, FollowsAppend
    <3>8. Len(Append(q, t)) = n + 1
      BY <1>8, AppendFacts
    <3>9. Len(rx') = n + 1
      BY <3>6, <3>8
    <3>10. p + (n + 1) = d + 5 - L
      BY <3>1
    <3> QED BY <3>6, <3>7, <3>9, <3>10
  <2> QED BY <2>1, <2>2, <1>7
<1>13. host'.reply.place + Len(rx') = NSent(k)' /\ Follows(rx', host'.reply.place, "reply", k)
  <2>1. host'.reply.place = p
    BY <1>1, <1>8
  <2> QED BY <2>1, <1>11, <1>12
<1>14. host'.out = <<>> /\ tx' = <<>> /\ HasRead(host'.reply, "reply", k)
  BY <1>1 DEF Answering
<1> QED BY <1>1, <1>6, <1>10, <1>13, <1>14 DEF Answering

\* The host reads its reply, and takes it.
LEMMA ReceiveClean ==
    ASSUME TypeInv, NEW k \in Commands, k = host.k, Asking(k) \/ Answering(k), Receive
    PROVE  IF Active' THEN Answering(k)' ELSE result'.got = result'.k
<1>0. k \in Of("reply")
  BY DEF Of
<1>1. /\ host.pc = "recv" /\ rx # <<>> /\ Head(rx) \in Token /\ host'.k = host.k /\ rx' = Tail(rx)
      /\ host.out = <<>> /\ UNCHANGED <<tx, fw>>
      /\ Took \/ ReadOn
  BY ReceiveStep DEF Receive, TypeInv, Shape
<1>2. Answering(k)
  BY <1>1 DEF Asking
<1>3. PICK q \in Seq(Token), n \in Nat, t \in Token : q = rx /\ n = host.reply.place /\ t = Head(rx)
  <2>1. rx \in Seq(Token) /\ host.reply.place \in Nat
    BY Queues, Numbers
  <2> QED BY <2>1, <1>1, Zenon
<1>4. /\ HasRead(host.reply, "reply", k) /\ host.reply \in Parser
      /\ n + Len(q) = NSent(k) /\ Follows(q, n, "reply", k)
  BY <1>2, <1>3, Queues DEF Answering
<1>5. t = Nth("reply", k, n + 1) /\ Follows(Tail(q), n + 1, "reply", k)
  BY <1>1, <1>3, <1>4, FollowsTail
<1>6. ASSUME NEW s \in Reads(host.reply, t)
      PROVE  /\ s \in Parser /\ s.place = n + 1
             /\ \/ HasRead(s, "reply", k) /\ ~Complete(s)
                \/ Complete(s) /\ s.got = Body("reply", k)
  <2>1. t = Nth("reply", k, host.reply.place + 1)
    BY <1>3, <1>5
  <2>2. /\ s \in Parser /\ s.place = host.reply.place + 1
        /\ s.place < Size("reply", k) => HasRead(s, "reply", k) /\ ~Complete(s)
        /\ s.place >= Size("reply", k) => Complete(s) /\ s.got = Body("reply", k)
    BY <2>1, <1>0, <1>4, ReadsNth
  <2>3. s.place < Size("reply", k) \/ s.place >= Size("reply", k)
    <3>1. Size("reply", k) \in Nat /\ s.place \in Nat
      BY <2>2, <1>0, SizeFacts, ParserFields
    <3> QED BY <3>1
  <2> QED BY <2>2, <2>3, <1>3
<1>7. CASE ReadOn
  <2>1. /\ host'.reply \in Reads(host.reply, t) /\ ~Complete(host'.reply)
        /\ host'.pc = host.pc /\ host'.out = host.out
    BY <1>3, <1>7 DEF ReadOn
  <2>2. HasRead(host'.reply, "reply", k) /\ host'.reply.place = n + 1
    BY <2>1, <1>6
  <2>3. PICK m \in Nat : m = Len(Tail(q)) /\ Len(q) = m + 1
    BY <1>1, <1>3, TailFacts
  <2>4. rx' = Tail(q) /\ NSent(k)' = NSent(k) /\ n + 1 + m = NSent(k)
    <3>1. rx' = Tail(q)
      BY <1>1, <1>3
    <3>2. NSent(k)' = NSent(k)
      BY <1>1 DEF NSent
    <3>3. n + 1 + m = n + (m + 1)
      OBVIOUS
    <3> QED BY <3>1, <3>2, <3>3, <2>3, <1>4
  <2>5. host'.reply.place + Len(rx') = NSent(k)' /\ Follows(rx', host'.reply.place, "reply", k)
    BY <2>2, <2>3, <2>4, <1>5
  <2>6. Answering(k)'
    BY <2>1, <2>2, <2>5, <1>1, <1>2 DEF Answering
  <2> QED BY <2>1, <2>6, <1>1 DEF Active
<1>8. CASE Took
  <2>1. PICK s \in Reads(host.reply, t) :
           /\ Complete(s) /\ host'.pc \in {"idle", "done"} /\ result'.k = host.k
           /\ \/ \E c \in Of("reply") : s.got = Body("reply", c) /\ result'.got = c
              \/ s.got # Body("reply", host.k) /\ result'.got = Nothing
    BY <1>3, <1>8 DEF Took
  <2>2. s.got = Body("reply", k)
    BY <2>1, <1>6
  <2>3. PICK c \in Of("reply") : Body("reply", c) = Body("reply", k) /\ result'.got = c
    BY <2>1, <2>2
  <2>4. c = k
    BY <2>3, <1>0, BodyOwn
  <2> QED BY <2>1, <2>3, <2>4 DEF Active
<1> QED BY <1>1, <1>7, <1>8

\* The parser starts again: it had read nothing, or the answer is sent.
LEMMA StartClean ==
    ASSUME TypeInv, NEW k \in Commands
    PROVE  /\ Asking(k) /\ TimeOut => Asking(k)'
           /\ Answering(k) /\ (TimeOut \/ Replied) => Answering(k)'
<1>1. Start.place = 0 /\ HasRead(Start, "cmd", k)
  BY ParserFields, SizeFacts DEF HasRead, Of
<1>2. ASSUME Asking(k), TimeOut PROVE Asking(k)'
  <2>1. /\ fw.t >= FwTicks /\ fw'.pc = "parse" /\ fw'.in = Start /\ fw'.t = 0
        /\ UNCHANGED <<host, tx, rx>>
    BY <1>2, TimeOutStep DEF TimeOut
  <2>2. fw.in.place = 0
    <3>1. ~(fw.in.place > 0)
      BY <2>1, <1>2, Numbers DEF Asking
    <3> QED BY <3>1, Numbers
  <2>3. fw'.in.place = fw.in.place /\ HasRead(fw'.in, "cmd", k)
    BY <2>1, <2>2, <1>1
  <2> QED BY <2>1, <2>3, <1>2 DEF Asking
<1>3. ASSUME Answering(k), TimeOut \/ Replied PROVE Answering(k)'
  <2>1. /\ fw'.pc = "parse" /\ fw'.in = Start /\ fw'.out = fw.out
        /\ UNCHANGED <<host, tx, rx>>
    BY <1>3, TimeOutStep, RepliedStep DEF TimeOut, Replied
  <2>2. NSent(k)' = NSent(k)
    BY <2>1 DEF NSent
  <2> QED BY <2>1, <2>2, <1>1, <1>3 DEF Answering
<1> QED BY <1>2, <1>3

\* While a part of the command is still to come somebody can take a step, so no time passes.
LEMMA TickClean ==
    ASSUME TypeInv, NEW k \in Commands, Asking(k), up, Tick
    PROVE  fw.in.place = 0
<1> SUFFICES ASSUME fw.in.place # 0 PROVE FALSE
  OBVIOUS
<1>1. ~Busy /\ fw.pc = "parse" /\ tx = <<>>
  BY TickStep DEF Busy, Asking
<1>2. fw.in.place + Len(tx) + Len(host.out) = Size("cmd", k) /\ fw.in.place < Size("cmd", k)
  BY DEF Asking, HasRead
<1>3. Len(tx) = 0
  BY <1>1
<1>4. host.out # <<>>
  <2> SUFFICES ASSUME host.out = <<>> PROVE FALSE
    OBVIOUS
  <2>1. Len(host.out) = 0
    OBVIOUS
  <2>2. fw.in.place + 0 + 0 = Size("cmd", k)
    BY <2>1, <1>2, <1>3, Zenon
  <2> QED BY <2>2, <1>2, Numbers
<1>5. host.pc = "send" /\ Len(tx) < TxSize
  BY <1>3, <1>4, Numbers DEF TypeInv, Shape
<1> QED BY <1>1, <1>5 DEF Busy

\* The present command, before and after.
LEMMA Present ==
    ASSUME NEW k
    PROVE  /\ k = host.k /\ (Asking(host.k) \/ Answering(host.k)) => Asking(k) \/ Answering(k)
           /\ k = host'.k /\ (Asking(k)' \/ Answering(k)') => (Asking(host.k) \/ Answering(host.k))'
BY DEF Asking, Answering, NSent

LEMMA CleanInit == Init => CleanInv
BY DEF Init, CleanInv

\* A step of the call, while it is clean.
LEMMA CleanStep ==
    ASSUME TypeInv, TimeInv, Active, up, ~paused, clean', [Next]_vars,
           NEW k \in Commands, k = host.k, Asking(k) \/ Answering(k)
    PROVE  IF Active' THEN up' /\ ~paused' /\ (Asking(k)' \/ Answering(k)') /\ k = host'.k
                      ELSE result'.got = result'.k
<1>1. ~Begin
  BY DEF Begin, Active
<1>2. CASE Put
  <2>1. Asking(k) /\ Active' /\ host'.k = host.k /\ UNCHANGED <<up, paused>>
    BY <1>2, PutStep DEF Put, Answering, Active
  <2> QED BY <2>1, <1>2, PutClean
<1>3. CASE AllPut
  <2>1. /\ host'.out = host.out /\ host'.reply = host.reply /\ host'.k = host.k /\ Active'
        /\ UNCHANGED <<up, paused, tx, rx, fw>>
    BY <1>3, AllPutStep DEF AllPut, Active
  <2>2. Asking(k) => (fw.in.place > 0 => fw'.t = 0)
    BY <2>1 DEF Asking
  <2> QED BY <2>1, <2>2, StillClean
<1>4. ~GiveUp
  BY GiveUpClean
<1>5. CASE Receive
  BY <1>5, ReceiveClean, ReceiveStep DEF Receive
<1>6. CASE Parse
  <2>1. Asking(k) /\ UNCHANGED <<host, up, paused>>
    BY <1>6 DEF Parse, Answering
  <2>2. Active' /\ (Asking(k)' \/ Answering(k)')
    BY <2>1, <1>6, ParseClean DEF Active
  <2> QED BY <2>1, <2>2
<1>7. ~Console
  BY DEF Console, Asking, Answering
<1>8. CASE TimeOut \/ Replied
  <2>1. UNCHANGED <<host, up, paused>> /\ Active'
    BY <1>8 DEF TimeOut, Replied, Active
  <2>2. Asking(k) => TimeOut
    BY <1>8 DEF Replied, Asking
  <2> QED BY <2>1, <2>2, <1>8, StartClean
<1>9. CASE SendPiece
  <2>1. Answering(k) /\ UNCHANGED <<host, up, paused>> /\ Active'
    BY <1>9 DEF SendPiece, Asking, Active
  <2> QED BY <2>1, <1>9, SendPieceClean
<1>10. ~(RepeatData \/ Output) /\ ~LoseCommand /\ ~LoseReply /\ ~(Close \/ Reopen)
  BY NoiseStep, LoseCommandStep, LoseReplyStep, LineStep
<1>11. CASE Tick
  <2>1. /\ host'.pc = host.pc /\ host'.k = host.k /\ host'.out = host.out
        /\ host'.reply = host.reply /\ UNCHANGED <<up, paused, tx, rx>>
        /\ fw'.pc = fw.pc /\ fw'.in = fw.in /\ fw'.out = fw.out
    BY <1>11, TickStep
  <2>2. Asking(k) => ~(fw.in.place > 0)
    BY <1>11, TickClean
  <2>3. Active'
    BY <2>1 DEF Active
  <2> QED BY <2>1, <2>2, <2>3, StillClean
<1>12. CASE UNCHANGED vars
  <2>1. UNCHANGED <<host, up, paused, tx, rx, fw>> /\ Active'
    BY <1>12 DEF vars, Active
  <2>2. Asking(k) => (fw.in.place > 0 => fw'.t = 0)
    BY <2>1 DEF Asking
  <2> QED BY <2>1, <2>2, StillClean
<1> QED BY <1>1, <1>2, <1>3, <1>4, <1>5, <1>6, <1>7, <1>8, <1>9, <1>10, <1>11, <1>12
        DEF Next, HostStep, FwStep

\* Between two calls nothing happens to the result.
LEMMA IdleStep ==
    ASSUME TypeInv, ~Active, ~Begin, [Next]_vars
    PROVE  ~Active' /\ result' = result
<1>1. ~Put /\ ~AllPut /\ ~GiveUp /\ ~Receive
  BY DEF Put, AllPut, GiveUp, Receive, Active
<1>2. CASE Tick
  BY <1>2, TickStep DEF Active
<1>3. CASE Parse \/ Console \/ TimeOut \/ SendPiece \/ Replied \/ RepeatData \/ Output
           \/ LoseCommand \/ LoseReply \/ Close \/ Reopen \/ UNCHANGED vars
  <2>1. host' = host /\ result' = result
    BY <1>3 DEF Parse, Console, TimeOut, SendPiece, Replied, RepeatData, Output, LoseCommand,
                LoseReply, Close, Reopen, Unchanged, vars
  <2> QED BY <2>1 DEF Active
<1> QED BY <1>1, <1>2, <1>3 DEF Next, HostStep, FwStep

LEMMA CleanNext == TypeInv /\ TimeInv /\ OwnInv /\ CleanInv /\ [Next]_vars => CleanInv'
<1> SUFFICES ASSUME TypeInv, TimeInv, OwnInv, CleanInv, [Next]_vars PROVE CleanInv'
  OBVIOUS
<1>1. ASSUME clean'
      PROVE  (IF Active THEN up /\ ~paused /\ (Asking(host.k) \/ Answering(host.k))
                        ELSE result.got = result.k)'
  <2>1. CASE Begin
    BY <1>1, <2>1, BeginClean
  <2>2. ~Begin => clean
    BY <1>1 DEF Next, vars, HostStep, FwStep, Put, AllPut, GiveUp, Receive, Parse, Console,
                TimeOut, SendPiece, Replied, RepeatData, Output, LoseCommand, LoseReply, Close,
                Reopen, Tick, Troubled
  <2>3. CASE ~Begin /\ Active
    <3>1. PICK k \in Commands : k = host.k
      BY <2>3, OwnCommand
    <3>2. up /\ ~paused /\ (Asking(k) \/ Answering(k))
      BY <2>2, <2>3, <3>1, Present DEF CleanInv
    <3>3. IF Active' THEN up' /\ ~paused' /\ (Asking(k)' \/ Answering(k)') /\ k = host'.k
                     ELSE result'.got = result'.k
      BY <1>1, <2>3, <3>1, <3>2, CleanStep
    <3> QED BY <3>3, Present
  <2>4. CASE ~Begin /\ ~Active
    BY <2>2, <2>4, IdleStep DEF CleanInv
  <2> QED BY <2>1, <2>3, <2>4
<1> QED BY <1>1 DEF CleanInv
-----------------------------------------------------------------------------
(* The theorems.                                                           *)

LEMMA InvInit == Init => Inv
BY TypeInit, TimeInit, OwnInit, CleanInit DEF Inv

LEMMA InvNext == Inv /\ [Next]_vars => Inv'
BY TypeNext, TimeNext, OwnNext, CleanNext DEF Inv

\* The inductive invariant: types, time, the mark and the clean call (send_ks_cmd,
\* recv_ks_reply_core, msg_usb_service).
THEOREM Invariance == Spec => []Inv
BY InvInit, InvNext, PTL DEF Spec

\* The reply that recv_ks_reply_core takes answers the command that send_ks_cmd has sent,
\* whatever the line loses, repeats or adds, and whenever either side stops waiting, unless the
\* host has gone on while its command was queued for a closed device.
THEOREM RepliesOwn == Spec => []OwnReply
<1>1. Inv => OwnReply
  BY DEF Inv, OwnInv, OwnReply
<1> QED BY <1>1, Invariance, PTL

\* A call of send_ks_cmd that finds the line quiet, and meets no trouble, returns
\* the reply to its own command, however the call before it ended.
THEOREM Recovery == Spec => []Recovers
<1>1. Inv => Recovers
  BY DEF Inv, CleanInv, Recovers
<1> QED BY <1>1, Invariance, PTL

\* When the host gives up on a command during which the device stayed open, nothing is
\* left of it: its 500 ms are longer than the 200 ms of msg_usb_service.
THEOREM QuietGiveUp == Spec => [][GiveUp /\ ~paused => Quiet]_vars
<1>1. Inv /\ [Next]_vars => [GiveUp /\ ~paused => Quiet]_vars
  BY GivesUpQuietly DEF Inv
<1> QED BY <1>1, InvInit, InvNext, PTL DEF Spec

\* While the magic of a reply is on the way, or behind the reader, msg_usb_service
\* finds no magic of a command: there are never two replies to choose from.
OneReply == late \/ (Marked(rx) \/ host.reply.place >= 2 =>
                         ~Marked(tx) /\ ~Marked(host.out) /\ ~MagicUnsent)
THEOREM Alone == Spec => []OneReply
<1>1. Inv => OneReply
  <2> SUFFICES ASSUME Inv, ~late, Marked(rx) \/ host.reply.place >= 2
               PROVE  ~Marked(tx) /\ ~Marked(host.out) /\ ~MagicUnsent
    BY DEF OneReply
  <2>1. CmdSpent /\ RestOfReply(1, host.k) /\ TypeInv
    BY DEF Inv, OwnInv, MarkInv
  <2>2. ~Marked(tx) /\ ~Marked(host.out)
    BY <2>1, Queues, NotMark, AllUnmarked DEF CmdSpent
  <2> QED BY <2>1, <2>2, RestNoMagic
<1> QED BY <1>1, Invariance, PTL

\* A command is executed, or refused for its CRC.
Executes == fw.pc = "parse" /\ fw'.pc = "reply"
ExecutesPresent == Active /\ \E c \in {host.k, CrcError} : fw'.out = Pieces(c)

\* The last token of a command in the parser.
LEMMA ExecutesMark ==
    ASSUME TypeInv, MarkInv(host.k), [Next]_vars, Executes
    PROVE  ExecutesPresent /\ ~CmdSpent /\ CmdSpent'
<1>1. Parse
  BY TimeOutStep, TickStep
     DEF Executes, Next, HostStep, FwStep, vars, Begin, Put, AllPut, GiveUp, Receive, Console,
         SendPiece, Replied, RepeatData, Output, LoseCommand, LoseReply, Close, Reopen
<1>2. /\ fw.pc = "parse" /\ tx # <<>> /\ tx' = Tail(tx) /\ UNCHANGED host
      /\ ToConsole \/ ParsesOn \/ Drops \/ Answers
  BY <1>1, ParseStep DEF Parse
<1>3. Answers
  BY <1>2 DEF Executes, ToConsole, ParsesOn, Drops
<1>4. PICK t \in Token, k \in Nat : t = Head(tx) /\ k = host.k
  BY <1>1, ParseStep, HostFields DEF TypeInv, TypeOK
<1>5. fw.in \in Parser /\ fw.in.place \in Nat
  BY Queues, ParserFields
<1>6. PICK s \in Reads(fw.in, t), c \in Of("reply") :
        Complete(s) /\ Received(s, c) /\ fw'.pc = "reply" /\ fw'.out = Pieces(c)
  BY <1>3, <1>4 DEF Answers
<1>7. fw.in.place > 2
  BY <1>5, <1>6, ReadsFacts
<1>8. All(host.out, OfCmd(k)) /\ All(tx, OfCmd(k)) /\ All(fw.in.got, OfCmd(k))
  BY <1>2, <1>4, <1>5, <1>7 DEF MarkInv
<1>9. t \in OfCmd(k) /\ All(tx', OfCmd(k))
  BY <1>2, <1>4, <1>8, Queues, HeadKeeps
<1>10. All(s.got, OfCmd(k))
  BY <1>5, <1>7, <1>8, <1>9, ReadsGot
<1>11. c \in {k, CrcError}
  BY <1>6, <1>10, ReceivedOwn
<1>12. ~CmdSpent
  BY <1>2, <1>5, <1>7 DEF CmdSpent
<1>13. Active
  BY <1>12 DEF MarkInv
<1>14. CmdSpent'
  <2>1. All(host.out, NotMagic) /\ All(tx', NotMagic)
    <3>1. tx' \in Seq(Token) /\ host.out \in Seq(Token)
      BY <1>2, Queues, TailFacts
    <3> QED BY <3>1, <1>8, <1>9, NotMark, AllUnmarked
  <2> QED BY <2>1, <1>2, <1>6 DEF CmdSpent
<1> QED BY <1>4, <1>6, <1>11, <1>12, <1>13, <1>14 DEF ExecutesPresent

\* What the line and the parser do brings no new magic.
LEMMA SpentNext ==
    ASSUME TypeInv, CmdSpent, ~Begin, [Next]_vars
    PROVE  CmdSpent'
<1>0. /\ All(host.out, NotMagic) /\ All(tx, NotMagic)
      /\ fw.pc = "parse" => fw.in.place = 0
  BY DEF CmdSpent
<1>1. CASE Put
  <2>1. /\ host.out # <<>> /\ host'.out = Tail(host.out) /\ tx' = Append(tx, Head(host.out))
        /\ fw' = fw
    BY <1>1, PutStep DEF Put
  <2>2. Head(host.out) \in NotMagic /\ All(Tail(host.out), NotMagic) /\ Head(host.out) \in Token
    BY <2>1, <1>0, Queues, HeadKeeps, TailFacts
  <2>3. All(Append(tx, Head(host.out)), NotMagic)
    BY <2>2, <1>0, Queues, AppendKeeps
  <2> QED BY <2>1, <2>2, <2>3, <1>0 DEF CmdSpent
<1>2. CASE AllPut
  BY <1>0, <1>2, AllPutStep DEF AllPut, CmdSpent
<1>3. CASE GiveUp
  BY <1>0, <1>3, GiveUpStep, EmptyQueue DEF GiveUp, CmdSpent
<1>4. CASE Receive
  <2>1. (host'.out = host.out \/ host'.out = <<>>) /\ UNCHANGED <<tx, fw>>
    BY <1>4, ReceiveStep DEF Receive, Took, ReadOn
  <2> QED BY <2>1, <1>0, EmptyQueue DEF CmdSpent
<1>5. CASE Parse
  <2>1. /\ fw.pc = "parse" /\ tx # <<>> /\ Head(tx) \in Token /\ tx' = Tail(tx) /\ UNCHANGED host
        /\ ToConsole \/ ParsesOn \/ Drops \/ Answers
    BY <1>5, ParseStep DEF Parse
  <2>2. Head(tx) \in NotMagic /\ All(tx', NotMagic)
    BY <2>1, <1>0, Queues, HeadKeeps
  <2>3. fw.in \in Parser /\ fw.in.place < 2
    BY <2>1, <1>0, Queues
  <2>4. \A s \in Reads(fw.in, Head(tx)) : s.place = 0
    BY <2>2, <2>3, ReadsPlain
  <2>5. fw'.pc = "parse" => fw'.in.place = 0
    BY <2>1, <2>4, ParserFields DEF ToConsole, ParsesOn, Drops, Answers
  <2> QED BY <2>1, <2>2, <2>5, <1>0 DEF CmdSpent
<1>6. CASE Console
  <2>1. All(Tail(tx), NotMagic)
    BY <1>0, <1>6, Queues, HeadKeeps DEF Console
  <2> QED BY <2>1, <1>0, <1>6 DEF Console, CmdSpent
<1>7. CASE TimeOut \/ Replied
  BY <1>0, <1>7, TimeOutStep, RepliedStep, ParserFields DEF TimeOut, Replied, CmdSpent
<1>8. CASE SendPiece
  BY <1>0, <1>8, SendPieceStep DEF SendPiece, CmdSpent
<1>9. CASE LoseCommand
  <2>1. tx' \in Seq(Token) /\ Part(tx', tx) /\ UNCHANGED <<host, fw>>
    BY <1>9, LoseCommandStep
  <2>2. All(tx', NotMagic)
    BY <2>1, <1>0, Queues, PartKeeps
  <2> QED BY <2>1, <2>2, <1>0 DEF CmdSpent
<1>10. CASE Tick
  BY <1>0, <1>10, TickStep DEF CmdSpent
<1>11. CASE RepeatData \/ Output \/ LoseReply \/ Close \/ Reopen \/ UNCHANGED vars
  <2>1. UNCHANGED <<host, tx, fw>>
    BY <1>11 DEF RepeatData, Output, LoseReply, Close, Reopen, vars
  <2> QED BY <2>1, <1>0 DEF CmdSpent
<1> QED BY <1>1, <1>2, <1>3, <1>4, <1>5, <1>6, <1>7, <1>8, <1>9, <1>10, <1>11
        DEF Next, HostStep, FwStep

\* msg_usb_service executes a command only while send_ks_cmd is still waiting for it, and no
\* other; never one on which the host has given up, unless the device had been closed.
THEOREM ExecutesOwn == Spec => [][Executes => late \/ ExecutesPresent]_vars
<1>1. Inv /\ [Next]_vars => [Executes => late \/ ExecutesPresent]_vars
  BY ExecutesMark DEF Inv, OwnInv
<1> QED BY <1>1, InvInit, InvNext, PTL DEF Spec

\* It executes it once: a command that is executed is spent, and only the next call of
\* send_ks_cmd changes that.
THEOREM ExecutesOnce ==
    Spec => [][/\ Executes => late \/ (~CmdSpent /\ CmdSpent')
               /\ CmdSpent /\ ~Begin => CmdSpent']_vars
<1>1. Inv /\ [Next]_vars => [/\ Executes => late \/ (~CmdSpent /\ CmdSpent')
                             /\ CmdSpent /\ ~Begin => CmdSpent']_vars
  BY ExecutesMark, SpentNext DEF Inv, OwnInv
<1> QED BY <1>1, InvInit, InvNext, PTL DEF Spec
=============================================================================
