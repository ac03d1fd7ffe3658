-------------------------- MODULE MagicScan_proofs --------------------------
(***************************************************************************)
(* Every command that the scanner executes was sent to the end, and they   *)
(* are executed in the order in which they were sent, none of them twice:  *)
(* for every size of the ring, every magic and every commands, however     *)
(* often the DMA overtakes the scanner, and with commands cut off, looks   *)
(* at the magic address and log commands of the console in any number.     *)
(*                                                                         *)
(* The ring keeps old commands, so the types are not enough: the argument  *)
(* is about the part of the ring written since the capture was last        *)
(* started again (FreshInv). All that the scanner can come to lies in that *)
(* part, and the words in it are of commands later than those executed.    *)
(***************************************************************************)
EXTENDS MagicScan, WellFoundedInduction, TLAPS

\* A word that the ring may hold when n commands have begun and those of done
\* were sent to the end: noise, a word of the magic, or a word of a command;
\* the last word of a command only if all of it was sent.
IsCaptured(w, n, done) ==
    \/ w = Noise
    \/ \E i \in 0 .. MagicWords : w = Magic(i)
    \/ \E k \in 1 .. n : \E i \in 0 .. DataWords[k] + 3 :
          w = Word(k, i) /\ (i = DataWords[k] + 3 => k \in done)
WordsInv ==
    /\ buf = [i \in Places |-> buf[i]]
    /\ \A i \in Places : IsCaptured(buf[i], sent, whole)
    /\ magic_pos = MagicWords + 2 => len > 0

\* Word w is not of a command that was executed, nor of an earlier one.
IsLater(w, done) ==
    \A j \in DOMAIN done, k \in 1 .. Len(DataWords) : \A i \in 0 .. DataWords[k] + 3 :
        w = Word(k, i) => done[j].data < k
Fresh(h) == \A i \in Places : i < h => IsLater(buf[i], ran)

\* The ring is fresh up to h: up to the DMA, or all of it when the DMA has
\* gone round; the scanner does not come to a place beyond.
FreshTo(h) ==
    /\ Fresh(h)
    /\ prod <= h /\ rx <= h
    /\ rx > prod => h = Size
    /\ Running /\ magic_pos # Clobbering
            => seen <= h /\ (seen > prod \/ rx > seen => h = Size)
FreshInv == \E h \in 0 .. Size : FreshTo(h)

\* A command being collected: its length fits the ring; unless it is lapped,
\* the scanner is Gone words past the length, and the ring still holds the
\* command that was read (OpKept), or the DMA has put another in its place and
\* has not come to the scanner, so that what the scanner has before it is older
\* than that one, and has not its last word.
CmdPlace == (start + 1) % Size
Ahead(i) == IF rx <= CmdPlace THEN rx <= i /\ i <= CmdPlace ELSE i >= rx \/ i <= CmdPlace
Gone == CASE magic_pos = MagicWords + 1 -> 1
          [] magic_pos = MagicWords + 2 -> 2 + cmd_len - len
          [] magic_pos = MagicWords + 3 -> 2 + cmd_len
          [] OTHER -> 3 + cmd_len
Replaced ==
    /\ ~Ahead(prod)
    /\ \A i \in Places, k \in 1 .. Len(DataWords) :
          Ahead(i) /\ buf[CmdPlace] = Word(k, 1) => buf[i] # Word(k, DataWords[k] + 3)
OpKept == buf[CmdPlace] = cmd \/ Replaced
PlaceInv ==
    /\ Collecting => cmd_len + 4 <= Size /\ len <= cmd_len
    /\ magic_pos = MagicWords + 1 => len = cmd_len
    /\ Collecting /\ ~lapped => rx = (start + Gone) % Size
OpInv ==
    /\ PlaceInv
    /\ Collecting /\ ~lapped /\ magic_pos # MagicWords + 1 => OpKept

IInv == TypeOK /\ WordsInv /\ FreshInv /\ OpInv /\ ExecutesSent

USE MagicScanAssumption
-----------------------------------------------------------------------------
(* Words, and places of the ring.                                          *)

\* A word of a command is that of no other, no magic and no noise.
LEMMA WordsDiffer ==
    ASSUME NEW k, NEW i, NEW c, NEW j
    PROVE  /\ Word(k, i) = Word(c, j) => k = c /\ i = j
           /\ Word(k, i) # Magic(j) /\ Word(k, i) # Noise
           /\ Word(k, i)[2] = k
           /\ IsLength(Word(k, i)) => i = 0
           /\ ~IsLength(Magic(j)) /\ ~IsLength(Noise)
BY DEF Word, Magic, Noise, IsLength

\* The places of a ring of Size words.
LEMMA PlaceMod ==
    ASSUME NEW i \in Places
    PROVE  /\ NextPlace(i) \in Places
           /\ NextPlace(i) = IF i + 1 = Size THEN 0 ELSE i + 1
           /\ (i + 1) % Size = NextPlace(i)
           /\ (i - 1) % Size \in Places
<1>1. /\ Size \in Nat \ {0} /\ i \in Nat /\ i < Size
  BY MagicScanAssumption DEF Places
<1>2. (i + 1) % Size = IF i + 1 = Size THEN 0 ELSE i + 1
  <2>1. CASE i + 1 = Size
    <3>1. Size % Size = 0
      BY <1>1
    <3> QED BY <2>1, <3>1
  <2>2. CASE i + 1 # Size
    BY <1>1, <2>2
  <2> QED BY <2>1, <2>2
<1>3. (i - 1) % Size \in 0 .. Size - 1
  BY <1>1
<1> QED BY <1>1, <1>2, <1>3 DEF Places, NextPlace

\* A set of numbers that is not empty has a least one.
LEMMA LeastNumber ==
    ASSUME NEW S \in SUBSET Nat, S # {}
    PROVE  Min(S) \in S
<1>1. PICK n \in S : \A m \in S : <<m, n>> \notin OpToRel(<, Nat)
  BY NatLessThanWellFounded, WFMin
<1>2. ASSUME NEW m \in S
      PROVE  n <= m
  <2>1. n \in Nat /\ m \in Nat
    OBVIOUS
  <2>2. ~(m < n)
    BY <1>1, <2>1, Zenon DEF OpToRel
  <2> QED BY <2>1, <2>2
<1> QED BY <1>2 DEF Min

\* The length of a command and the words it is sent in.
LEMMA CommandLength ==
    ASSUME NEW k \in 1 .. Len(DataWords)
    PROVE  /\ DataWords[k] \in Nat
           /\ Words(k) = MagicWords + 4 + DataWords[k] /\ Words(k) \in Nat
<1>1. DataWords[k] \in Nat
  OBVIOUS
<1> QED BY SMTT(20), <1>1 DEF Words

\* Wherever fast_magic_search stops, it has not gone past the place up to
\* which it was to look, nor past the end of the ring.
LEMMA SearchStops ==
    ASSUME TypeOK, Running, rx # seen
    PROVE  /\ fast_magic_search.at \in Places
           /\ rx <= fast_magic_search.at
           /\ rx < seen => fast_magic_search.at < seen
<1> DEFINE limit == IF seen > rx THEN seen ELSE Size
           hits == {i \in rx .. limit - 2 : (i - rx) % 2 = 0 /\ EitherOfPair(i)}
           hit == Min(hits)
<1>1. /\ rx \in Nat /\ limit \in Nat /\ rx < limit /\ limit <= Size
      /\ rx < seen => limit = seen
  BY DEF TypeOK, Places
<1>2. hits # {} => hit \in Nat /\ rx <= hit /\ hit + 1 < limit
  <2>1. hits \in SUBSET Nat
    BY <1>1
  <2>2. hits # {} => hit \in hits
    BY <2>1, LeastNumber
  <2> QED BY <1>1, <2>2
<1>3. fast_magic_search.at \in {rx, limit - 1}
      \/ (hits # {} /\ fast_magic_search.at \in {hit, hit + 1})
  <2>1. CASE rx % 2 = 1
    <3>1. fast_magic_search = [at |-> rx, found |-> buf[rx] = Magic(0), silent |-> FALSE]
      BY <2>1 DEF fast_magic_search
    <3> HIDE DEF limit, hits, hit
    <3> QED BY <3>1
  <2>2. CASE rx % 2 # 1 /\ hits # {}
    <3>1. fast_magic_search = [at |-> IF FirstOfPair(hit) THEN hit ELSE hit + 1,
                               found |-> TRUE, silent |-> FALSE]
      BY <2>2 DEF fast_magic_search
    <3> HIDE DEF limit, hits, hit
    <3> QED BY <2>2, <3>1
  <2>3. CASE rx % 2 # 1 /\ hits = {}
    <3>1. fast_magic_search =
             IF (limit - rx) % 2 = 1
             THEN [at |-> limit - 1, found |-> buf[limit - 1] = Magic(0), silent |-> FALSE]
             ELSE [at |-> limit - 1, found |-> FALSE, silent |-> limit = Size]
      BY <2>3 DEF fast_magic_search
    <3>2. fast_magic_search.at = limit - 1
      BY <3>1
    <3> QED BY <3>2
  <2> QED BY <2>1, <2>2, <2>3
<1> HIDE DEF limit, hits, hit
<1>4. rx <= fast_magic_search.at /\ fast_magic_search.at < limit
      /\ fast_magic_search.at \in Nat
  BY <1>1, <1>2, <1>3
<1> QED BY <1>1, <1>4 DEF Places

-----------------------------------------------------------------------------
(* Type correctness.                                                       *)

\* The next word: the scanner goes one place on, and may stop.
LEMMA AdvanceType ==
    ASSUME TypeOK, Running, NEW i \in Places, NEW silent \in BOOLEAN, Advance(i, silent)
    PROVE  /\ rx' = NextPlace(i) /\ rx' \in Places
           /\ wrap' \in 0 .. Wide - 1 /\ gate' \in BOOLEAN
           /\ seen' \in {None, seen} /\ (Running' => gate')
           /\ UNCHANGED <<buf, prod, pending, last, at, sent, whole, waiting, clean,
                          cleared, ran, trouble>>
<1>1. rx' = NextPlace(i) /\ rx' \in Places
  BY PlaceMod DEF Advance
<1>2. UNCHANGED <<buf, prod, pending, last, at, sent, whole, waiting, clean,
                  cleared, ran, trouble>>
  BY DEF Advance, ring, amiga, history
<1>3. wrap \in Nat /\ wrap' \in 0 .. Wide - 1
  <2>1. (wrap + 1) % Wide \in 0 .. Wide - 1
    BY DEF TypeOK
  <2>2. wrap' \in {wrap, (wrap + 1) % Wide}
    BY DEF Advance
  <2> QED BY <2>1, <2>2 DEF TypeOK
<1>4. /\ gate' \in BOOLEAN /\ seen' \in {None, seen} /\ (Running' => gate')
  <2>1. gate \in BOOLEAN /\ gate
    BY DEF TypeOK
  <2>2. CASE i + 1 = Size /\ ~silent
    <3> DEFINE spins == (wrap' - last) % Wide > 1
    <3>1. gate' = (gate /\ ~spins) /\ seen' = IF spins THEN None ELSE seen
      BY <2>2 DEF Advance
    <3> HIDE DEF spins
    <3> QED BY <2>1, <3>1 DEF Running
  <2>3. CASE ~(i + 1 = Size /\ ~silent)
    BY <2>1, <2>3 DEF Advance
  <2> QED BY <2>2, <2>3
<1> QED BY <1>1, <1>2, <1>3, <1>4

\* A word is captured, in the place of the DMA.
LEMMA CaptureType ==
    ASSUME TypeOK, NEW w, NEW undisturbed \in BOOLEAN, Read(w, undisturbed)
    PROVE  /\ DOMAIN buf' = Places /\ prod' \in Places /\ pending' \in BOOLEAN
           /\ clean' \in BOOLEAN
           /\ prod' = NextPlace(prod) /\ buf' = [buf EXCEPT ![prod] = w]
           /\ lapped' = (Collecting /\ (lapped \/ prod' = rx)) /\ lapped' \in BOOLEAN
           /\ UNCHANGED <<rx, magic_pos, len, start, cmd_len, crc_hi, cmd, seen, wrap, last,
                          gate, cleared, ran>>
BY PlaceMod DEF Read, Capture, TypeOK, words, throttle, Collecting

LEMMA IsrType == TypeOK /\ WordsInv /\ Isr => TypeOK'
<1> SUFFICES ASSUME TypeOK, WordsInv, Isr PROVE TypeOK'
  OBVIOUS
<1>1. /\ MagicWords + 5 = Clobbering /\ Clobbering \in Nat /\ MagicWords > 1
      /\ magic_pos \in 0 .. Clobbering /\ rx \in Places
      /\ len \in Nat /\ cmd_len \in Nat /\ start \in Places /\ prod \in Places
      /\ lapped \in BOOLEAN
  BY DEF Clobbering, TypeOK
<1>2. CASE Enter \/ CaughtUp
  <2>1. seen' \in -1 .. Size - 1 /\ pending' \in BOOLEAN /\ gate
    <3>1. CASE Enter
      <4>1. seen' = prod /\ pending' = FALSE /\ gate
        BY <3>1 DEF Enter
      <4>2. prod \in -1 .. Size - 1
        BY <1>1 DEF Places
      <4> QED BY <4>1, <4>2
    <3>2. CASE CaughtUp
      <4>1. seen' \in {None, prod} /\ pending' = pending /\ rx = seen
        BY <3>2 DEF CaughtUp, LooksAgain
      <4>2. gate
        BY <1>1, <4>1 DEF TypeOK, Running, Places, None
      <4> QED BY <1>1, <4>1, <4>2 DEF TypeOK, Places, None
    <3> QED BY <1>2, <3>1, <3>2
  <2>2. UNCHANGED <<buf, prod, rx, magic_pos, collected, throttle, amiga, clean, history>>
    BY <1>2 DEF Enter, CaughtUp
  <2> QED BY <2>1, <2>2 DEF TypeOK, collected, words, throttle, amiga, history
<1>3. ASSUME NEW i \in Places, NEW silent \in BOOLEAN, Running, Advance(i, silent),
             magic_pos' \in 0 .. Clobbering, start' \in Places,
             len' \in Nat, cmd_len' \in Nat, lapped' \in BOOLEAN
      PROVE  TypeOK'
  <2>1. /\ rx' \in Places /\ wrap' \in 0 .. Wide - 1 /\ gate' \in BOOLEAN
        /\ seen' \in {None, seen} /\ (Running' => gate')
        /\ UNCHANGED <<buf, prod, pending, last, at, sent, whole, waiting, clean,
                       cleared, ran, trouble>>
    BY <1>3, AdvanceType
  <2>2. seen' \in -1 .. Size - 1
    BY <2>1 DEF TypeOK, None
  <2> QED BY <1>3, <2>1, <2>2 DEF TypeOK
<1>4. CASE Search
  <2>1. fast_magic_search.at \in Places /\ Running
    BY <1>4, SearchStops DEF Search, Phase
  <2>2. PICK silent \in BOOLEAN : Advance(fast_magic_search.at, silent)
    BY <1>4 DEF Search, Advance
  <2>3. magic_pos' \in 0 .. Clobbering
    BY <1>1, <1>4 DEF Search
  <2> QED BY <1>1, <1>3, <1>4, <2>1, <2>2, <2>3 DEF Search, collected, words
<1>5. CASE MatchMagic
  <2>1. PICK p \in 1 .. MagicWords - 1 :
               /\ Phase(p) /\ magic_pos' = IF buf[rx] = Magic(p) THEN p + 1 ELSE 0
               /\ Advance(rx, FALSE) /\ UNCHANGED collected
    BY <1>5 DEF MatchMagic
  <2>2. magic_pos' \in 0 .. Clobbering
    BY <1>1, <2>1
  <2> QED BY <1>1, <1>3, <2>1, <2>2 DEF collected, words, Phase
<1>6. CASE LengthPhase
  <2>0. magic_pos' \in 0 .. Clobbering
    <3>1. magic_pos' \in {MagicWords + 1, 0}
      BY <1>6 DEF LengthPhase
    <3> QED BY <1>1, <3>1
  <2>1. Running /\ Advance(rx, FALSE) /\ start' = rx /\ lapped' = lapped
    BY <1>6 DEF LengthPhase, Phase
  <2>2. len' \in Nat /\ cmd_len' \in Nat
    <3>1. CASE UNCHANGED <<cmd_len, len>>
      BY <1>1, <3>1
    <3>2. CASE \E n \in IF IsLength(buf[rx]) THEN {DataWords[buf[rx][2]]} ELSE Lengths :
                  cmd_len' = n /\ len' = n
      <4>1. IsLength(buf[rx]) => DataWords[buf[rx][2]] \in Nat
        <5>1. IsCaptured(buf[rx], sent, whole)
          BY <1>1 DEF WordsInv
        <5>2. IsLength(buf[rx]) => \E k \in 1 .. sent : buf[rx][2] = k
          <6>1. CASE buf[rx] = Noise \/ \E i \in 0 .. MagicWords : buf[rx] = Magic(i)
            BY <6>1, WordsDiffer
          <6>2. CASE \E k \in 1 .. sent : \E i \in 0 .. DataWords[k] + 3 : buf[rx] = Word(k, i)
            BY <6>2, WordsDiffer
          <6> QED BY <5>1, <6>1, <6>2 DEF IsCaptured
        <5> QED BY <5>2 DEF TypeOK
      <4> QED BY <3>2, <4>1
    <3> QED BY <1>6, <3>1, <3>2 DEF LengthPhase
  <2> QED BY <1>1, <1>3, <2>0, <2>1, <2>2
<1>7. CASE CommandPhase
  <2>1. magic_pos' \in 0 .. Clobbering
    BY <1>1, <1>7 DEF CommandPhase
  <2>2. Running /\ Advance(rx, FALSE) /\ UNCHANGED <<len, start, cmd_len, lapped>>
    BY <1>7 DEF CommandPhase, Phase
  <2> QED BY <1>1, <1>3, <2>1, <2>2 DEF collected, words
<1>8. CASE DataPhase
  <2>1. magic_pos' \in 0 .. Clobbering
    BY <1>1, <1>8 DEF DataPhase
  <2>2. Running /\ Advance(rx, FALSE) /\ UNCHANGED <<start, cmd_len, lapped>>
    BY <1>8 DEF DataPhase, Phase
  <2>3. len' \in Nat
    BY SMTT(20), <1>1, <1>8 DEF DataPhase, Phase, WordsInv
  <2> QED BY <1>1, <1>3, <2>1, <2>2, <2>3
<1>9. CASE CrcPhase
  <2>1. magic_pos' \in 0 .. Clobbering
    BY <1>1, <1>9 DEF CrcPhase
  <2>2. Running /\ Advance(rx, FALSE) /\ UNCHANGED <<len, start, cmd_len, lapped>>
    BY <1>9 DEF CrcPhase, Phase
  <2> QED BY <1>1, <1>3, <2>1, <2>2
<1>10. CASE Execute
  <2> DEFINE K == {c \in 1 .. sent : Intact(c)}
  <2>1. ran' \in Seq([data : Nat, own : BOOLEAN, lapped : BOOLEAN])
    <3> DEFINE entry == [data |-> Max(K), own |-> cmd = Word(Max(K), 1), lapped |-> lapped]
    <3>1. ran' = IF K = {} THEN ran ELSE Append(ran, entry)
      BY <1>10, Zenon DEF Execute
    <3>2. ASSUME NEW c \in K, NEW d \in K
          PROVE  c = d
      BY <3>2, WordsDiffer DEF Intact, Matches
    <3>3. K # {} => Max(K) \in K
      <4> SUFFICES ASSUME K # {} PROVE Max(K) \in K
        OBVIOUS
      <4>1. PICK c \in K : TRUE
        OBVIOUS
      <4>2. c \in Nat /\ \A d \in K : c >= d
        BY <3>2
      <4> HIDE DEF K
      <4> QED BY <4>1, <4>2 DEF Max
    <3>4. K \subseteq Nat
      OBVIOUS
    <3> HIDE DEF K
    <3>5. K # {} => Max(K) \in Nat
      BY <3>3, <3>4
    <3>6. ran \in Seq([data : Nat, own : BOOLEAN, lapped : BOOLEAN])
      BY DEF TypeOK
    <3>7. (cmd = Word(Max(K), 1)) \in BOOLEAN
      OBVIOUS
    <3>8. K # {} => entry \in [data : Nat, own : BOOLEAN, lapped : BOOLEAN]
      BY <1>1, <3>5, <3>7, Zenon
    <3> HIDE DEF entry, K
    <3>9. CASE K = {}
      BY <3>1, <3>6, <3>9
    <3>10. CASE K # {}
      <4> DEFINE R == [data : Nat, own : BOOLEAN, lapped : BOOLEAN]
      <4>1. PICK e \in R : e = entry
        BY <3>8, <3>10
      <4>2. ran' = Append(ran, e)
        BY <3>1, <3>10, <4>1, Zenon
      <4>3. ran \in Seq(R)
        BY <3>6
      <4> HIDE DEF R
      <4>4. Append(ran, e) \in Seq(R)
        BY <4>3
      <4> QED BY <4>2, <4>4, Zenon DEF R
    <3> QED BY <3>9, <3>10
  <2>2. 0 \in Places /\ 0 \in 0 .. Wide - 1
    BY DEF Places
  <2>3. /\ rx' = 0 /\ prod' = 0 /\ wrap' = 0 /\ gate' = TRUE
        /\ waiting' = FALSE /\ clean' = (clean /\ at = Idle)
        /\ UNCHANGED <<last, pending, buf, at, sent, whole, cleared, trouble,
                       len, start, cmd_len, crc_hi, seen>>
        /\ magic_pos' = Clobbering /\ lapped' = FALSE
    BY <1>10 DEF Execute, Replies, collected, words
  <2>4. clean' \in BOOLEAN
    BY <2>3
  <2>5. magic_pos' \in 0 .. Clobbering
    BY <1>1, <2>3
  <2>6. waiting' \in BOOLEAN /\ gate' \in BOOLEAN
    BY <2>3
  <2> QED BY <2>1, <2>2, <2>3, <2>4, <2>5, <2>6 DEF TypeOK
<1>11. CASE Clobber
  <2>1. start' = (start - 1) % Size /\ start' \in Places
    BY <1>1, <1>11, PlaceMod DEF Clobber
  <2>2. DOMAIN buf' = Places /\ clean' \in BOOLEAN
    BY <1>11 DEF Clobber, TypeOK
  <2>3. seen' \in -1 .. Size - 1 /\ gate
    BY <1>1, <1>11 DEF Clobber, Places, TypeOK
  <2> QED BY <1>1, <1>11, <2>1, <2>2, <2>3 DEF Clobber, TypeOK, throttle, amiga, history
<1> QED BY <1>2, <1>4, <1>5, <1>6, <1>7, <1>8, <1>9, <1>10, <1>11 DEF Isr

LEMMA AmigaType == TypeOK /\ Amiga => TypeOK'
<1> SUFFICES ASSUME TypeOK, Amiga PROVE TypeOK'
  OBVIOUS
<1>1. /\ sent \in 0 .. Len(DataWords) /\ Len(DataWords) \in Nat /\ whole \subseteq 1 .. sent
      /\ clean \in BOOLEAN /\ trouble \in Nat
  BY DEF TypeOK
<1>2. CASE ReadRom \/ ReadMagic
  <2>1. PICK w : Read(w, clean)
    BY <1>2 DEF ReadRom, ReadMagic
  <2>2. trouble' \in Nat /\ UNCHANGED amiga
    BY <1>1, <1>2 DEF ReadRom, ReadMagic, Troubled
  <2> QED BY <1>1, <2>1, <2>2, CaptureType DEF TypeOK, amiga, Running
<1>3. CASE Begin
  <2> DEFINE unseen == magic_pos = 0 /\ \A i \in Unread : buf[i] = Noise
  <2>0. unseen \in BOOLEAN
    OBVIOUS
  <2>1. Read(WordAt(sent + 1, 0), unseen)
    BY <1>3 DEF Begin
  <2> HIDE DEF unseen
  <2>2. /\ sent' = sent + 1 /\ at' = 1 /\ whole' = whole /\ waiting' = waiting
        /\ trouble' = trouble /\ sent < Len(DataWords)
    BY <1>3 DEF Begin
  <2>3. /\ sent' \in 0 .. Len(DataWords) /\ whole' \subseteq 1 .. sent' /\ sent' \notin whole'
    BY <1>1, <2>2
  <2>4. at' \in 1 .. Words(sent') - 1
    <3>1. sent' \in 1 .. Len(DataWords)
      BY <1>1, <2>2
    <3>2. Words(sent') \in Nat /\ Words(sent') > 4
      BY <3>1, CommandLength
    <3> QED BY <2>2, <3>2
  <2>5. /\ DOMAIN buf' = Places /\ prod' \in Places /\ pending' \in BOOLEAN
        /\ clean' \in BOOLEAN /\ lapped' \in BOOLEAN
        /\ UNCHANGED <<rx, magic_pos, len, start, cmd_len, seen, wrap, last,
                       gate, cleared, ran>>
    BY <2>0, <2>1, CaptureType
  <2>6. waiting \in BOOLEAN /\ sent' > 0
    BY <1>1, <2>2 DEF TypeOK
  <2> QED BY <2>2, <2>3, <2>4, <2>5, <2>6 DEF TypeOK, Running
<1>4. CASE Send
  <2>1. PICK w : Read(w, clean)
    BY <1>4 DEF Send
  <2> DEFINE ends == at + 1 = Words(sent)
  <2>2. /\ at' = IF ends THEN Idle ELSE at + 1
        /\ whole' = IF ends THEN whole \cup {sent} ELSE whole
        /\ waiting' = ends
        /\ UNCHANGED <<sent, trouble>> /\ at # Idle
    BY <1>4 DEF Send
  <2>3. at \in 1 .. Words(sent) - 1 /\ sent \notin whole
    BY <2>2 DEF TypeOK
  <2>4. sent \in 1 .. Len(DataWords)
    BY <1>1, <2>2 DEF TypeOK
  <2>5. Words(sent) \in Nat
    BY <2>4, CommandLength
  <2>6. at' # Idle => sent' > 0 /\ at' \in 1 .. Words(sent') - 1 /\ sent' \notin whole'
    BY <2>2, <2>3, <2>4, <2>5
  <2>7. whole' \subseteq 1 .. sent'
    BY <1>1, <2>2, <2>4
  <2> QED BY <1>1, <2>1, <2>2, <2>6, <2>7, CaptureType DEF TypeOK, Running
<1>5. CASE Cut \/ GiveUp
  <2>1. /\ UNCHANGED <<ring, scanner, throttle, sent, whole, clean, cleared, ran>>
        /\ at' \in {at, Idle} /\ waiting' \in {waiting, FALSE}
        /\ trouble' \in {trouble, trouble + 1}
    BY <1>5 DEF Cut, GiveUp, Troubled, history
  <2>2. trouble' \in Nat
    BY <1>1, <2>1
  <2> QED BY <2>1, <2>2 DEF TypeOK, ring, scanner, collected, words, throttle, Running
<1> QED BY <1>2, <1>3, <1>4, <1>5 DEF Amiga

LEMMA MainType == TypeOK /\ (Poll \/ LogStats \/ LogFull) => TypeOK'
<1> SUFFICES ASSUME TypeOK, Poll \/ LogStats \/ LogFull PROVE TypeOK'
  OBVIOUS
<1>1. trouble \in Nat /\ 0 \in Places /\ 0 \in 0 .. Wide - 1
  BY DEF TypeOK, Places
<1>2. CASE Poll
  BY <1>2 DEF Poll, TypeOK, ring, scanner, collected, words, amiga, history, Running
<1>3. CASE LogStats
  <2>1. trouble' \in Nat
    BY <1>1, <1>3 DEF LogStats, Troubled
  <2>2. cleared' \in BOOLEAN /\ clean' \in BOOLEAN
    BY <1>3 DEF LogStats, TypeOK
  <2> QED BY <1>1, <1>3, <2>1, <2>2 DEF LogStats, TypeOK, ring, scanner, collected, words, amiga, Running
<1>4. CASE LogFull
  <2>1. trouble' \in Nat /\ lapped' \in BOOLEAN
    BY <1>1, <1>4 DEF LogFull, Troubled, Collecting
  <2> QED BY <1>1, <1>4, <2>1 DEF LogFull, TypeOK, collected, words, amiga, Running
<1> QED BY <1>2, <1>3, <1>4

-----------------------------------------------------------------------------
(* The words of the ring.                                                  *)

\* What may be in the ring may stay there.
LEMMA CapturedKept ==
    ASSUME NEW w, NEW n \in Nat, NEW m \in Nat, n <= m, NEW done, NEW more, done \subseteq more,
           IsCaptured(w, n, done)
    PROVE  IsCaptured(w, m, more)
<1>1. CASE \E k \in 1 .. n : \E i \in 0 .. DataWords[k] + 3 :
              w = Word(k, i) /\ (i = DataWords[k] + 3 => k \in done)
  <2>1. PICK k \in 1 .. n : \E i \in 0 .. DataWords[k] + 3 :
              w = Word(k, i) /\ (i = DataWords[k] + 3 => k \in done)
    BY <1>1
  <2>2. k \in 1 .. m
    OBVIOUS
  <2> QED BY <2>1, <2>2 DEF IsCaptured
<1>2. CASE w = Noise \/ \E i \in 0 .. MagicWords : w = Magic(i)
  BY <1>2 DEF IsCaptured
<1> QED BY <1>1, <1>2 DEF IsCaptured

\* What the Amiga sends next is a word of its last command, and the last one
\* only with the step that has sent all of it.
LEMMA SentWord ==
    ASSUME TypeOK, Send
    PROVE  /\ IsCaptured(WordAt(sent, at), sent', whole')
           /\ sent > 0 /\ sent \notin whole
<1>1. /\ at # Idle /\ sent' = sent
      /\ whole' = IF at + 1 = Words(sent) THEN whole \cup {sent} ELSE whole
  BY DEF Send
<1>2. sent \in 1 .. Len(DataWords) /\ at \in 1 .. Words(sent) - 1 /\ sent \notin whole
  BY <1>1 DEF TypeOK
<1>3. /\ DataWords[sent] \in Nat /\ Words(sent) = MagicWords + 4 + DataWords[sent]
      /\ sent \in 1 .. sent
  BY <1>2, CommandLength
<1>4. CASE at < MagicWords
  <2>1. WordAt(sent, at) = Magic(at)
    BY <1>4 DEF WordAt
  <2>2. at \in 0 .. MagicWords
    BY <1>2, <1>3, <1>4
  <2>3. IsCaptured(Magic(at), sent', whole')
    BY <2>2 DEF IsCaptured
  <2> QED BY <1>2, <2>1, <2>3
<1>5. CASE ~(at < MagicWords)
  <2> DEFINE i == at - MagicWords
  <2>1. WordAt(sent, at) = Word(sent, i)
    BY <1>5 DEF WordAt
  <2>2. /\ i \in 0 .. DataWords[sent] + 3
        /\ i = DataWords[sent] + 3 => at + 1 = Words(sent)
    <3>1. /\ at \in Nat /\ MagicWords \in Nat /\ DataWords[sent] \in Nat
          /\ at < MagicWords + 4 + DataWords[sent]
      BY <1>2, <1>3
    <3>2. i \in Nat /\ i + MagicWords = at
      BY <1>5, <3>1
    <3> HIDE DEF i
    <3> QED BY SMTT(20), <1>3, <3>1, <3>2
  <2>3. i = DataWords[sent] + 3 => sent \in whole'
    BY <1>1, <2>2
  <2> HIDE DEF i
  <2>4. IsCaptured(Word(sent, i), sent', whole')
    BY <1>1, <1>3, <2>2, <2>3 DEF IsCaptured
  <2> QED BY <1>2, <2>1, <2>4
<1> QED BY <1>4, <1>5

\* A captured word is put in its place, and no other changes.
LEMMA WordsCapture ==
    ASSUME TypeOK, WordsInv, NEW w, NEW undisturbed \in BOOLEAN, Read(w, undisturbed),
           sent' \in Nat, sent <= sent', whole \subseteq whole', IsCaptured(w, sent', whole')
    PROVE  WordsInv'
<1>1. /\ prod \in Places /\ buf' = [buf EXCEPT ![prod] = w]
      /\ magic_pos' = magic_pos /\ len' = len /\ sent \in Nat
  BY CaptureType DEF TypeOK
<1>2. buf' = [i \in Places |-> IF i = prod THEN w ELSE buf[i]]
  BY <1>1 DEF WordsInv
<1>3. ASSUME NEW i \in Places
      PROVE  IsCaptured(buf'[i], sent', whole')
  <2>1. CASE i = prod
    BY <1>2, <2>1
  <2>2. CASE i # prod
    <3>1. buf'[i] = buf[i] /\ IsCaptured(buf[i], sent, whole)
      BY <1>2, <2>2 DEF WordsInv
    <3> QED BY <1>1, <3>1, CapturedKept
  <2> QED BY <2>1, <2>2
<1>4. buf' = [i \in Places |-> buf'[i]]
  BY <1>2
<1> QED BY <1>1, <1>3, <1>4 DEF WordsInv

LEMMA WordsNext == TypeOK /\ WordsInv /\ [Next]_vars => WordsInv'
<1> SUFFICES ASSUME TypeOK, WordsInv, [Next]_vars PROVE WordsInv'
  OBVIOUS
<1>1. sent \in Nat /\ MagicWords \in Nat /\ len \in Nat /\ magic_pos \in Nat
  BY DEF TypeOK
<1>2. ASSUME UNCHANGED <<buf, sent, whole>>, magic_pos' = MagicWords + 2 => len' > 0
      PROVE  WordsInv'
  BY <1>2 DEF WordsInv
<1>3. CASE UNCHANGED vars \/ Enter \/ CaughtUp \/ Cut \/ GiveUp \/ Poll \/ LogStats \/ LogFull
  <2>1. UNCHANGED <<buf, sent, whole, magic_pos, len>>
    BY <1>3 DEF vars, ring, scanner, collected, words, amiga, Enter, CaughtUp, Cut, GiveUp, Poll,
           LogStats, LogFull
  <2> QED BY <1>2, <2>1 DEF WordsInv
<1>4. CASE Search \/ MatchMagic \/ LengthPhase \/ CommandPhase \/ DataPhase \/ CrcPhase
  <2>1. UNCHANGED <<buf, sent, whole>>
    BY <1>4 DEF Search, MatchMagic, LengthPhase, CommandPhase, DataPhase, CrcPhase, Advance,
           ring, amiga
  <2>2. magic_pos' = MagicWords + 2 => len' > 0
    <3>1. CASE Search
      BY <3>1 DEF Search
    <3>2. CASE MatchMagic
      BY <3>2 DEF MatchMagic
    <3>3. CASE LengthPhase
      <4>1. magic_pos' \in {MagicWords + 1, 0}
        BY <3>3 DEF LengthPhase
      <4> QED BY <4>1
    <3>4. CASE CommandPhase
      <4>1. magic_pos' = MagicWords + (IF len = 0 THEN 3 ELSE 2) /\ len' = len
        BY <3>4 DEF CommandPhase, collected, words
      <4> QED BY <1>1, <4>1
    <3>5. CASE DataPhase
      <4>1. magic_pos' = MagicWords + (IF len' = 0 THEN 3 ELSE 2) /\ len' = len - 1 /\ len > 0
        BY <3>5 DEF DataPhase, Phase, WordsInv
      <4> QED BY <1>1, <4>1
    <3>6. CASE CrcPhase
      BY <3>6 DEF CrcPhase
    <3> QED BY <1>4, <3>1, <3>2, <3>3, <3>4, <3>5, <3>6
  <2> QED BY <1>2, <2>1, <2>2
<1>5. CASE Execute
  <2>1. UNCHANGED <<buf, sent, whole>> /\ magic_pos' = MagicWords + 5
    BY <1>5 DEF Execute, Replies, Clobbering
  <2>2. magic_pos' # MagicWords + 2
    BY <2>1
  <2> QED BY <1>2, <2>1, <2>2
<1>6. CASE Clobber
  <2> DEFINE c == (start - 1) % Size
  <2>1. buf' = [buf EXCEPT ![c] = Noise] /\ UNCHANGED <<sent, whole>> /\ magic_pos' = 0
    BY <1>6 DEF Clobber, amiga
  <2> HIDE DEF c
  <2>2. buf' = [i \in Places |-> IF i = c THEN Noise ELSE buf[i]]
    BY <2>1 DEF WordsInv
  <2>3. ASSUME NEW i \in Places
        PROVE  IsCaptured(buf'[i], sent', whole')
    <3>1. IsCaptured(buf[i], sent, whole) /\ IsCaptured(Noise, sent, whole)
      BY DEF WordsInv, IsCaptured
    <3>2. buf'[i] = IF i = c THEN Noise ELSE buf[i]
      BY <2>2
    <3> QED BY <2>1, <3>1, <3>2
  <2>4. buf' = [i \in Places |-> buf'[i]]
    BY <2>2
  <2> QED BY <2>1, <2>3, <2>4 DEF WordsInv
<1>7. CASE ReadRom \/ ReadMagic
  <2>1. PICK w \in {Noise, Magic(0)} : Read(w, clean)
    BY <1>7 DEF ReadRom, ReadMagic
  <2>2. IsCaptured(w, sent', whole') /\ UNCHANGED <<sent, whole>>
    BY <1>7 DEF ReadRom, ReadMagic, amiga, IsCaptured
  <2> QED BY <1>1, <2>1, <2>2, WordsCapture DEF TypeOK
<1>8. CASE Begin
  <2> DEFINE unseen == magic_pos = 0 /\ \A i \in Unread : buf[i] = Noise
  <2>1. Read(WordAt(sent + 1, 0), unseen) /\ sent' = sent + 1 /\ whole' = whole
    BY <1>8 DEF Begin
  <2>2. unseen \in BOOLEAN
    OBVIOUS
  <2> HIDE DEF unseen
  <2>3. WordAt(sent + 1, 0) = Magic(0)
    BY DEF WordAt
  <2>4. IsCaptured(Magic(0), sent', whole')
    BY DEF IsCaptured
  <2>5. sent' \in Nat /\ sent <= sent'
    BY <1>1, <2>1
  <2> QED BY <2>1, <2>2, <2>3, <2>4, <2>5, WordsCapture
<1>9. CASE Send
  <2>1. Read(WordAt(sent, at), clean) /\ sent' = sent /\ whole \subseteq whole'
    BY <1>9 DEF Send
  <2>2. IsCaptured(WordAt(sent, at), sent', whole')
    BY <1>9, SentWord
  <2> QED BY <1>1, <2>1, <2>2, WordsCapture DEF TypeOK
<1> QED BY <1>3, <1>4, <1>5, <1>6, <1>7, <1>8, <1>9 DEF Next, Isr, Amiga

-----------------------------------------------------------------------------
(* What the scanner can come to.                                           *)

\* The place of the DMA goes one on, and the word there is a later one.
LEMMA FreshCapture ==
    ASSUME TypeOK, WordsInv, FreshInv, NEW w, NEW undisturbed \in BOOLEAN,
           Read(w, undisturbed), IsLater(w, ran)
    PROVE  FreshInv'
<1>1. PICK h \in 0 .. Size : FreshTo(h)
  BY DEF FreshInv
<1>2. /\ prod \in Places /\ buf' = [buf EXCEPT ![prod] = w] /\ prod' = NextPlace(prod)
      /\ UNCHANGED <<rx, magic_pos, seen, ran>>
      /\ rx \in Places /\ seen \in -1 .. Size - 1
  BY CaptureType DEF TypeOK
<1>3. prod' = (IF prod + 1 = Size THEN 0 ELSE prod + 1)
  BY <1>2, PlaceMod
<1> DEFINE g == IF prod + 1 > h THEN prod + 1 ELSE h
<1>4. g \in 0 .. Size /\ g >= h /\ (g = h \/ g = prod + 1)
  BY <1>1, <1>2 DEF Places
<1>5. ASSUME NEW i \in Places, i < g
      PROVE  IsLater(buf'[i], ran')
  <2>1. CASE i = prod
    BY <1>2, <2>1 DEF WordsInv
  <2>2. CASE i # prod
    <3>1. buf'[i] = buf[i]
      BY <1>2, <2>2 DEF WordsInv
    <3>2. i < h
      BY <1>1, <1>2, <1>4, <1>5, <2>2 DEF FreshTo, Places
    <3> QED BY <1>1, <1>2, <3>1, <3>2 DEF FreshTo, Fresh
  <2> QED BY <2>1, <2>2
<1> HIDE DEF g
<1>6. CASE prod + 1 = Size
  <2>1. g = Size
    BY <1>1, <1>2, <1>6 DEF Places, g
  <2> QED BY <1>1, <1>2, <1>3, <1>4, <1>5, <1>6, <2>1
          DEF FreshInv, FreshTo, Fresh, Running, Places
<1>7. CASE prod + 1 # Size
  <2>1. g >= prod + 1
    BY <1>2, <1>1 DEF g, Places
  <2>2. /\ prod' <= g /\ rx' <= g
        /\ rx' > prod' => g = Size
        /\ Running' /\ magic_pos' # Clobbering
                => seen' <= g /\ (seen' > prod' \/ rx' > seen' => g = Size)
    BY <1>1, <1>2, <1>3, <1>4, <1>7, <2>1 DEF FreshTo, Running, Places
  <2> QED BY <1>4, <1>5, <2>2 DEF FreshInv, FreshTo, Fresh
<1> QED BY <1>6, <1>7

\* The scanner goes on, but not past the place up to which it was to look.
LEMMA FreshAdvance ==
    ASSUME TypeOK, FreshInv, Running, rx # seen, magic_pos # Clobbering,
           NEW i \in Places, NEW silent \in BOOLEAN, Advance(i, silent),
           rx <= i, rx < seen => i < seen
    PROVE  FreshInv'
<1>1. PICK h \in 0 .. Size : FreshTo(h)
  BY DEF FreshInv
<1>2. /\ rx' = NextPlace(i) /\ seen' \in {None, seen} /\ UNCHANGED <<buf, prod, ran>>
  BY AdvanceType
<1>3. rx' = (IF i + 1 = Size THEN 0 ELSE i + 1)
  BY <1>2, PlaceMod
<1>4. /\ rx \in Places /\ seen \in -1 .. Size - 1 /\ prod \in Places
  BY DEF TypeOK
<1>5. Fresh(h)'
  BY <1>1, <1>2 DEF FreshTo, Fresh
<1>6. CASE rx < seen
  <2>1. seen <= h /\ (seen > prod => h = Size) /\ i + 1 <= seen
    BY <1>1, <1>4, <1>6 DEF FreshTo, Places
  <2>2. rx' = i + 1
    BY <1>3, <1>4, <2>1 DEF Places
  <2>3. /\ prod' <= h /\ rx' <= h
        /\ rx' > prod' => h = Size
        /\ seen' # None => seen' <= h /\ (seen' > prod' \/ rx' > seen' => h = Size)
    BY <1>1, <1>2, <1>4, <2>1, <2>2 DEF FreshTo, Places
  <2> QED BY <1>1, <1>5, <2>3 DEF FreshInv, FreshTo, Running
<1>7. CASE rx > seen
  <2>1. h = Size
    BY <1>1, <1>7 DEF FreshTo
  <2>2. prod' <= h /\ rx' <= h /\ (seen' # None => seen' <= h)
    BY <1>1, <1>2, <1>3, <1>4, <2>1 DEF FreshTo, Places
  <2> QED BY <1>1, <1>5, <2>1, <2>2 DEF FreshInv, FreshTo, Running
<1> QED BY <1>4, <1>6, <1>7 DEF Places

\* A step that only stops the scanner, shows it the DMA, or ends a phase.
LEMMA FreshKept ==
    ASSUME TypeOK, FreshInv, UNCHANGED <<prod, rx, ran>>,
           \A i \in Places : buf'[i] \in {buf[i], Noise},
           \/ seen' \in {None, prod}
           \/ seen' = seen /\ (magic_pos = Clobbering => magic_pos' = Clobbering)
    PROVE  FreshInv'
<1>1. PICK h \in 0 .. Size : FreshTo(h)
  BY DEF FreshInv
<1>2. ASSUME NEW i \in Places, i < h
      PROVE  IsLater(buf'[i], ran')
  <2>1. IsLater(buf[i], ran)
    BY <1>1, <1>2 DEF FreshTo, Fresh
  <2>2. IsLater(Noise, ran)
    BY WordsDiffer DEF IsLater
  <2> QED BY <2>1, <2>2
<1>3. prod \in Places
  BY DEF TypeOK
<1>4. CASE seen' \in {None, prod}
  <2>1. Running' => seen' = prod
    BY <1>4 DEF Running
  <2> QED BY <1>1, <1>2, <1>3, <2>1 DEF FreshInv, FreshTo, Fresh, Places
<1>5. CASE seen' = seen /\ (magic_pos = Clobbering => magic_pos' = Clobbering)
  BY <1>1, <1>2, <1>5 DEF FreshInv, FreshTo, Fresh, Running
<1> QED BY <1>4, <1>5

\* The capture starts again.
LEMMA FreshRestart ==
    ASSUME prod' = 0, rx' = 0, ~Running' \/ magic_pos' = Clobbering
    PROVE  FreshInv'
<1>1. FreshTo(0)'
  BY DEF FreshTo, Fresh, Places
<1> QED BY <1>1 DEF FreshInv

\* What the Amiga sends is later than what was executed.
LEMMA SentLater ==
    ASSUME TypeOK, ExecutesSent
    PROVE  /\ IsLater(Noise, ran) /\ \A i : IsLater(Magic(i), ran)
           /\ Send => IsLater(WordAt(sent, at), ran)
<1>1. IsLater(Noise, ran) /\ \A i : IsLater(Magic(i), ran)
  BY WordsDiffer DEF IsLater
<1>2. ASSUME Send
      PROVE  IsLater(WordAt(sent, at), ran)
  <2>1. sent > 0 /\ sent \notin whole
    BY <1>2, SentWord
  <2>2. ASSUME NEW j \in DOMAIN ran
        PROVE  ran[j].data < sent
    <3>1. ran[j].data \in whole /\ whole \subseteq 1 .. sent /\ sent \in Nat
      BY DEF ExecutesSent, TypeOK
    <3>2. ran[j].data \in 1 .. sent /\ ran[j].data # sent
      BY <2>1, <3>1
    <3> QED BY <3>1, <3>2
  <2>3. \A i : IsLater(Word(sent, i), ran)
    BY <2>2, WordsDiffer DEF IsLater
  <2> QED BY <1>1, <2>3 DEF WordAt
<1> QED BY <1>1, <1>2

LEMMA FreshNext == IInv /\ [Next]_vars => FreshInv'
<1> SUFFICES ASSUME TypeOK, WordsInv, FreshInv, ExecutesSent, [Next]_vars PROVE FreshInv'
  BY DEF IInv
<1>1. CASE UNCHANGED vars \/ Cut \/ GiveUp \/ LogStats \/ Poll
  <2>1. UNCHANGED <<buf, prod, rx, ran, seen, magic_pos>>
    BY <1>1 DEF vars, ring, scanner, collected, words, history, Cut, GiveUp, LogStats, Poll
  <2> QED BY <2>1, FreshKept
<1>2. CASE Enter \/ CaughtUp
  <2>1. UNCHANGED <<buf, prod, rx, ran, magic_pos>> /\ seen' \in {None, prod}
    BY <1>2 DEF Enter, CaughtUp, LooksAgain, history
  <2> QED BY <2>1, FreshKept
<1>3. CASE Search
  <2>1. Running /\ rx # seen /\ magic_pos # Clobbering
    BY <1>3 DEF Search, Phase, Clobbering
  <2>2. PICK silent \in BOOLEAN : Advance(fast_magic_search.at, silent)
    BY <1>3 DEF Search, Advance
  <2> QED BY <2>1, <2>2, SearchStops, FreshAdvance
<1>4. CASE MatchMagic \/ LengthPhase \/ CommandPhase \/ DataPhase \/ CrcPhase
  <2>1. Running /\ rx # seen /\ Advance(rx, FALSE)
    BY <1>4 DEF MatchMagic, LengthPhase, CommandPhase, DataPhase, CrcPhase, Phase
  <2>2. magic_pos \in 1 .. MagicWords + 3
    <3>1. CASE MatchMagic
      <4>1. PICK p \in 1 .. MagicWords - 1 : magic_pos = p
        BY <3>1 DEF MatchMagic, Phase
      <4> QED BY <4>1
    <3>2. CASE ~MatchMagic
      <4>1. magic_pos \in {MagicWords, MagicWords + 1, MagicWords + 2, MagicWords + 3}
        BY <1>4, <3>2 DEF LengthPhase, CommandPhase, DataPhase, CrcPhase, Phase
      <4> QED BY <4>1
    <3> QED BY <3>1, <3>2
  <2>3. magic_pos # Clobbering /\ rx \in Places /\ rx <= rx
    BY <2>2 DEF Clobbering, TypeOK, Places
  <2> QED BY <2>1, <2>3, FreshAdvance
<1>5. CASE Execute
  BY <1>5, FreshRestart DEF Execute, Replies
<1>6. CASE Clobber
  <2>1. UNCHANGED <<prod, rx, ran>> /\ seen' = prod
    BY <1>6 DEF Clobber, history
  <2>2. \A i \in Places : buf'[i] \in {buf[i], Noise}
    BY <1>6 DEF Clobber, WordsInv
  <2> QED BY <2>1, <2>2, FreshKept
<1>7. CASE ReadRom \/ ReadMagic
  <2>1. PICK w \in {Noise, Magic(0)} : Read(w, clean)
    BY <1>7 DEF ReadRom, ReadMagic
  <2> QED BY <2>1, FreshCapture, SentLater DEF TypeOK
<1>8. CASE Begin
  <2> DEFINE unseen == magic_pos = 0 /\ \A i \in Unread : buf[i] = Noise
  <2>1. Read(WordAt(sent + 1, 0), unseen)
    BY <1>8 DEF Begin
  <2>2. unseen \in BOOLEAN
    OBVIOUS
  <2> HIDE DEF unseen
  <2>3. WordAt(sent + 1, 0) = Magic(0)
    BY DEF WordAt
  <2> QED BY <2>1, <2>2, <2>3, FreshCapture, SentLater
<1>9. CASE Send
  <2>1. Read(WordAt(sent, at), clean)
    BY <1>9 DEF Send
  <2> QED BY <1>9, <2>1, FreshCapture, SentLater DEF TypeOK
<1>10. CASE LogFull
  BY <1>10, FreshRestart DEF LogFull, Running
<1> QED BY <1>1, <1>2, <1>3, <1>4, <1>5, <1>6, <1>7, <1>8, <1>9, <1>10 DEF Next, Isr, Amiga

-----------------------------------------------------------------------------
(* The command that was read, and the place where it was read.             *)

\* A place in the ring, a number of words after another.
LEMMA PlaceAfter ==
    ASSUME NEW s \in Places, NEW n \in 0 .. Size - 1
    PROVE  /\ (s + n) % Size = IF s + n >= Size THEN s + n - Size ELSE s + n
           /\ (s + n) % Size \in Places
<1>1. /\ Size \in Nat \ {0} /\ s \in Nat /\ s < Size /\ n \in Nat /\ n < Size
  BY MagicScanAssumption DEF Places
<1>2. CASE s + n < Size
  <2>1. (s + n) % Size = s + n
    BY <1>1, <1>2
  <2> QED BY <1>1, <1>2, <2>1 DEF Places
<1>3. CASE s + n >= Size
  <2>1. PICK m \in 0 .. Size - 1 : s + n = m + Size
    <3>1. s + n - Size \in 0 .. Size - 1
      BY <1>1, <1>3
    <3> QED BY <1>1, <3>1
  <2>2. (m + Size) % Size = m
    BY <1>1
  <2> QED BY <1>1, <1>3, <2>1, <2>2 DEF Places
<1> QED BY <1>1, <1>2, <1>3

\* The scanner goes one word on, before the last word of the command.
LEMMA PlaceNext ==
    ASSUME TypeOK, NEW n \in 1 .. Size - 2, rx = (start + n) % Size
    PROVE  /\ NextPlace(rx) = (start + (n + 1)) % Size
           /\ n > 1 => rx # CmdPlace
<1>1. /\ start \in Places /\ rx \in Places /\ Size \in Nat
      /\ n \in 0 .. Size - 1 /\ n + 1 \in 0 .. Size - 1 /\ 1 \in 0 .. Size - 1
  BY DEF TypeOK
<1>2. /\ rx = IF start + n >= Size THEN start + n - Size ELSE start + n
      /\ (start + (n + 1)) % Size
            = IF start + (n + 1) >= Size THEN start + (n + 1) - Size ELSE start + (n + 1)
      /\ CmdPlace = IF start + 1 >= Size THEN start + 1 - Size ELSE start + 1
  BY <1>1, PlaceAfter DEF CmdPlace
<1>3. NextPlace(rx) = IF rx + 1 = Size THEN 0 ELSE rx + 1
  BY <1>1, PlaceMod
<1>4. start \in Nat /\ start < Size
  BY <1>1 DEF Places
<1> HIDE DEF CmdPlace
<1>5. CASE start + n >= Size
  BY <1>1, <1>2, <1>3, <1>4, <1>5
<1>6. CASE start + n < Size
  <2>0. n \in Nat
    OBVIOUS
  <2>1. rx = start + n
    <3>1. ~(start + n >= Size)
      BY <1>1, <1>4, <1>6, <2>0
    <3> QED BY <1>2, <3>1, Zenon
  <2>2. NextPlace(rx) = (start + (n + 1)) % Size
    <3>1. CASE start + n + 1 = Size
      BY <1>1, <1>2, <1>3, <1>4, <2>0, <2>1, <3>1
    <3>2. CASE start + n + 1 < Size
      BY <1>1, <1>2, <1>3, <1>4, <2>0, <2>1, <3>2
    <3> QED BY <1>1, <1>4, <1>6, <2>0, <3>1, <3>2
  <2>3. n > 1 => rx # CmdPlace
    BY <1>1, <1>2, <1>4, <1>6, <2>0, <2>1
  <2> QED BY <2>2, <2>3
<1> QED BY <1>1, <1>4, <1>5, <1>6

\* A word is captured: where the command was read, or before the scanner.
LEMMA OpCapture ==
    ASSUME TypeOK, WordsInv, OpInv, NEW w, NEW undisturbed \in BOOLEAN, Read(w, undisturbed),
           \A k : w = Word(k, 1) => k \notin whole
    PROVE  OpInv'
<1>1. /\ prod \in Places /\ buf' = [buf EXCEPT ![prod] = w] /\ prod' = NextPlace(prod)
      /\ UNCHANGED <<rx, magic_pos, len, start, cmd_len, cmd>>
      /\ lapped' = (Collecting /\ (lapped \/ prod' = rx))
      /\ rx \in Places /\ start \in Places
  BY CaptureType DEF TypeOK
<1>2. prod' = (IF prod + 1 = Size THEN 0 ELSE prod + 1)
  BY <1>1, PlaceMod
<1>3. Collecting' = Collecting /\ Gone' = Gone /\ CmdPlace' = CmdPlace
      /\ \A i : Ahead(i)' = Ahead(i)
  BY <1>1 DEF Collecting, Gone, CmdPlace, Ahead
<1>4. PlaceInv'
  BY <1>1, <1>3 DEF OpInv, PlaceInv
<1>5. ASSUME Collecting, ~lapped, prod' # rx, magic_pos # MagicWords + 1
      PROVE  OpKept'
  <2>1. OpKept /\ CmdPlace \in Places
    <3>1. 1 \in 0 .. Size - 1 /\ start \in Places
      BY <1>1, <1>5 DEF Places, OpInv, PlaceInv, TypeOK
    <3> QED BY <1>5, <3>1, PlaceAfter DEF OpInv, CmdPlace
  <2>2. buf' = [i \in Places |-> IF i = prod THEN w ELSE buf[i]]
    BY <1>1 DEF WordsInv
  <2>3. CASE prod = CmdPlace
    <3>1. buf'[CmdPlace] = w
      BY <2>1, <2>2, <2>3
    <3>2. ~Ahead(prod')
      BY <1>1, <1>2, <1>5, <2>3 DEF Ahead, Places
    <3>3. ASSUME NEW i \in Places, NEW k \in 1 .. Len(DataWords), w = Word(k, 1)
          PROVE  buf'[i] # Word(k, DataWords[k] + 3)
      <4>0. DataWords[k] \in Nat
        OBVIOUS
      <4>1. CASE i = prod
        <5>1. buf'[i] = Word(k, 1) /\ DataWords[k] + 3 # 1
          BY <2>2, <3>3, <4>0, <4>1
        <5> QED BY <5>1, WordsDiffer
      <4>2. CASE i # prod
        <5>1. buf'[i] = buf[i] /\ IsCaptured(buf[i], sent, whole)
          BY <2>2, <4>2 DEF WordsInv
        <5>2. ASSUME buf[i] = Word(k, DataWords[k] + 3)
              PROVE  k \in whole
          <6>1. PICK c \in 1 .. sent : \E j \in 0 .. DataWords[c] + 3 :
                    buf[i] = Word(c, j) /\ (j = DataWords[c] + 3 => c \in whole)
            <7>1. buf[i] # Noise /\ \A j : buf[i] # Magic(j)
              BY <5>2 DEF Word, Noise, Magic
            <7> QED BY <5>1, <7>1 DEF IsCaptured
          <6>2. PICK j \in 0 .. DataWords[c] + 3 :
                    buf[i] = Word(c, j) /\ (j = DataWords[c] + 3 => c \in whole)
            BY <6>1
          <6>3. c = k /\ j = DataWords[k] + 3
            BY <5>2, <6>2, WordsDiffer
          <6> QED BY <6>2, <6>3
        <5> QED BY <3>3, <5>1, <5>2
      <4> QED BY <4>1, <4>2
    <3>4. Replaced'
      BY <1>3, <3>1, <3>2, <3>3 DEF Replaced
    <3> QED BY <3>4 DEF OpKept
  <2>4. CASE prod # CmdPlace
    <3>1. buf'[CmdPlace] = buf[CmdPlace]
      BY <2>1, <2>2, <2>4
    <3>2. CASE buf[CmdPlace] = cmd
      BY <1>1, <1>3, <3>1, <3>2 DEF OpKept
    <3>3. CASE Replaced
      <4>1. ~Ahead(prod) /\ ~Ahead(prod')
        BY <1>1, <1>2, <1>5, <2>1, <2>4, <3>3 DEF Replaced, Ahead, Places
      <4>2. ASSUME NEW i \in Places, NEW k \in 1 .. Len(DataWords), Ahead(i),
                   buf[CmdPlace] = Word(k, 1)
            PROVE  buf'[i] # Word(k, DataWords[k] + 3)
        <5>1. i # prod
          BY <4>1, <4>2
        <5>2. buf'[i] = buf[i]
          BY <2>2, <5>1
        <5> QED BY <3>3, <4>2, <5>2 DEF Replaced
      <4>3. Replaced'
        BY <1>3, <3>1, <4>1, <4>2 DEF Replaced
      <4> QED BY <4>3 DEF OpKept
    <3> QED BY <2>1, <3>2, <3>3 DEF OpKept
  <2> QED BY <2>3, <2>4
<1> QED BY <1>1, <1>3, <1>4, <1>5 DEF OpInv

\* The scanner reads a word of a command, and goes on.
LEMMA OpAdvance ==
    ASSUME TypeOK, OpInv, Running, Collecting, magic_pos # MagicWords + 4, Advance(rx, FALSE),
           UNCHANGED <<start, cmd_len, lapped>>, len' \in Nat, len' <= len,
           magic_pos' \in MagicWords + 2 .. MagicWords + 4, ~lapped => Gone' = Gone + 1,
           magic_pos = MagicWords + 1 => cmd' = buf[rx],
           magic_pos # MagicWords + 1 => cmd' = cmd
    PROVE  OpInv'
<1>1. /\ magic_pos \in MagicWords + 1 .. MagicWords + 3 /\ Collecting'
      /\ magic_pos' # MagicWords + 1 /\ MagicWords \in Nat
  BY DEF Collecting, TypeOK
<1>2. /\ rx' = NextPlace(rx) /\ UNCHANGED <<buf, prod>> /\ rx \in Places
      /\ prod \in Places /\ start \in Places
  <2>1. rx \in Places
    BY DEF TypeOK
  <2> QED BY <2>1, AdvanceType DEF TypeOK
<1>3. cmd_len + 4 <= Size /\ len <= cmd_len /\ len \in Nat /\ cmd_len \in Nat
  BY DEF OpInv, PlaceInv, TypeOK
<1>4. PlaceInv' /\ (~lapped => Gone \in 1 .. Size - 2 /\ (magic_pos # MagicWords + 1 => Gone > 1))
  <2>1. Gone \in 1 .. Size - 2 /\ (magic_pos # MagicWords + 1 => Gone > 1)
    <3>1. CASE magic_pos = MagicWords + 1
      <4>1. Gone = 1
        BY <3>1 DEF Gone
      <4>2. 4 <= Size /\ Size \in Nat
        BY <1>3
      <4> QED BY <3>1, <4>1, <4>2
    <3>2. CASE magic_pos = MagicWords + 2
      <4>1. Gone = 2 + cmd_len - len
        BY <1>1, <3>2 DEF Gone
      <4> QED BY <1>1, <1>3, <3>2, <4>1
    <3>3. CASE magic_pos = MagicWords + 3
      <4>1. Gone = 2 + cmd_len
        BY <1>1, <3>3 DEF Gone
      <4> QED BY <1>1, <1>3, <3>3, <4>1
    <3> QED BY <1>1, <3>1, <3>2, <3>3
  <2>2. ~lapped => rx' = (start + (Gone + 1)) % Size
    BY <1>2, <2>1, PlaceNext DEF OpInv, PlaceInv
  <2>3. cmd_len' + 4 <= Size /\ len' <= cmd_len'
    BY <1>3
  <2> QED BY <1>1, <2>1, <2>2, <2>3 DEF PlaceInv
<1>5. ASSUME ~lapped
      PROVE  OpKept'
  <2>1. CmdPlace' = CmdPlace /\ buf' = buf /\ prod' = prod
    BY <1>2 DEF CmdPlace
  <2>2. rx = (start + Gone) % Size
    BY <1>5 DEF OpInv, PlaceInv
  <2>3. CASE magic_pos = MagicWords + 1
    <3>1. rx = CmdPlace
      BY <2>2, <2>3 DEF Gone, CmdPlace
    <3> QED BY <2>1, <2>3, <3>1 DEF OpKept
  <2>4. CASE magic_pos # MagicWords + 1 /\ buf[CmdPlace] = cmd
    BY <2>1, <2>4 DEF OpKept
  <2>5. CASE magic_pos # MagicWords + 1 /\ Replaced
    <3>1. rx # CmdPlace
      BY <1>4, <1>5, <2>2, <2>5, PlaceNext
    <3>2. CmdPlace \in Places
      <4>1. 1 \in 0 .. Size - 1
        BY <1>3, <1>2 DEF Places
      <4> QED BY <1>2, <4>1, PlaceAfter DEF CmdPlace
    <3>3. rx' = IF rx + 1 = Size THEN 0 ELSE rx + 1
      BY <1>2, PlaceMod
    <3>4. ASSUME NEW i \in Places, Ahead(i)'
          PROVE  Ahead(i)
      BY <1>2, <2>1, <3>1, <3>2, <3>3, <3>4 DEF Ahead, Places
    <3>5. ~Ahead(prod)'
      BY <1>2, <2>1, <2>5, <3>4 DEF Replaced
    <3>6. \A i \in Places, k \in 1 .. Len(DataWords) :
             Ahead(i)' /\ buf[CmdPlace] = Word(k, 1) => buf[i] # Word(k, DataWords[k] + 3)
      BY <2>5, <3>4 DEF Replaced
    <3>7. Replaced'
      BY <2>1, <3>5, <3>6 DEF Replaced
    <3> QED BY <3>7 DEF OpKept
  <2>6. OpKept \/ magic_pos = MagicWords + 1
    BY <1>5 DEF OpInv
  <2> QED BY <2>3, <2>4, <2>5, <2>6 DEF OpKept
<1> QED BY <1>4, <1>5 DEF OpInv

\* A step that leaves the ring, the scanner and the command alone, or ends it.
LEMMA OpSame ==
    ASSUME OpInv,
           \/ UNCHANGED <<buf, prod, rx, magic_pos, len, start, cmd_len, cmd, lapped>>
           \/ ~Collecting'
           \/ UNCHANGED <<magic_pos, len, cmd_len>> /\ (Collecting => lapped')
    PROVE  OpInv'
<1>1. CASE UNCHANGED <<buf, prod, rx, magic_pos, len, start, cmd_len, cmd, lapped>>
  <2>1. Collecting' = Collecting /\ Gone' = Gone /\ CmdPlace' = CmdPlace
        /\ \A i : Ahead(i)' = Ahead(i)
    BY <1>1 DEF Collecting, Gone, CmdPlace, Ahead
  <2> QED BY <1>1, <2>1 DEF OpInv, PlaceInv, OpKept, Replaced
<1>2. CASE ~Collecting'
  BY <1>2 DEF OpInv, PlaceInv, Collecting
<1>3. CASE UNCHANGED <<magic_pos, len, cmd_len>> /\ (Collecting => lapped')
  BY <1>3 DEF OpInv, PlaceInv, Collecting
<1> QED BY <1>1, <1>2, <1>3

LEMMA OpNext == IInv /\ [Next]_vars => OpInv'
<1> SUFFICES ASSUME TypeOK, WordsInv, OpInv, [Next]_vars PROVE OpInv'
  BY DEF IInv
<1>1. MagicWords \in Nat /\ MagicWords > 1 /\ len \in Nat /\ cmd_len \in Nat
  BY DEF TypeOK
<1>2. CASE UNCHANGED vars \/ Enter \/ CaughtUp \/ Cut \/ GiveUp \/ Poll \/ LogStats
  <2>1. UNCHANGED <<buf, prod, rx, magic_pos, len, start, cmd_len, cmd, lapped>>
    BY <1>2 DEF vars, ring, scanner, collected, words, Enter, CaughtUp, Cut, GiveUp, Poll,
           LogStats
  <2> QED BY <2>1, OpSame
<1>3. CASE LogFull
  <2>1. UNCHANGED <<magic_pos, len, cmd_len>> /\ (Collecting => lapped')
    BY <1>3 DEF LogFull, words
  <2> QED BY <2>1, OpSame
<1>4. CASE Search \/ MatchMagic \/ Execute \/ Clobber
  <2>1. magic_pos' \in 0 .. MagicWords \/ magic_pos' = MagicWords + 5
    <3>1. CASE MatchMagic
      <4>1. PICK p \in 1 .. MagicWords - 1 : magic_pos' = IF buf[rx] = Magic(p) THEN p + 1 ELSE 0
        BY <3>1 DEF MatchMagic
      <4> QED BY <1>1, <4>1
    <3>2. CASE Search \/ Execute \/ Clobber
      <4>1. magic_pos' \in {0, 1, MagicWords + 5}
        BY <3>2 DEF Search, Execute, Clobber, Clobbering
      <4> QED BY <1>1, <4>1
    <3> QED BY <1>4, <3>1, <3>2
  <2>2. ~Collecting'
    BY <1>1, <2>1 DEF Collecting
  <2> QED BY <2>2, OpSame
<1>5. CASE LengthPhase
  <2>1. CASE magic_pos' = 0
    <3>1. ~Collecting'
      BY <1>1, <2>1 DEF Collecting
    <3> QED BY <3>1, OpSame
  <2>2. CASE magic_pos' # 0
    <3>1. PICK n \in IF IsLength(buf[rx]) THEN {DataWords[buf[rx][2]]} ELSE Lengths :
              cmd_len' = n /\ len' = n /\ magic_pos' = MagicWords + 1
      BY <1>5, <2>2 DEF LengthPhase
    <3>2. cmd_len' + 4 <= Size /\ cmd_len' = len' /\ len' \in Nat
      <4>1. n \in Nat /\ n + 4 <= Size
        <5>1. CASE IsLength(buf[rx])
          <6>1. rx \in Places /\ IsCaptured(buf[rx], sent, whole)
            BY DEF TypeOK, WordsInv
          <6>2. \E k \in 1 .. sent : buf[rx][2] = k
            <7>1. CASE buf[rx] = Noise \/ \E i \in 0 .. MagicWords : buf[rx] = Magic(i)
              BY <5>1, <7>1, WordsDiffer
            <7>2. CASE \E k \in 1 .. sent : \E i \in 0 .. DataWords[k] + 3 : buf[rx] = Word(k, i)
              BY <7>2, WordsDiffer
            <7> QED BY <6>1, <7>1, <7>2 DEF IsCaptured
          <6>3. PICK k \in 1 .. Len(DataWords) : n = DataWords[k]
            BY <3>1, <5>1, <6>2 DEF TypeOK
          <6>4. DataWords[k] \in Nat /\ DataWords[k] + 4 <= Size
            BY LengthsFit
          <6> QED BY <6>3, <6>4
        <5>2. CASE ~IsLength(buf[rx])
          BY <3>1, <5>2, LengthsFit
        <5> QED BY <5>1, <5>2
      <4> QED BY <3>1, <4>1
    <3>3. /\ rx' = NextPlace(rx) /\ start' = rx /\ rx \in Places
      <4>1. rx \in Places /\ Running /\ Advance(rx, FALSE) /\ start' = rx
        BY <1>5 DEF LengthPhase, Phase, TypeOK
      <4> QED BY <4>1, AdvanceType
    <3>4. Gone' = 1 /\ rx' = (start' + 1) % Size
      <4>1. Gone' = 1
        BY <3>1 DEF Gone
      <4> QED BY <3>3, <4>1, PlaceMod
    <3>5. PlaceInv'
      <4>1. (start' + Gone') % Size = rx'
        BY <3>4
      <4> QED BY <3>1, <3>2, <4>1 DEF PlaceInv
    <3> QED BY <3>1, <3>5 DEF OpInv
  <2> QED BY <2>1, <2>2
<1>6. CASE CommandPhase
  <2>1. /\ Running /\ magic_pos = MagicWords + 1 /\ cmd' = buf[rx]
        /\ magic_pos' = MagicWords + (IF len = 0 THEN 3 ELSE 2)
        /\ Advance(rx, FALSE) /\ UNCHANGED <<len, start, cmd_len, lapped>>
    BY <1>6 DEF CommandPhase, Phase
  <2>2. len = cmd_len
    BY <2>1 DEF OpInv, PlaceInv
  <2>3. Gone = 1 /\ Gone' = 2
    <3>1. CASE len = 0
      <4>1. magic_pos' = MagicWords + 3 /\ cmd_len' = 0
        BY <2>1, <2>2, <3>1
      <4> QED BY <1>1, <2>1, <4>1 DEF Gone
    <3>2. CASE len # 0
      <4>1. magic_pos' = MagicWords + 2 /\ cmd_len' = len'
        BY <2>1, <2>2, <3>2
      <4>2. Gone' = 2 + cmd_len' - len'
        BY <1>1, <4>1 DEF Gone
      <4> QED BY <1>1, <2>1, <4>1, <4>2 DEF Gone
    <3> QED BY <3>1, <3>2
  <2>4. Collecting /\ magic_pos # MagicWords + 4
        /\ magic_pos' \in MagicWords + 2 .. MagicWords + 4
    BY <1>1, <2>1 DEF Collecting
  <2> QED BY <1>1, <2>1, <2>3, <2>4, OpAdvance
<1>7. CASE DataPhase
  <2>1. /\ Running /\ magic_pos = MagicWords + 2 /\ len' = len - 1 /\ len > 0
        /\ magic_pos' = MagicWords + (IF len' = 0 THEN 3 ELSE 2)
        /\ Advance(rx, FALSE) /\ UNCHANGED <<start, cmd_len, cmd, lapped>>
    BY <1>7 DEF DataPhase, Phase, WordsInv
  <2>2. Gone = 2 + cmd_len - len
    BY <1>1, <2>1 DEF Gone
  <2>3. Gone' = Gone + 1
    <3>1. CASE len' = 0
      <4>1. magic_pos' = MagicWords + 3
        BY <2>1, <3>1
      <4>2. Gone' = 2 + cmd_len'
        BY <1>1, <4>1 DEF Gone
      <4> QED BY <1>1, <2>1, <2>2, <3>1, <4>2
    <3>2. CASE len' # 0
      <4>1. magic_pos' = MagicWords + 2
        BY <2>1, <3>2
      <4>2. Gone' = 2 + cmd_len' - len'
        BY <1>1, <4>1 DEF Gone
      <4> QED BY <1>1, <2>1, <2>2, <4>2
    <3> QED BY <3>1, <3>2
  <2>4. Collecting /\ magic_pos # MagicWords + 4 /\ magic_pos # MagicWords + 1
        /\ magic_pos' \in MagicWords + 2 .. MagicWords + 4
    BY <1>1, <2>1 DEF Collecting
  <2>5. len' \in Nat /\ len' <= len
    BY <1>1, <2>1
  <2> QED BY <2>1, <2>3, <2>4, <2>5, OpAdvance
<1>8. CASE CrcPhase
  <2>1. /\ Running /\ magic_pos = MagicWords + 3 /\ magic_pos' = MagicWords + 4
        /\ Advance(rx, FALSE) /\ UNCHANGED <<len, start, cmd_len, cmd, lapped>>
    BY <1>8 DEF CrcPhase, Phase
  <2>2. Gone = 2 + cmd_len /\ Gone' = 3 + cmd_len
    BY <1>1, <2>1 DEF Gone
  <2>3. Collecting /\ magic_pos # MagicWords + 4 /\ magic_pos # MagicWords + 1
        /\ magic_pos' \in MagicWords + 2 .. MagicWords + 4
    BY <1>1, <2>1 DEF Collecting
  <2>4. Gone' = Gone + 1
    BY <1>1, <2>2
  <2> QED BY <1>1, <2>1, <2>3, <2>4, OpAdvance
<1>9. CASE ReadRom \/ ReadMagic
  <2>1. PICK w \in {Noise, Magic(0)} : Read(w, clean)
    BY <1>9 DEF ReadRom, ReadMagic
  <2>2. \A k : w # Word(k, 1)
    BY WordsDiffer
  <2> QED BY <2>1, <2>2, OpCapture DEF TypeOK
<1>10. CASE Begin
  <2> DEFINE unseen == magic_pos = 0 /\ \A i \in Unread : buf[i] = Noise
  <2>1. Read(WordAt(sent + 1, 0), unseen)
    BY <1>10 DEF Begin
  <2>2. unseen \in BOOLEAN
    OBVIOUS
  <2> HIDE DEF unseen
  <2>3. WordAt(sent + 1, 0) = Magic(0)
    BY DEF WordAt
  <2>4. \A k : Magic(0) # Word(k, 1)
    BY WordsDiffer
  <2> QED BY <2>1, <2>2, <2>3, <2>4, OpCapture
<1>11. CASE Send
  <2>1. Read(WordAt(sent, at), clean)
    BY <1>11 DEF Send
  <2>2. sent \notin whole
    BY <1>11, SentWord
  <2>3. ASSUME NEW k, WordAt(sent, at) = Word(k, 1)
        PROVE  k = sent
    <3>1. CASE at < MagicWords
      <4>1. WordAt(sent, at) = Magic(at)
        BY <3>1 DEF WordAt
      <4>2. Magic(at) # Word(k, 1)
        BY DEF Magic, Word
      <4> QED BY <2>3, <4>1, <4>2
    <3>2. CASE ~(at < MagicWords)
      <4>1. WordAt(sent, at) = Word(sent, at - MagicWords)
        BY <3>2 DEF WordAt
      <4>2. \A i, c, j : Word(c, i) = Word(k, j) => c = k
        BY WordsDiffer
      <4> QED BY <2>3, <4>1, <4>2
    <3> QED BY <3>1, <3>2
  <2> QED BY <2>1, <2>2, <2>3, OpCapture DEF TypeOK
<1> QED BY <1>2, <1>3, <1>4, <1>5, <1>6, <1>7, <1>8, <1>9, <1>10, <1>11
        DEF Next, Isr, Amiga

-----------------------------------------------------------------------------
(* What is executed.                                                       *)

\* The words that match a command end with its last word, and belong to no
\* other command.
LEMMA ExecutesOne ==
    ASSUME IInv, Execute
    PROVE  \/ ran' = ran
           \/ \E e \in [data : Nat, own : BOOLEAN, lapped : BOOLEAN] :
                 /\ ran' = Append(ran, e)
                 /\ e.data \in whole /\ (e.own \/ e.lapped)
                 /\ \A j \in DOMAIN ran : ran[j].data < e.data
<1> DEFINE K == {c \in 1 .. sent : Intact(c)}
<1>1. ran' = IF K = {} THEN ran ELSE Append(ran, [data |-> Max(K),
                      own |-> cmd = Word(Max(K), 1), lapped |-> lapped])
  BY Zenon DEF Execute
<1>2. ASSUME NEW c \in K
      PROVE  /\ c \in 1 .. sent /\ DataWords[c] \in Nat
             /\ buf[rx] = Word(c, DataWords[c] + 3)
  <2>1. c \in 1 .. Len(DataWords)
    BY DEF IInv, TypeOK
  <2> QED BY <2>1, CommandLength DEF Intact, Matches
<1>3. ASSUME NEW c \in K, NEW d \in K
      PROVE  c = d
  BY <1>2, WordsDiffer
<1>4. ASSUME NEW c \in K
      PROVE  c \in whole /\ \A j \in DOMAIN ran : ran[j].data < c
  <2>1. Running /\ rx # seen /\ magic_pos # Clobbering
    BY DEF Execute, Phase, Clobbering
  <2>2. rx \in Places /\ IsCaptured(buf[rx], sent, whole)
    BY DEF IInv, TypeOK, WordsInv
  <2>3. c \in whole
    <3>1. \E k \in 1 .. sent : \E i \in 0 .. DataWords[k] + 3 :
              buf[rx] = Word(k, i) /\ (i = DataWords[k] + 3 => k \in whole)
      BY <1>2, <2>2, WordsDiffer DEF IsCaptured
    <3> QED BY <1>2, <3>1, WordsDiffer
  <2>4. PICK h \in 0 .. Size : FreshTo(h)
    BY DEF IInv, FreshInv
  <2>5. rx < h
    BY <2>1, <2>2, <2>4 DEF FreshTo, IInv, TypeOK, Places
  <2>6. IsLater(buf[rx], ran)
    BY <2>2, <2>4, <2>5 DEF FreshTo, Fresh
  <2>7. DataWords[c] + 3 \in 0 .. DataWords[c] + 3 /\ c \in 1 .. Len(DataWords)
    BY SMTT(20), <1>2 DEF IInv, TypeOK
  <2> QED BY <1>2, <2>3, <2>6, <2>7 DEF IsLater
<1>5. ASSUME NEW c \in K
      PROVE  Max(K) = c
  <2>1. c \in Nat /\ \A d \in K : d = c
    BY <1>2, <1>3
  <2>2. \A x \in K : (\A y \in K : x >= y) <=> x = c
    BY <2>1
  <2> HIDE DEF K
  <2>3. Max(K) \in K
    BY <2>1, <2>2, <1>5 DEF Max
  <2> QED BY <2>1, <2>3
<1>6. ASSUME NEW c \in K, ~lapped
      PROVE  cmd = Word(c, 1)
  <2>1. /\ magic_pos = MagicWords + 4 /\ Collecting
        /\ magic_pos # MagicWords + 1 /\ rx \in Places
    BY DEF Execute, Phase, Collecting, IInv, TypeOK
  <2>2. buf[CmdPlace] = Word(c, 1)
    <3>1. DataWords[c] \in Nat /\ cmd_len = DataWords[c]
      BY <1>2 DEF Intact, Matches
    <3>2. 1 \in 0 .. cmd_len + 1
      BY <3>1
    <3> QED BY <3>2 DEF Intact, Matches, Collected, CmdPlace
  <2>3. Ahead(rx)
    BY <2>1 DEF Ahead, Places
  <2>4. c \in 1 .. Len(DataWords) /\ buf[rx] = Word(c, DataWords[c] + 3)
    BY <1>2 DEF IInv, TypeOK
  <2>5. ~Replaced
    BY <2>1, <2>2, <2>3, <2>4 DEF Replaced
  <2> QED BY <1>6, <2>1, <2>2, <2>5 DEF IInv, OpInv, OpKept
<1> HIDE DEF K
<1>7. CASE K # {}
  <2>1. PICK c \in K : TRUE
    BY <1>7
  <2>2. Max(K) = c
    BY <1>5
  <2>3. ran' = Append(ran, [data |-> c, own |-> cmd = Word(c, 1), lapped |-> lapped])
    BY <1>1, <1>7, <2>2, Zenon
  <2> DEFINE e == [data |-> c, own |-> cmd = Word(c, 1), lapped |-> lapped]
  <2>4. /\ e.data = c /\ e.own = (cmd = Word(c, 1)) /\ e.lapped = lapped
    BY Zenon
  <2>5. c \in Nat /\ (cmd = Word(c, 1)) \in BOOLEAN /\ lapped \in BOOLEAN
    BY <1>2 DEF IInv, TypeOK
  <2>6. e \in [data : Nat, own : BOOLEAN, lapped : BOOLEAN]
    BY <2>5, Zenon
  <2>7. ran' = Append(ran, e)
    BY <2>3, Zenon
  <2>8. e.own \/ e.lapped
    BY <1>6, <2>4, <2>5, Zenon
  <2> HIDE DEF e
  <2>9. e.data \in whole /\ \A j \in DOMAIN ran : ran[j].data < e.data
    BY <1>4, <2>4
  <2> QED BY <2>6, <2>7, <2>8, <2>9
<1> QED BY <1>1, <1>7

LEMMA ExecutesNext == IInv /\ TypeOK' /\ [Next]_vars => ExecutesSent'
<1> SUFFICES ASSUME IInv, TypeOK', [Next]_vars PROVE ExecutesSent'
  OBVIOUS
<1>1. /\ whole \subseteq whole' /\ ran \in Seq([data : Nat, own : BOOLEAN, lapped : BOOLEAN])
      /\ \A i \in DOMAIN ran : ran[i].data \in whole /\ (ran[i].own \/ ran[i].lapped)
      /\ \A i, j \in DOMAIN ran : i < j => ran[i].data < ran[j].data
  <2>1. whole \subseteq whole'
    <3>1. CASE Send
      BY <3>1 DEF Send
    <3>2. CASE [Next]_vars /\ ~Send
      <4>1. whole' = whole
        BY <3>2 DEF Next, Isr, Amiga, vars, amiga, Enter, CaughtUp, Search, MatchMagic,
               LengthPhase, CommandPhase, DataPhase, CrcPhase, Execute, Replies, Clobber,
               Advance, ReadRom, ReadMagic, Begin, Cut, GiveUp, Poll, LogStats, LogFull
      <4> QED BY <4>1
    <3> QED BY <3>1, <3>2
  <2> QED BY <2>1 DEF IInv, TypeOK, ExecutesSent
<1>2. CASE ran' = ran
  BY <1>1, <1>2 DEF ExecutesSent
<1>3. CASE Execute
  <2>1. CASE ran' # ran
    <3>1. PICK e \in [data : Nat, own : BOOLEAN, lapped : BOOLEAN] :
             /\ ran' = Append(ran, e)
             /\ e.data \in whole /\ (e.own \/ e.lapped)
             /\ \A j \in DOMAIN ran : ran[j].data < e.data
      BY <1>3, <2>1, ExecutesOne
    <3>3. /\ DOMAIN ran = 1 .. Len(ran) /\ Len(ran) \in Nat
          /\ DOMAIN ran' = 1 .. Len(ran) + 1
          /\ ran'[Len(ran) + 1] = e
          /\ \A i \in 1 .. Len(ran) : ran'[i] = ran[i]
      BY <1>1, <3>1
    <3>4. \A i \in DOMAIN ran' : ran'[i].data \in whole' /\ (ran'[i].own \/ ran'[i].lapped)
      <4> SUFFICES ASSUME NEW i \in 1 .. Len(ran) + 1
                   PROVE  ran'[i].data \in whole' /\ (ran'[i].own \/ ran'[i].lapped)
        BY <3>3
      <4>1. CASE i = Len(ran) + 1
        <5>1. ran'[i] = e
          BY <3>3, <4>1
        <5> QED BY <1>1, <3>1, <5>1, Zenon
      <4>2. CASE i # Len(ran) + 1
        <5>1. i \in 1 .. Len(ran)
          BY <3>3, <4>2
        <5>2. ran'[i] = ran[i] /\ i \in DOMAIN ran
          BY <3>3, <5>1
        <5> QED BY <1>1, <5>2, Zenon
      <4> QED BY <4>1, <4>2
    <3>5. \A i, j \in DOMAIN ran' : i < j => ran'[i].data < ran'[j].data
      <4> SUFFICES ASSUME NEW i \in 1 .. Len(ran) + 1, NEW j \in 1 .. Len(ran) + 1, i < j
                   PROVE  ran'[i].data < ran'[j].data
        BY <3>3
      <4>1. i \in 1 .. Len(ran)
        BY <3>3
      <4>2. i \in DOMAIN ran /\ ran'[i] = ran[i]
        BY <3>3, <4>1
      <4>3. CASE j = Len(ran) + 1
        <5>1. ran'[j] = e
          BY <3>3, <4>3
        <5> QED BY <3>1, <4>2, <5>1, Zenon
      <4>4. CASE j # Len(ran) + 1
        <5>1. j \in 1 .. Len(ran)
          BY <3>3, <4>4
        <5>2. j \in DOMAIN ran /\ ran'[j] = ran[j]
          BY <3>3, <5>1
        <5> QED BY <1>1, <4>2, <5>2
      <4> QED BY <4>3, <4>4
    <3> QED BY <3>4, <3>5 DEF ExecutesSent
  <2> QED BY <1>2, <2>1
<1>4. ~Execute => ran' = ran
  BY DEF Next, Isr, Amiga, vars, history, Enter, CaughtUp, Search, MatchMagic, LengthPhase,
         CommandPhase, DataPhase, CrcPhase, Clobber, Advance, ReadRom, ReadMagic, Begin, Send,
         Read, Cut, GiveUp, Poll, LogStats, LogFull
<1> QED BY <1>2, <1>3, <1>4

-----------------------------------------------------------------------------
(* The theorems.                                                           *)

\* The types, the words of the ring, their age, and what was executed,
\* together, hold at first and after every step.
THEOREM Invariance == Spec => []IInv
<1>1. Init => IInv
  <2> SUFFICES ASSUME Init PROVE IInv
    OBVIOUS
  <2>1. TypeOK
    <3>1. /\ 0 \in Places /\ -1 \in -1 .. Size - 1 /\ 0 \in 0 .. Clobbering
          /\ 0 \in 0 .. Wide - 1 /\ 0 \in 0 .. Len(DataWords) /\ 0 \in Nat
      BY DEF Places, Clobbering
    <3>2. <<>> \in Seq([data : Nat, own : BOOLEAN, lapped : BOOLEAN]) /\ DOMAIN buf = Places
      BY DEF Init, Places
    <3> QED BY <3>1, <3>2 DEF Init, TypeOK, None
  <2>2. WordsInv
    <3>1. \A i \in Places : buf[i] = Noise
      BY DEF Init, Places
    <3>2. buf = [i \in Places |-> buf[i]]
      BY DEF Init, Places
    <3>3. magic_pos # MagicWords + 2
      BY DEF Init
    <3> QED BY <3>1, <3>2, <3>3 DEF WordsInv, IsCaptured
  <2>3. FreshInv
    <3>1. FreshTo(0)
      BY DEF Init, FreshTo, Fresh, Places, Running
    <3> QED BY <3>1 DEF FreshInv
  <2>4. ExecutesSent
    BY DEF Init, ExecutesSent
  <2>5. OpInv
    <3>1. magic_pos = 0 /\ ~Collecting
      BY DEF Init, Collecting
    <3> QED BY <3>1 DEF OpInv, PlaceInv, Collecting
  <2> QED BY <2>1, <2>2, <2>3, <2>4, <2>5 DEF IInv
<1>2. IInv /\ [Next]_vars => IInv'
  <2> SUFFICES ASSUME IInv, [Next]_vars PROVE IInv'
    OBVIOUS
  <2>1. TypeOK'
    <3>1. TypeOK /\ WordsInv
      BY DEF IInv
    <3>2. CASE UNCHANGED vars
      BY <3>1, <3>2 DEF vars, ring, scanner, collected, words, throttle, amiga, history, TypeOK, Running
    <3> QED BY <3>1, <3>2, IsrType, AmigaType, MainType DEF Next
  <2>2. WordsInv'
    BY WordsNext DEF IInv
  <2> QED BY <2>1, <2>2, FreshNext, OpNext, ExecutesNext DEF IInv
<1> QED BY <1>1, <1>2, PTL DEF Spec

\* Every variable keeps its type: indices stay in the ring, the phase and the
\* counters in their ranges, and the scanner runs only with its gate open.
THEOREM TypeCorrect == Spec => []TypeOK
<1>1. IInv => TypeOK
  BY DEF IInv
<1> QED BY <1>1, Invariance, PTL

\* Only commands sent to the end are executed, in the order in which they
\* were sent, and none twice; each with its own command code, unless the DMA
\* has overtaken the scanner in the middle of it.
THEOREM ExecutesWhatWasSent == Spec => []ExecutesSent
<1>1. IInv => ExecutesSent
  BY DEF IInv
<1> QED BY <1>1, Invariance, PTL
=============================================================================
