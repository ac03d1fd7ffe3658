----------------------------- MODULE MagicScan ------------------------------
(***************************************************************************)
(* How commands of the Amiga reach the firmware (fw/msg.c). The Amiga      *)
(* reads ROM addresses that spell a magic, a length, a command, data and a *)
(* CRC. A DMA channel writes every address the Amiga reads to a ring, and  *)
(* raises an interrupt; process_addresses looks for the magic in the ring, *)
(* collects the command and executes it. Nearly all addresses are those of *)
(* ordinary ROM reads, and the DMA never waits for the scanner.            *)
(*                                                                         *)
(* The reply uses the same DMA channel: ks_reply stops the capture and     *)
(* starts it again at the beginning of the ring. The interrupt switches    *)
(* itself off when the ring has gone round twice since the main loop last  *)
(* came by, and the main loop switches it on again.                        *)
(*                                                                         *)
(* A word is a tuple: Noise, a word of the magic, or a word of a command.  *)
(* The CRC is perfect: its words belong to one command. Every command that *)
(* the Amiga sends is replied to: KS_CMD_NULL, which is not, is defined in *)
(* smash_cmd.h and sent by no program of the repository.                   *)
(***************************************************************************)
EXTENDS Integers, Sequences, FiniteSets, FiniteSetsExt

CONSTANTS
    Size,       \* words in the ring, ARRAY_SIZE(buffer_rxa_lo)
    MagicWords, \* words of the magic, ARRAY_SIZE(sm_magic)
    Wide,       \* the counters of the wraps are modulo Wide
    DataWords,  \* per command, in the order in which they are sent: its data
    Lengths,    \* what a word that is no length is taken for
    MaxAhead,   \* bound: words the DMA is ahead, with the interrupt enabled
    MaxTrouble  \* bound: reads of a magic address, resets of the Amiga in a
                \* command, and log commands of the console, together

ASSUME MagicScanAssumption ==
    /\ Size \in Nat \ {0} /\ Size % 2 = 0 /\ MagicWords \in Nat \ {0, 1}
    /\ Wide \in Nat \ {0, 1} /\ MaxTrouble \in Nat
    /\ DataWords \in Seq(Nat) /\ Lengths \subseteq Nat

\* A length that does not leave room in the ring is refused.
ASSUME LengthsFit ==
    /\ \A k \in DOMAIN DataWords : DataWords[k] + 4 <= Size
    /\ \A n \in Lengths : n + 4 <= Size

VARIABLES
    buf,        \* buffer_rxa_lo
    prod,       \* where the DMA writes next
    rx,         \* rx_consumer
    magic_pos,  \* the phase: as in the code, or Clobbering after the last
    len,        \* words of data still to come
    start,      \* cons_start
    cmd_len,    \* the length of the command, in words of data
    crc_hi,     \* the upper half of crc_rx
    cmd,        \* cmd, the command as it was read
    lapped,     \* a command is being collected, and since its length was read
                \* the DMA has overtaken the scanner, or the console has
                \* restarted the capture
    wrap, last, \* consumer_wrap, consumer_wrap_last_poll
    gate,       \* the interrupt is enabled
    pending,    \* TIM_SR: an address has been captured
    seen,       \* prod of process_addresses, None when it does not run
    at,         \* words of the command that the Amiga has sent, or Idle
    sent,       \* commands begun
    whole,      \* commands sent to the end
    waiting,    \* the Amiga is waiting for the reply to the last one
    clean,      \* nothing has come in the way of the last one
    cleared,    \* the statistics were cleared while the interrupt was off
    ran,        \* the commands executed: whose data, whether the command is
                \* that one's own, and lapped
    trouble

ring == <<buf, prod, pending>>
words == <<len, start, cmd_len, crc_hi, cmd>>
collected == <<words, lapped>>
scanner == <<rx, magic_pos, collected, seen>>
throttle == <<wrap, last, gate>>
amiga == <<at, sent, whole, waiting>>
history == <<cleared, ran, trouble>>
vars == <<ring, scanner, throttle, amiga, clean, history>>
-----------------------------------------------------------------------------
Noise == <<>>
Magic(i) == <<"magic", i>>
Word(k, i) == <<"word", k, i>>      \* word i of command k, after the magic

\* A command as send_cmd_core sends it: magic, length, command, data, CRC.
Words(k) == MagicWords + 2 + DataWords[k] + 2
WordAt(k, i) == IF i < MagicWords THEN Magic(i) ELSE Word(k, i - MagicWords)

Idle == -1
Clobbering == MagicWords + 5
None == -1
Running == seen # None
Collecting == magic_pos \in MagicWords + 1 .. MagicWords + 4
IsLength(w) == w # Noise /\ w[1] = "word" /\ w[3] = 0

\* The words between the scanner and the DMA
Unread == {i \in 0 .. Size - 1 : IF rx <= prod THEN rx <= i /\ i < prod
                                 ELSE i >= rx \/ i < prod}
\* Bounded, and before the last command, so that one follows it.
Troubled == /\ sent < Len(DataWords) /\ trouble < MaxTrouble
            /\ trouble' = trouble + 1
-----------------------------------------------------------------------------
\* The DMA: overtaken by it, the scanner sees an empty ring.
Capture(w) ==
    /\ buf' = [buf EXCEPT ![prod] = w]
    /\ prod' = (prod + 1) % Size
    /\ pending' = TRUE
    /\ gate /\ (pending \/ Running) => Cardinality(Unread) < MaxAhead

Read(w, undisturbed) ==
    /\ Capture(w)
    /\ clean' = (undisturbed /\ prod' # rx)
    /\ lapped' = (Collecting /\ (lapped \/ prod' = rx))
    /\ UNCHANGED <<rx, magic_pos, words, seen, throttle, cleared, ran>>

\* Any read of the ROM, while the Amiga waits for a reply too.
ReadRom == /\ at = Idle
           /\ Read(Noise, clean) /\ UNCHANGED <<amiga, trouble>>

\* A read of an address that is also the first word of the magic.
ReadMagic == /\ at = Idle /\ ~waiting /\ Troubled
             /\ Read(Magic(0), clean) /\ UNCHANGED amiga

\* send_cmd_core: it is undisturbed if all that the scanner has before it
\* is noise.
Begin ==
    /\ at = Idle /\ ~waiting /\ sent < Len(DataWords)
    /\ sent' = sent + 1 /\ at' = 1
    /\ Read(WordAt(sent + 1, 0),
            magic_pos = 0 /\ \A i \in Unread : buf[i] = Noise)
    /\ UNCHANGED <<whole, waiting, trouble>>

Send ==
    /\ at # Idle
    /\ Read(WordAt(sent, at), clean)
    /\ LET ends == at + 1 = Words(sent)
       IN /\ at' = IF ends THEN Idle ELSE at + 1
          /\ whole' = IF ends THEN whole \cup {sent} ELSE whole
          /\ waiting' = ends
    /\ UNCHANGED <<sent, trouble>>

\* The Amiga is reset in the middle of a command.
Cut ==
    /\ at # Idle /\ Troubled /\ at' = Idle
    /\ UNCHANGED <<ring, scanner, throttle, sent, whole, waiting, clean, cleared, ran>>

\* No magic of a reply in WAIT_FOR_MAGIC_LOOPS words
GiveUp ==
    /\ waiting /\ waiting' = FALSE
    /\ UNCHANGED <<ring, scanner, throttle, at, sent, whole, clean, history>>
-----------------------------------------------------------------------------
\* Faulty: the second word of a pair is not looked at.
FirstOfPair(i) == buf[i] = Magic(0) /\ buf[i + 1] = Magic(1)
EitherOfPair(i) == FirstOfPair(i) \/ buf[i + 1] = Magic(0)

\* fast_magic_search: two words at a time from an even place, up to the place
\* of prod or the end of the ring. "at" is rx_consumer before it is
\* incremented; "silent" when that takes it round the ring by way of -1.
fast_magic_search ==
    LET limit == IF seen > rx THEN seen ELSE Size
        hits == {i \in rx .. limit - 2 : (i - rx) % 2 = 0 /\ EitherOfPair(i)}
        hit == Min(hits)
    IN IF rx % 2 = 1
       THEN [at |-> rx, found |-> buf[rx] = Magic(0), silent |-> FALSE]
       ELSE IF hits # {}
       THEN [at |-> IF FirstOfPair(hit) THEN hit ELSE hit + 1,
             found |-> TRUE, silent |-> FALSE]
       ELSE IF (limit - rx) % 2 = 1
       THEN [at |-> limit - 1, found |-> buf[limit - 1] = Magic(0), silent |-> FALSE]
       ELSE [at |-> limit - 1, found |-> FALSE, silent |-> limit = Size]

\* The next word; the interrupt switches itself off when it spins. After a
\* reply consumer_wrap starts from 0 but last does not: the difference is
\* then negative, a large number.
\* Faulty: the ring is one word longer.
NextPlaceLate(i) == IF i = Size THEN 0 ELSE i + 1
NextPlace(i) == (i + 1) % Size
Advance(i, silent) ==
    /\ rx' = NextPlace(i)
    /\ IF i + 1 = Size /\ ~silent
       THEN /\ wrap' = (wrap + 1) % Wide
            /\ LET spins == (wrap' - last) % Wide > 1
               IN /\ gate' = (gate /\ ~spins)
                  /\ seen' = IF spins THEN None ELSE seen
       ELSE UNCHANGED <<wrap, gate, seen>>
    /\ UNCHANGED <<last, ring, amiga, clean, history>>
-----------------------------------------------------------------------------
\* tim5_isr
Enter ==
    /\ gate /\ pending /\ ~Running
    /\ pending' = FALSE /\ seen' = prod
    /\ UNCHANGED <<buf, prod, rx, magic_pos, collected, throttle, amiga, clean, history>>

\* All words up to prod are done: look at prod again, and return.
LooksAgain == seen' = (IF prod = seen THEN None ELSE prod) /\ UNCHANGED pending
CaughtUp ==
    /\ rx = seen /\ magic_pos # Clobbering
    /\ LooksAgain
    /\ UNCHANGED <<buf, prod, rx, magic_pos, collected, throttle, amiga, clean, history>>

Phase(p) == Running /\ rx # seen /\ magic_pos = p

Search ==
    /\ Phase(0)
    /\ magic_pos' = IF fast_magic_search.found THEN 1 ELSE 0
    /\ Advance(fast_magic_search.at, fast_magic_search.silent)
    /\ UNCHANGED collected

\* A word that does not match is not looked at again.
MatchMagic == \E p \in 1 .. MagicWords - 1 :
    /\ Phase(p)
    /\ magic_pos' = IF buf[rx] = Magic(p) THEN p + 1 ELSE 0
    /\ Advance(rx, FALSE) /\ UNCHANGED collected

LengthPhase ==
    /\ Phase(MagicWords)
    /\ start' = rx
    /\ \/ \E n \in IF IsLength(buf[rx]) THEN {DataWords[buf[rx][2]]} ELSE Lengths :
              cmd_len' = n /\ len' = n /\ magic_pos' = MagicWords + 1
       \/ /\ ~IsLength(buf[rx]) /\ magic_pos' = 0   \* BAD msg len
          /\ UNCHANGED <<cmd_len, len>>
    /\ Advance(rx, FALSE) /\ UNCHANGED <<crc_hi, cmd, lapped>>

CommandPhase ==
    /\ Phase(MagicWords + 1)
    /\ cmd' = buf[rx]
    /\ magic_pos' = MagicWords + (IF len = 0 THEN 3 ELSE 2)
    /\ Advance(rx, FALSE) /\ UNCHANGED <<len, start, cmd_len, crc_hi, lapped>>

DataPhase ==
    /\ Phase(MagicWords + 2)
    /\ len' = len - 1
    /\ magic_pos' = MagicWords + (IF len' = 0 THEN 3 ELSE 2)
    /\ Advance(rx, FALSE) /\ UNCHANGED <<start, cmd_len, crc_hi, cmd, lapped>>

CrcPhase ==
    /\ Phase(MagicWords + 3)
    /\ crc_hi' = buf[rx] /\ magic_pos' = MagicWords + 4
    /\ Advance(rx, FALSE) /\ UNCHANGED <<len, start, cmd_len, cmd, lapped>>

\* The CRC is that of command k over what the ring now holds.
Collected(i) == buf[(start + i) % Size]
Matches(k) ==
    /\ cmd_len = DataWords[k]
    /\ \A i \in 0 .. cmd_len + 1 : Collected(i) = Word(k, i)
    /\ crc_hi = Word(k, cmd_len + 2) /\ buf[rx] = Word(k, cmd_len + 3)
\* Faulty: the CRC is compared with that of the command word alone.
CommandIntact(k) == Collected(1) = Word(k, 1)
Intact(k) == Matches(k)

\* ks_reply: the capture starts from an empty ring, the interrupt is enabled.
Replies ==
    /\ rx' = 0 /\ prod' = 0 /\ wrap' = 0 /\ gate' = TRUE
    /\ waiting' = FALSE
    /\ clean' = (clean /\ at = Idle)
    /\ UNCHANGED <<last, pending, buf, at, sent, whole, cleared, trouble>>

\* The command is executed, or a wrong CRC is reported; both reply. The CRC
\* is over the ring, the command executed is the one read in its phase.
Execute ==
    /\ Phase(MagicWords + 4)
    /\ LET k == {c \in 1 .. sent : Intact(c)}
       IN ran' = IF k = {} THEN ran
                 ELSE Append(ran, [data |-> Max(k), own |-> cmd = Word(Max(k), 1),
                                   lapped |-> lapped])
    /\ magic_pos' = Clobbering /\ lapped' = FALSE
    /\ Replies
    /\ UNCHANGED <<words, seen>>

\* The last word of the magic is overwritten. The capture has gone on since
\* the reply: it may be a word of the next command. Then new_cmd.
Clobber ==
    /\ Running /\ magic_pos = Clobbering
    /\ LET c == (start - 1) % Size
       IN /\ buf' = [buf EXCEPT ![c] = Noise]
          /\ start' = c
          /\ clean' = (clean /\ ~(c \in Unread /\ buf[c] # Noise))
    /\ magic_pos' = 0 /\ seen' = prod
    /\ UNCHANGED <<prod, pending, rx, len, cmd_len, crc_hi, cmd, lapped, throttle, amiga,
                   history>>
-----------------------------------------------------------------------------
\* The main loop runs when the interrupt does not.

\* Faulty: it is enabled when the counter has grown, but a reply resets it.
Grown == wrap > last
Changed == wrap # last
\* msg_poll
Poll ==
    /\ ~Running /\ Changed
    /\ last' = wrap /\ gate' = TRUE
    /\ UNCHANGED <<ring, scanner, wrap, amiga, clean, history>>

\* "prom log stats" of the console
LogStats ==
    /\ ~Running /\ Troubled
    /\ wrap' = 0 /\ cleared' = (cleared \/ ~gate) /\ clean' = (clean /\ gate)
    /\ UNCHANGED <<ring, scanner, last, gate, amiga, ran>>

\* "prom log full": the capture starts again, the scanner stays in its phase.
LogFull ==
    /\ ~Running /\ Troubled
    /\ rx' = 0 /\ prod' = 0 /\ wrap' = 0 /\ gate' = TRUE /\ clean' = FALSE
    /\ lapped' = Collecting
    /\ UNCHANGED <<buf, pending, magic_pos, words, seen, last, amiga, cleared, ran>>
-----------------------------------------------------------------------------
Init ==
    /\ buf = [i \in 0 .. Size - 1 |-> Noise] /\ prod = 0 /\ pending = FALSE
    /\ rx = 0 /\ magic_pos = 0 /\ seen = None
    /\ len = 0 /\ start = 0 /\ cmd_len = 0 /\ crc_hi = Noise
    /\ cmd = Noise /\ lapped = FALSE
    /\ wrap = 0 /\ last = 0 /\ gate = TRUE
    /\ at = Idle /\ sent = 0 /\ whole = {} /\ waiting = FALSE
    /\ clean = FALSE /\ cleared = FALSE /\ ran = <<>> /\ trouble = 0

Isr == Enter \/ CaughtUp \/ Search \/ MatchMagic \/ LengthPhase \/ CommandPhase
        \/ DataPhase \/ CrcPhase \/ Execute \/ Clobber
Amiga == ReadRom \/ ReadMagic \/ Begin \/ Send \/ Cut \/ GiveUp
Next == Isr \/ Amiga \/ Poll \/ LogStats \/ LogFull
Spec == Init /\ [][Next]_vars

\* The interrupt runs to its end, the main loop goes round, and the Amiga
\* does not stop in the middle of a command and reads the ROM while it waits.
FairSpec == Spec /\ WF_vars(Isr) /\ SF_vars(Poll) /\ WF_vars(Send)
                 /\ WF_vars(waiting /\ ReadRom)
-----------------------------------------------------------------------------
Places == 0 .. Size - 1
TypeOK ==
    /\ DOMAIN buf = Places /\ prod \in Places /\ pending \in BOOLEAN
    /\ rx \in Places /\ seen \in -1 .. Size - 1
    /\ magic_pos \in 0 .. Clobbering
    /\ start \in Places /\ len \in Nat /\ cmd_len \in Nat
    /\ wrap \in 0 .. Wide - 1 /\ last \in 0 .. Wide - 1
    /\ gate \in BOOLEAN /\ (Running => gate)
    /\ sent \in 0 .. Len(DataWords) /\ whole \subseteq 1 .. sent
    /\ at # Idle => sent > 0 /\ at \in 1 .. Words(sent) - 1 /\ sent \notin whole
    /\ waiting \in BOOLEAN /\ clean \in BOOLEAN /\ cleared \in BOOLEAN
    /\ trouble \in Nat /\ lapped \in BOOLEAN
    /\ ran \in Seq([data : Nat, own : BOOLEAN, lapped : BOOLEAN])

\* What is executed has the length and the data of a command that the Amiga
\* has sent to the end, in the order in which it was sent and not twice,
\* although the ring still holds old commands, the DMA overtakes the scanner,
\* and commands are cut off. The command itself, which the scanner keeps while
\* the CRC is taken over the ring, is that one's too, unless the DMA has
\* overtaken the scanner or the capture was restarted since the length was read.
ExecutesSent ==
    /\ \A i \in DOMAIN ran : ran[i].data \in whole /\ (ran[i].own \/ ran[i].lapped)
    /\ \A i, j \in DOMAIN ran : i < j => ran[i].data < ran[j].data

\* A program that waits for the reply gets one, wherever in the ring and next to
\* whatever noise its command begins, unless the magic had begun before, the
\* ring was overrun or restarted, or its words were overwritten.
CleanAnswered == (waiting /\ clean) ~> ~(waiting /\ clean)

\* The interrupt that switched itself off is enabled again, unless
\* the statistics were cleared in between.
GateReopens == ~gate ~> (gate \/ cleared)
=============================================================================
