-------------------------- MODULE BankSwitch_proofs --------------------------
(***************************************************************************)
(* What holds of the banks, the forced address lines and the reset line    *)
(* for every set of banks, ranges and sequences that commands name, for    *)
(* every length of the resets and every number of commands.                *)
(*                                                                         *)
(* The types alone are not inductive for what is wanted: that a long reset *)
(* is a real one rests on how far the armed timer can be behind the time   *)
(* the line has been low (TimerInv); that the Amiga boots from the current *)
(* bank on what the poll has already done when the line rises (BootInv);   *)
(* and that smash writes its bank on who may change the lines while it     *)
(* runs (SmashInv).                                                        *)
(***************************************************************************)
EXTENDS BankSwitch, TLAPS

\* The long reset timer runs towards a long reset.
Armed == kb.ltimer >= 0

\* An armed timer is never ahead of the line; it is armed only after a poll
\* that saw the line low, and it is disarmed before anything else can happen
\* once the line is high.
TimerInv ==
    /\ Armed => kb.seen = 0 /\ longs = 0
    /\ Armed /\ ~Running => low + kb.ltimer >= LongTime
    /\ polled /\ Running => ~Armed
    /\ longs > 0 => longs = 1 /\ low >= LongTime /\ kb.seen = 0 /\ ~Running

\* The override is what the last ee_set_bank was to force; it need not be after
\* a use of the flash, or for a block of four or eight banks.
LastSet(r) == r.read \/ 1 \notin r.set.mask \/ r.last = r.set

\* The poll has seen the line as it is, unless it is still to run, and has
\* then set the current bank; the first poll runs before any command.
BootInv ==
    /\ polled => kb.seen # None /\ (kb.seen = 0 <=> ~Running)
    /\ kb.seen = 1 /\ line.driven => kb.rtimer # 0
    /\ kb.seen = None => console.pc = "idle"
    /\ kb.seen # 1 /\ console.pc = "idle" => LastSet(rom) /\ rom.set.bank = bi.current
    /\ kb.seen # 1 /\ console.pc # "idle" => console.bits = BitsOf(console.bits.bank)
    /\ kb.seen # 1 /\ console.pc = "record" =>
            NoOverride(bi.merge[console.bits.bank].add) \/ rom.last = console.bits

\* smash runs only while the Amiga does, and unless the console came in
\* between, the bank it has set is the one whose lines are forced.
SmashInv ==
    /\ prog.pc # "none" => Running /\ kb.seen = 1
    /\ prog.pc = "temp" => prog.op \in {"read", "erase"} \/ (prog.op = "write" /\ prog.set)
    /\ prog.pc = "temp" /\ prog.set /\ ~prog.disturbed
            => console.pc = "idle" /\ rom.last = Forced(prog.bank, Lines)
    /\ access.excused \/ access.hit \subseteq {access.bank}

IInv == TypeOK /\ TimerInv /\ BootInv /\ SmashInv

-----------------------------------------------------------------------------
(* The forced lines.                                                       *)

\* Two banks with the same three address bits are one bank.
LEMMA BitsDiffer ==
    ASSUME NEW b \in Banks, NEW c \in Banks, \A i \in Lines : Bit(b, i) = Bit(c, i)
    PROVE  b = c
BY DEF Banks, Lines, Bit

\* What is driven on a line.
LEMMA BitType ==
    ASSUME NEW b \in Banks, NEW i \in Lines
    PROVE  Bit(b, i) \in {0, 1}
BY DEF Banks, Lines, Bit

LEMMA LevelType ==
    ASSUME NEW bits \in Forces, NEW i \in Lines
    PROVE  Level(bits, i) \in {Z, 0, 1}
BY BitType DEF Level, Forces

LEMMA ForcedType ==
    ASSUME NEW b \in Banks, NEW mask \in SUBSET Lines
    PROVE  Forced(b, mask) \in Forces
BY DEF Forced, Forces

\* An override forces what it is asked to, unless it takes the lines to be so
\* already.
LEMMA OverrideForces ==
    ASSUME NEW r \in Roms, NEW bits \in Forces
    PROVE  /\ Override(r, bits) \in Roms
           /\ Override(r, bits).last = bits
           /\ Override(r, bits).set = r.set
           /\ Override(r, bits).read = r.read
           /\ Override(r, bits).enabled = r.enabled
<1>1. CASE bits = r.last
  BY <1>1 DEF Override
<1>2. CASE bits # r.last
  <2>1. [i \in Lines |-> Level(bits, i)] \in [Lines -> {Z, 0, 1}]
    BY LevelType
  <2> QED BY <1>2, <2>1 DEF Override, Roms
<1> QED BY <1>1, <1>2

LEMMA ReapplyForces ==
    ASSUME NEW r \in Roms
    PROVE  /\ Reapply(r) \in Roms
           /\ Reapply(r).last = r.last
           /\ Reapply(r).set = r.set
           /\ Reapply(r).read = r.read
<1>1. r.last \in Forces
  BY DEF Roms
<1>2. [i \in Lines |-> Level(r.last, i)] \in [Lines -> {Z, 0, 1}]
  BY <1>1, LevelType
<1> QED BY <1>2 DEF Reapply, Roms

LEMMA BitsOfType ==
    ASSUME NEW b \in Banks
    PROVE  BitsOf(b) \in Forces /\ BitsOf(b).bank = b
<1>1. Mask(bi.merge[b].add) \in SUBSET Lines
  BY DEF Mask, Lines
<1> QED BY <1>1, ForcedType DEF BitsOf, Forced

\* For a block of one or two banks ee_set_bank forces what it is to force.
LEMMA WantedBits ==
    ASSUME NEW b \in Banks, bi \in Infos
    PROVE  /\ Wanted(b) \in Forces /\ Wanted(b).bank = b
           /\ 1 \in Wanted(b).mask =>
                ~NoOverride(bi.merge[b].add) /\ Wanted(b) = BitsOf(b)
<1> DEFINE add == bi.merge[b].add
           m == {i \in Lines : 2 ^ i > add}
<1>1. add \in {0, 1, 3, 7}
  BY DEF Infos, Block
<1>2. Wanted(b) = Forced(b, m) /\ m \in SUBSET Lines
  BY DEF Wanted
<1>3. Wanted(b) \in Forces /\ Wanted(b).bank = b /\ Wanted(b).mask = m
  BY <1>2, ForcedType DEF Forced
<1>4. BitsOf(b) = Forced(b, Mask(add))
  BY DEF BitsOf
<1> HIDE DEF add
<1>5. 2 ^ 0 = 1 /\ 2 ^ 1 = 2 /\ 2 ^ 2 = 4 /\ Lines = {0, 1, 2}
  BY DEF Lines
<1>6. CASE add = 0
  <2>1. m = Mask(add)
    <3>1. \A i \in Lines : 2 ^ i > add
      <4> SUFFICES ASSUME NEW i \in Lines PROVE 2 ^ i > 0
        BY <1>6
      <4>1. (i = 0 /\ 2 ^ i = 1) \/ (i = 1 /\ 2 ^ i = 2) \/ (i = 2 /\ 2 ^ i = 4)
        <5>1. i = 0 \/ i = 1 \/ i = 2
          BY <1>5
        <5> QED BY <1>5, <5>1, Zenon
      <4> QED BY <4>1
    <3> QED BY <1>5, <1>6, <3>1 DEF Mask
  <2> QED BY <1>2, <1>3, <1>4, <1>6, <2>1 DEF NoOverride, add
<1>7. CASE add = 1
  <2>1. m = Mask(add)
    <3>1. \A i \in Lines : 2 ^ i > add <=> i \in {1, 2}
      <4> SUFFICES ASSUME NEW i \in Lines PROVE 2 ^ i > 1 <=> i \in {1, 2}
        BY <1>7
      <4>1. (i = 0 /\ 2 ^ i = 1) \/ (i = 1 /\ 2 ^ i = 2) \/ (i = 2 /\ 2 ^ i = 4)
        <5>1. i = 0 \/ i = 1 \/ i = 2
          BY <1>5
        <5> QED BY <1>5, <5>1, Zenon
      <4> QED BY <4>1
    <3> QED BY <1>5, <1>7, <3>1 DEF Mask
  <2> QED BY <1>2, <1>3, <1>4, <1>7, <2>1 DEF NoOverride, add
<1>8. CASE add \in {3, 7}
  <2>1. 1 \notin m
    BY <1>5, <1>8 DEF Lines
  <2> QED BY <1>3, <2>1
<1> QED BY <1>1, <1>6, <1>7, <1>8

\* What setting a bank leaves behind.
LEMMA SetBankForces ==
    ASSUME NEW r \in Roms, NEW b \in Banks, bi \in Infos
    PROVE  /\ SetBankRom(r, b) \in Roms
           /\ LastSet(SetBankRom(r, b)) /\ SetBankRom(r, b).set.bank = b
<1> DEFINE no == NoOverride(bi.merge[b].add)
           o == IF no THEN r ELSE Override(r, BitsOf(b))
           w == Wanted(b)
<1>1. /\ o \in Roms
      /\ ~no => o.last = BitsOf(b)
  BY BitsOfType, OverrideForces DEF NoOverride
<1>2. SetBankRom(r, b) = [o EXCEPT !.set = w, !.read = FALSE]
  BY DEF SetBankRom, IsSet
<1>3. /\ w \in Forces /\ w.bank = b
      /\ 1 \in w.mask => ~no /\ w = BitsOf(b)
  BY WantedBits
<1> HIDE DEF o, no, w
<1>4. /\ SetBankRom(r, b) \in Roms
      /\ SetBankRom(r, b).set = w
      /\ SetBankRom(r, b).last = o.last
  BY <1>1, <1>2, <1>3 DEF Roms
<1> QED BY <1>1, <1>3, <1>4 DEF LastSet

LEMMA AllForcedVisible ==
    ASSUME TypeOK, ~Mixed, NEW b \in Banks, rom.last = Forced(b, Lines)
    PROVE  Visible \subseteq {b}
<1>1. ASSUME NEW i \in Lines
      PROVE  rom.pins[i] = Bit(b, i) /\ rom.pins[i] # Z
  <2>1. rom.pins[i] = Level(Forced(b, Lines), i)
    BY DEF Mixed
  <2> QED BY <2>1, BitType DEF Level, Forced, Z
<1>2. ASSUME NEW c \in Visible
      PROVE  c = b
  <2>1. c \in Banks /\ \A i \in Lines : Bit(b, i) = Bit(c, i)
    BY <1>1, <1>2 DEF Visible
  <2> QED BY <2>1, BitsDiffer
<1> QED BY <1>2

-----------------------------------------------------------------------------
(* The bank of a long reset.                                               *)

\* A set of banks that is not empty has a least one.
LEMMA LeastBank ==
    ASSUME NEW S \in SUBSET Banks, S # {}
    PROVE  Min(S) \in S /\ Min(S) \in Banks
<1>1. \E x \in S : \A y \in S : x <= y
  <2>1. CASE 0 \in S
    BY <2>1 DEF Banks
  <2>2. CASE 0 \notin S /\ 1 \in S
    BY <2>2 DEF Banks
  <2>3. CASE 0 \notin S /\ 1 \notin S /\ 2 \in S
    BY <2>3 DEF Banks
  <2>4. CASE 0 \notin S /\ 1 \notin S /\ 2 \notin S /\ 3 \in S
    BY <2>4 DEF Banks
  <2>5. CASE S \subseteq 4 .. 7 /\ 4 \in S
    BY <2>5 DEF Banks
  <2>6. CASE S \subseteq 5 .. 7 /\ 5 \in S
    BY <2>6 DEF Banks
  <2>7. CASE S \subseteq 6 .. 7 /\ 6 \in S
    BY <2>7 DEF Banks
  <2>8. CASE S \subseteq {7}
    <3>1. 7 \in S
      BY <2>8
    <3> QED BY <2>8, <3>1
  <2> QED BY <2>1, <2>2, <2>3, <2>4, <2>5, <2>6, <2>7, <2>8 DEF Banks
<1> QED BY <1>1 DEF Min

LEMMA LongResetBankType ==
    ASSUME TypeOK
    PROVE  LongResetBank \in Banks
<1> DEFINE found == {p \in Banks : bi.seq[p] = bi.current}
           next == IF found = {} THEN 8 ELSE Min(found) + 1
           first == IF next = 8 THEN TRUE ELSE bi.seq[next] = None
           bank == bi.seq[IF first THEN 0 ELSE next]
<1>1. next \in 0 .. 8
  BY LeastBank DEF Banks
<1>2. (IF first THEN 0 ELSE next) \in Banks
  BY <1>1 DEF Banks
<1>3. bi.seq \in [Banks -> BankOrNone] /\ bi.poweron \in Banks
  BY DEF TypeOK, Infos
<1>4. bank \in BankOrNone
  BY <1>2, <1>3
<1> HIDE DEF bank
<1>5. LongResetBank = IF bank = None THEN bi.poweron ELSE bank
  BY DEF LongResetBank, bank
<1> QED BY <1>3, <1>4, <1>5 DEF BankOrNone

-----------------------------------------------------------------------------
(* Types: what each operator leaves behind.                                *)

LEMMA EEType ==
    ASSUME TypeOK, NEW b \in Banks, ee_set_bank(b)
    PROVE  /\ bi' \in Infos /\ \A c \in Banks : Aligned(c, bi'.merge[c])
           /\ rom' \in Roms
           /\ bi'.current = b
           /\ LastSet(rom') /\ rom'.set.bank = b
<1>1. bi' \in Infos /\ bi'.merge = bi.merge /\ bi'.current = b
  BY DEF TypeOK, ee_set_bank, SetBankInfo, Infos, BankOrNone
<1> QED BY <1>1, SetBankForces DEF TypeOK, ee_set_bank

LEMMA BecomesType ==
    ASSUME TypeOK, NEW l \in LinesOfReset, Becomes(l)
    PROVE  /\ line' \in LinesOfReset /\ prog' \in Progs
           /\ low' \in 0 .. LongTime /\ longs' \in Nat
<1>1. NoProg \in Progs
  BY DEF NoProg, Progs, Banks
<1> QED BY <1>1, TimeAssumption DEF Becomes, TypeOK

LEMMA KbrstType ==
    ASSUME TypeOK, NEW hold \in BOOLEAN, NEW long \in BOOLEAN, kbrst_amiga(hold, long)
    PROVE  /\ line' \in LinesOfReset /\ prog' \in Progs
           /\ low' \in 0 .. LongTime /\ longs' \in Nat
           /\ kb' \in Timers
           /\ kb'.seen = kb.seen /\ kb'.rtimer # 0 /\ kb'.ltimer \in {Off, Never}
<1>1. [line EXCEPT !.driven = TRUE] \in LinesOfReset
  BY DEF TypeOK, LinesOfReset
<1>2. /\ kb' \in Timers
      /\ kb'.seen = kb.seen /\ kb'.rtimer # 0 /\ kb'.ltimer \in {Off, Never}
  <2> DEFINE r == IF hold THEN Off ELSE IF long THEN LongPulse ELSE ResetTime
             t == IF hold THEN Never ELSE Off
  <2>1. r \in {Off} \cup 0 .. LongPulse /\ r # 0
    BY TimeAssumption DEF Off
  <2>2. t \in {Off, Never} \cup 0 .. LongTime /\ t \in {Off, Never}
    OBVIOUS
  <2>3. kb' = [kb EXCEPT !.rtimer = r, !.ltimer = t]
    BY DEF kbrst_amiga
  <2> HIDE DEF r, t
  <2> QED BY <2>1, <2>2, <2>3 DEF TypeOK, Timers
<1> QED BY <1>1, <1>2, BecomesType DEF kbrst_amiga

\* The line and the timers as kbrst_poll leaves them when it has only looked
\* at the end of a reset of its own.
LEMMA AtPollType ==
    ASSUME TypeOK
    PROVE  /\ AtPoll \in LinesOfReset
           /\ LineLow(AtPoll) => ~Running
           /\ KbAtPoll \in Timers
           /\ KbAtPoll.seen = kb.seen /\ KbAtPoll.ltimer = kb.ltimer
           /\ KbAtPoll.rtimer # 0
           /\ AtPoll # line => kb.rtimer = 0 /\ ~AtPoll.driven
           /\ AtPoll.driven => line.driven
<1>1. kb \in Timers /\ line \in LinesOfReset
  BY DEF TypeOK
<1>2. CASE kb.rtimer = 0
  <2>1. /\ AtPoll = [line EXCEPT !.driven = FALSE]
        /\ KbAtPoll = [kb EXCEPT !.rtimer = Off]
    BY <1>2 DEF AtPoll, KbAtPoll
  <2>2. /\ KbAtPoll \in Timers /\ KbAtPoll.rtimer # 0
        /\ KbAtPoll.seen = kb.seen /\ KbAtPoll.ltimer = kb.ltimer
    BY <1>1, <2>1 DEF Timers, Off
  <2>3. /\ AtPoll \in LinesOfReset
        /\ AtPoll.driven = FALSE /\ AtPoll.key = line.key /\ AtPoll.power = line.power
    BY <1>1, <2>1 DEF LinesOfReset
  <2>4. LineLow(AtPoll) => ~Running
    BY <2>3 DEF LineLow, Running
  <2> QED BY <1>2, <2>2, <2>3, <2>4
<1>3. CASE kb.rtimer # 0
  <2>1. AtPoll = line /\ KbAtPoll = kb
    BY <1>3 DEF AtPoll, KbAtPoll
  <2> QED BY <1>1, <1>3, <2>1 DEF Running
<1> QED BY <1>2, <1>3

LEMMA MergeType ==
    ASSUME TypeOK, NEW s \in Banks, NEW e \in Banks, RangeOK(s, e),
           NEW unmerge \in BOOLEAN, Merge(s, e, unmerge)
    PROVE  /\ bi' \in Infos /\ \A c \in Banks : Aligned(c, bi'.merge[c])
           /\ bi'.current = bi.current
<1> DEFINE m == [b \in Banks |->
                    IF b \notin s .. e THEN bi.merge[b]
                    ELSE IF unmerge THEN Unmerged ELSE [add |-> e - s, sub |-> b - s]]
<1>1. bi \in Infos /\ bi.merge \in [Banks -> Block]
      /\ \A b \in Banks : Aligned(b, bi.merge[b])
  BY DEF TypeOK, Infos
<1>2. ASSUME NEW b \in Banks
      PROVE  m[b] \in Block /\ Aligned(b, m[b])
  <2>1. CASE b \notin s .. e
    BY <1>1, <2>1
  <2>2. CASE b \in s .. e /\ unmerge
    BY <2>2 DEF Unmerged, Block, Aligned, Banks
  <2>3. CASE b \in s .. e /\ ~unmerge
    <3>1. m[b] = [add |-> e - s, sub |-> b - s]
      BY <2>3
    <3>2. /\ e - s \in {0, 1, 3, 7} /\ b - s \in Banks /\ b - s <= e - s
          /\ b - (b - s) = s /\ s % (e - s + 1) = 0
      BY <2>3 DEF RangeOK, Banks
    <3> QED BY <3>1, <3>2 DEF Block, Aligned
  <2> QED BY <2>1, <2>2, <2>3
<1>3. bi' = [bi EXCEPT !.merge = m]
  BY DEF Merge
<1>4. m \in [Banks -> Block]
  BY <1>2
<1> HIDE DEF m
<1>5. bi' \in Infos /\ bi'.merge = m /\ bi'.current = bi.current
  BY <1>1, <1>3, <1>4 DEF Infos
<1> QED BY <1>2, <1>5

-----------------------------------------------------------------------------
(* Type correctness.                                                       *)

LEMMA InitType == Init => TypeOK
<1> SUFFICES ASSUME Init PROVE TypeOK
  OBVIOUS
<1>1. bi \in Infos /\ \A b \in Banks : Aligned(b, bi.merge[b])
  BY DEF Init, Infos, BankOrNone, Block, Unmerged, Aligned, Banks
<1>2. Forced(0, Lines) \in Forces
  BY DEF Forced, Forces, Banks
<1>3. rom \in Roms /\ console \in Consoles
  BY <1>2 DEF Init, Roms, Consoles, Lines, Z
<1>4. line \in LinesOfReset /\ kb \in Timers
  BY DEF Init, LinesOfReset, Timers, None
<1>5. prog \in Progs /\ access \in Accesses
  BY DEF Init, NoProg, Progs, Accesses, Banks
<1>6. low = 0 /\ longs = 0 /\ commands = 0 /\ polled \in BOOLEAN
  BY DEF Init
<1>7. 0 \in 0 .. LongTime /\ 0 \in Nat
  BY TimeAssumption
<1> QED BY <1>1, <1>3, <1>4, <1>5, <1>6, <1>7 DEF TypeOK

LEMMA PollTypes == TypeOK /\ Poll => TypeOK'
<1> SUFFICES ASSUME TypeOK, Poll PROVE TypeOK'
  OBVIOUS
<1>1. /\ AtPoll \in LinesOfReset /\ KbAtPoll \in Timers
      /\ kb \in Timers /\ longs \in Nat /\ LongTime \in 0 .. LongTime
  BY AtPollType, TimeAssumption DEF TypeOK
<1>2. Polls => /\ line' \in LinesOfReset /\ prog' \in Progs
               /\ low' \in 0 .. LongTime /\ longs' \in Nat
               /\ console' = console /\ access' = access /\ commands' = commands
               /\ polled' \in BOOLEAN
  BY <1>1, BecomesType DEF Polls
<1>3. CASE PollFirst
  <2>1. kb' \in Timers
    BY <1>1, <1>3 DEF PollFirst, Timers
  <2> QED BY <1>2, <1>3, <2>1 DEF PollFirst, TypeOK
<1>4. CASE PollFalls
  <2>1. kb' \in Timers
    BY <1>1, <1>4 DEF PollFalls, Timers
  <2>2. bi.current \in Banks /\ (bi.nextreset # None => bi.nextreset \in Banks)
    BY DEF TypeOK, Infos, BankOrNone
  <2>3. /\ bi' \in Infos /\ \A c \in Banks : Aligned(c, bi'.merge[c])
        /\ rom' \in Roms
    BY <1>4, <2>2, EEType DEF PollFalls, ee_update_bank_at_reset
  <2> QED BY <1>2, <1>4, <2>1, <2>3 DEF PollFalls, TypeOK
<1>5. CASE PollRises
  <2>1. kb' \in Timers
    BY <1>1, <1>5 DEF PollRises, Timers, Disarmed
  <2> QED BY <1>2, <1>5, <2>1 DEF PollRises, TypeOK
<1>6. CASE PollSame
  <2>1. kb' \in Timers
    BY <1>1, <1>6 DEF PollSame, Timers
  <2> QED BY <1>2, <1>6, <2>1 DEF PollSame, TypeOK
<1>7. CASE PollHeld
  <2>1. kb' \in Timers
    BY <1>1, <1>7 DEF PollHeld, Timers, TypeOK, LinesOfReset
  <2>2. bi.poweron \in Banks /\ LongResetBank \in Banks
    BY LongResetBankType DEF TypeOK, Infos
  <2>3. /\ bi' \in Infos /\ \A c \in Banks : Aligned(c, bi'.merge[c])
        /\ rom' \in Roms
    BY <1>7, <2>2, EEType DEF PollHeld
  <2> QED BY <1>1, <1>7, <2>1, <2>3 DEF PollHeld, TypeOK
<1> QED BY <1>3, <1>4, <1>5, <1>6, <1>7 DEF Poll

LEMMA TickType == TypeOK /\ Tick => TypeOK'
<1> SUFFICES ASSUME TypeOK, Tick PROVE TypeOK'
  OBVIOUS
<1>1. /\ Elapse(kb.rtimer) \in {Off} \cup 0 .. LongPulse
      /\ Elapse(kb.ltimer) \in {Off, Never} \cup 0 .. LongTime
  BY TimeAssumption DEF TypeOK, Timers, Elapse, Off, Never
<1>2. kb' \in Timers
  BY <1>1 DEF Tick, TypeOK, Timers
<1>3. low' \in 0 .. LongTime
  BY TimeAssumption DEF Tick, TypeOK, Min
<1> QED BY <1>2, <1>3 DEF Tick, TypeOK

LEMMA EnvironmentType == TypeOK /\ (Key \/ Power) => TypeOK'
<1> SUFFICES ASSUME TypeOK, Key \/ Power PROVE TypeOK'
  OBVIOUS
<1>1. PICK l \in LinesOfReset : Environment(l)
  BY DEF Key, Power, TypeOK, LinesOfReset
<1> QED BY <1>1, BecomesType DEF Environment, TypeOK

LEMMA AmigaType == TypeOK /\ Amiga => TypeOK'
<1> SUFFICES ASSUME TypeOK, Amiga PROVE TypeOK'
  OBVIOUS
<1> USE BankAssumption
<1>1. ASSUME NEW reboot \in BOOLEAN, Reboots(reboot)
      PROVE  /\ line' \in LinesOfReset /\ kb' \in Timers /\ prog' \in Progs
             /\ low' \in 0 .. LongTime /\ longs' \in Nat /\ polled' \in BOOLEAN
  BY <1>1, KbrstType DEF Reboots, TypeOK
<1>2. AmigaCommand => commands' \in Nat /\ console' = console /\ access' = access
  BY DEF AmigaCommand, Command, TypeOK
<1>3. CASE BankSetCurrent
  <2>1. PICK b \in SomeBanks, reboot \in BOOLEAN :
               AmigaCommand /\ Reboots(reboot) /\ ee_set_bank(b)
    BY <1>3 DEF BankSetCurrent
  <2> QED BY <1>1, <1>2, <2>1, EEType DEF TypeOK
<1>4. CASE BankSetReset \/ BankSetPoweron
  <2>1. PICK b \in SomeBanks, reboot \in BOOLEAN :
               /\ AmigaCommand /\ Reboots(reboot) /\ UNCHANGED rom
               /\ \/ bi' = [bi EXCEPT !.nextreset = b]
                  \/ bi' = [bi EXCEPT !.poweron = b]
    BY <1>4 DEF BankSetReset, BankSetPoweron
  <2>2. bi' \in Infos /\ bi'.merge = bi.merge
    BY <2>1 DEF TypeOK, Infos, BankOrNone
  <2> QED BY <1>1, <1>2, <2>1, <2>2 DEF TypeOK
<1>5. CASE BankMerge
  <2>1. PICK r \in Ranges, unmerge \in BOOLEAN :
               /\ AmigaCommand
               /\ RangeOK(r[1], r[2])
               /\ Merge(r[1], r[2], unmerge)
               /\ UNCHANGED <<rom, line, kb, prog, low, longs, polled>>
    BY <1>5 DEF BankMerge
  <2>2. r[1] \in Banks /\ r[2] \in Banks
    BY RangeAssumption
  <2> QED BY <1>2, <2>1, <2>2, MergeType DEF TypeOK
<1>6. CASE BankLreset
  <2>1. PICK q \in LongSequences :
               /\ AmigaCommand /\ bi' = [bi EXCEPT !.seq = q]
               /\ UNCHANGED <<rom, line, kb, prog, low, longs, polled>>
    BY <1>6 DEF BankLreset
  <2>2. bi' \in Infos /\ bi'.merge = bi.merge
    BY <2>1, SequenceAssumption DEF TypeOK, Infos, BankOrNone
  <2> QED BY <1>2, <2>1, <2>2 DEF TypeOK
<1>7. CASE SmashStart
  <2>1. PICK b \in SomeBanks, op \in {"read", "write", "erase"}, ok, ran \in BOOLEAN :
               /\ Free /\ Command
               /\ ok => ran
               /\ rom' = IF ran THEN SetTemp(b) ELSE rom
               /\ prog' = [NoProg EXCEPT !.op = op, !.bank = b, !.set = ok,
                               !.disturbed = console.pc # "idle",
                               !.pc = IF op = "write" /\ ~ok THEN "done" ELSE "temp"]
               /\ UNCHANGED <<bi, access>> /\ SmashUnchanged
    BY <1>7, Zenon DEF SmashStart
  <2>2. SetTemp(b) \in Roms
    BY ForcedType, OverrideForces DEF SetTemp, TypeOK
  <2>3. prog' \in Progs
    BY <2>1 DEF NoProg, Progs
  <2> QED BY <2>1, <2>2, <2>3 DEF TypeOK, SmashUnchanged, Command
<1>8. CASE SmashAccess
  <2>1. prog' \in Progs
    BY <1>8 DEF SmashAccess, TypeOK, Progs
  <2>2. access' \in Accesses
    BY <1>8 DEF SmashAccess, TypeOK, Accesses, Progs, Visible, Mixed
  <2> QED BY <1>8, <2>1, <2>2 DEF SmashAccess, SmashUnchanged, TypeOK
<1>9. CASE SmashEnd
  <2>1. prog' \in Progs
    BY <1>9 DEF SmashEnd, NoProg, Progs, Banks
  <2>2. bi.current \in Banks
    BY DEF TypeOK, Infos
  <2>3. /\ bi' \in Infos /\ \A c \in Banks : Aligned(c, bi'.merge[c])
        /\ rom' \in Roms
    BY <1>9, <2>2, EEType DEF SmashEnd, TypeOK
  <2> QED BY <1>9, <2>1, <2>3 DEF SmashEnd, SmashUnchanged, TypeOK
<1> QED BY <1>3, <1>4, <1>5, <1>6, <1>7, <1>8, <1>9 DEF Amiga

LEMMA ConsoleType == TypeOK /\ Console => TypeOK'
<1> SUFFICES ASSUME TypeOK, Console PROVE TypeOK'
  OBVIOUS
<1> USE BankAssumption
<1>1. ConsoleCommand => commands' \in Nat /\ access' = access
  BY DEF ConsoleCommand, Command, TypeOK
<1>2. Disturbs => prog' \in Progs
  BY DEF Disturbs, TypeOK, Progs
<1>3. KeepReset => /\ line' \in LinesOfReset /\ kb' \in Timers
                   /\ low' \in 0 .. LongTime /\ longs' \in Nat
  BY DEF KeepReset, TypeOK
<1>4. rom \in Roms /\ rom.last \in Forces /\ bi \in Infos /\ console \in Consoles
  BY DEF TypeOK, Roms
<1>5. CASE PromBankCurrent
  <2>1. PICK b \in SomeBanks :
               /\ console' = [pc |-> IF NoOverride(bi.merge[b].add) \/ BitsOf(b) = rom.last
                                     THEN "record" ELSE "pins",
                              bits |-> BitsOf(b), i |-> 0]
               /\ rom' = rom
    BY <1>5 DEF PromBankCurrent
  <2>2. rom' \in Roms
    BY <1>4, <2>1
  <2>3. console' \in Consoles
    BY <2>1, BitsOfType DEF Consoles, Lines
  <2> QED BY <1>1, <1>2, <1>3, <1>5, <2>2, <2>3 DEF PromBankCurrent, TypeOK
<1>6. CASE ConsolePin
  <2>1. console.i \in Lines /\ console.bits \in Forces
    BY <1>4 DEF Consoles
  <2>2. Level(console.bits, console.i) \in {Z, 0, 1}
    BY <2>1, LevelType
  <2>3. rom' \in Roms
    BY <1>4, <1>6, <2>1, <2>2 DEF ConsolePin, Roms
  <2>4. console' \in Consoles
    BY <1>4, <1>6, <2>1 DEF ConsolePin, Consoles, Lines
  <2> QED BY <1>2, <1>3, <1>6, <2>3, <2>4 DEF ConsolePin, TypeOK
<1>7. CASE ConsoleLast
  <2>1. rom' \in Roms /\ console' \in Consoles
    BY <1>4, <1>7 DEF ConsoleLast, Roms, Consoles
  <2> QED BY <1>2, <1>3, <1>7, <2>1 DEF ConsoleLast, TypeOK
<1>8. CASE ConsoleRecord
  <2>1. console.bits.bank \in Banks
    BY <1>4 DEF Consoles, Forces
  <2>2. bi' \in Infos /\ bi'.merge = bi.merge
    BY <1>4, <1>8, <2>1 DEF ConsoleRecord, SetBankInfo, Infos, BankOrNone
  <2>3. console' \in Consoles
    BY <1>4, <1>8 DEF ConsoleRecord, Consoles
  <2>4. Wanted(console.bits.bank) \in Forces
    BY <1>4, <2>1, WantedBits
  <2>5. rom' \in Roms
    BY <1>4, <1>8, <2>4 DEF ConsoleRecord, IsSet, Roms
  <2> QED BY <1>2, <1>3, <1>8, <2>2, <2>3, <2>5 DEF ConsoleRecord, TypeOK
<1>9. CASE PromBankOther
  <2>1. PICK b \in SomeBanks : \/ bi' = [bi EXCEPT !.poweron = b]
                               \/ bi' = [bi EXCEPT !.nextreset = b]
    BY <1>9 DEF PromBankOther
  <2>2. bi' \in Infos /\ bi'.merge = bi.merge
    BY <1>4, <2>1 DEF Infos, BankOrNone
  <2> QED BY <1>1, <1>3, <1>9, <2>2 DEF PromBankOther, TypeOK
<1>10. CASE PromBankMerge
  <2>1. PICK r \in Ranges, unmerge \in BOOLEAN :
               RangeOK(r[1], r[2]) /\ Merge(r[1], r[2], unmerge)
    BY <1>10 DEF PromBankMerge
  <2>2. r[1] \in Banks /\ r[2] \in Banks
    BY RangeAssumption
  <2>3. bi' \in Infos /\ \A c \in Banks : Aligned(c, bi'.merge[c])
    BY <2>1, <2>2, MergeType
  <2> QED BY <1>1, <1>3, <1>10, <2>3 DEF PromBankMerge, TypeOK
<1>11. CASE PromBankLongreset
  <2>1. PICK q \in LongSequences : bi' = [bi EXCEPT !.seq = q]
    BY <1>11 DEF PromBankLongreset
  <2>2. bi' \in Infos /\ bi'.merge = bi.merge
    BY <1>4, <2>1, SequenceAssumption DEF Infos, BankOrNone
  <2> QED BY <1>1, <1>3, <1>11, <2>2 DEF PromBankLongreset, TypeOK
<1>12. CASE ResetAmiga
  <2>1. PICK hold, long \in BOOLEAN : kbrst_amiga(hold, long)
    BY <1>12 DEF ResetAmiga
  <2> QED BY <1>1, <1>12, <2>1, KbrstType DEF ResetAmiga, TypeOK
<1>13. CASE ResetProm
  <2>1. [line EXCEPT !.driven = TRUE] \in LinesOfReset
    BY DEF TypeOK, LinesOfReset
  <2>2. /\ line' \in LinesOfReset /\ prog' \in Progs
        /\ low' \in 0 .. LongTime /\ longs' \in Nat
    BY <1>13, <2>1, BecomesType DEF ResetProm
  <2>3. kb' \in Timers
    <3>1. ResetTime \in {Off} \cup 0 .. LongPulse /\ Off \in {Off, Never} \cup 0 .. LongTime
      BY TimeAssumption
    <3> QED BY <1>13, <3>1 DEF ResetProm, TypeOK, Timers
  <2>4. Suspended \in Forces
    BY ForcedType DEF Suspended, Banks
  <2>5. bi.current \in Banks
    BY <1>4 DEF Infos
  <2> DEFINE on == IF rom.enabled THEN rom ELSE Override(rom, Suspended)
  <2>6. on \in Roms
    BY <1>4, <2>4, OverrideForces
  <2>7. Reapply(SetBankRom(on, bi.current)) \in Roms
    BY <1>4, <2>5, <2>6, SetBankForces, ReapplyForces
  <2>8. rom' = [Reapply(SetBankRom(on, bi.current)) EXCEPT !.enabled = FALSE]
    BY <1>13 DEF ResetProm
  <2>9. rom' \in Roms
    BY <2>7, <2>8 DEF Roms
  <2>10. bi' \in Infos /\ bi'.merge = bi.merge
    BY <1>4, <1>13, <2>5 DEF ResetProm, SetBankInfo, Infos, BankOrNone
  <2> QED BY <1>1, <1>13, <2>2, <2>3, <2>9, <2>10 DEF ResetProm, TypeOK
<1>14. CASE ee_enable
  <2>1. Suspended \in Forces
    BY ForcedType DEF Suspended, Banks
  <2>2. Override(rom, Suspended) \in Roms
    BY <1>4, <2>1, OverrideForces
  <2>3. rom' \in Roms
    BY <1>14, <2>2 DEF ee_enable, Roms
  <2> QED BY <1>1, <1>2, <1>3, <1>14, <2>3 DEF ee_enable, TypeOK
<1>15. CASE ee_disable
  <2>1. rom' \in Roms
    BY <1>4, <1>15, ReapplyForces DEF ee_disable, Roms
  <2> QED BY <1>2, <1>3, <1>15, <2>1 DEF ee_disable, TypeOK
<1> QED BY <1>5, <1>6, <1>7, <1>8, <1>9, <1>10, <1>11, <1>12, <1>13, <1>14, <1>15
        DEF Console

\* Every step keeps the types.
LEMMA NextType == TypeOK /\ [Next]_vars => TypeOK'
<1>1. TypeOK /\ UNCHANGED vars => TypeOK'
  BY DEF vars, ghosts, TypeOK
<1> QED BY <1>1, PollTypes, TickType, EnvironmentType, AmigaType, ConsoleType DEF Next

-----------------------------------------------------------------------------
(* The long reset timer.                                                   *)

\* What kbrst_amiga and a change of the line do to the timer and to the line.
LEMMA DrivenLow ==
    ASSUME TypeOK, Becomes([line EXCEPT !.driven = TRUE])
    PROVE  /\ ~Running' /\ line'.driven /\ prog' = NoProg
           /\ low' = low /\ longs' = longs
<1>1. LineLow([line EXCEPT !.driven = TRUE]) /\ [line EXCEPT !.driven = TRUE].driven
  BY DEF TypeOK, LinesOfReset, LineLow
<1> QED BY <1>1 DEF Becomes, Running

\* A step that leaves line and timers alone, and any that only disarms.
LEMMA TimerKept ==
    ASSUME TypeOK, TimerInv, UNCHANGED <<line, kb, low, longs>>, polled' => polled
    PROVE  TimerInv'
BY DEF TypeOK, Timers, TimerInv, Armed, Running

LEMMA TimerKbrst ==
    ASSUME TypeOK, TypeOK', TimerInv, Becomes([line EXCEPT !.driven = TRUE]),
           kb'.ltimer \in {Off, Never}, kb'.seen \in {0, kb.seen}, ~polled'
    PROVE  TimerInv'
<1>1. ~Running' /\ low' = low /\ longs' = longs
  BY DrivenLow
<1>2. ~(kb'.ltimer >= 0)
  BY DEF Off, Never
<1> QED BY <1>1, <1>2 DEF TimerInv, Armed

LEMMA TimerPoll == TypeOK /\ TypeOK' /\ TimerInv /\ BootInv /\ Poll => TimerInv'
<1> SUFFICES ASSUME TypeOK, TypeOK', TimerInv, BootInv, Poll PROVE TimerInv'
  OBVIOUS
<1>1. /\ LineLow(AtPoll) => ~Running
      /\ KbAtPoll \in Timers /\ KbAtPoll.seen = kb.seen /\ KbAtPoll.ltimer = kb.ltimer
      /\ kb.ltimer \in {Off, Never} \cup 0 .. LongTime
      /\ low \in 0 .. LongTime /\ longs \in Nat /\ LongTime \in Nat
  BY AtPollType, TimeAssumption DEF TypeOK, Timers
<1>2. ASSUME Polls
      PROVE  /\ Running' = ~LineLow(AtPoll)
             /\ LineLow(AtPoll) => low' = low /\ longs' = longs
             /\ ~LineLow(AtPoll) => low' = 0 /\ longs' = 0
  BY <1>2 DEF Polls, Becomes, Running
<1>3. CASE PollFirst
  <2>1. kb'.ltimer = kb.ltimer /\ kb'.seen \in {0, 1} /\ ~Armed /\ longs = 0
    BY <1>1, <1>3 DEF PollFirst, TimerInv, Armed, None, Timers
  <2>2. longs' = 0
    BY <1>2, <1>3, <2>1 DEF PollFirst
  <2> QED BY <2>1, <2>2 DEF TimerInv, Armed
<1>4. CASE PollFalls
  <2>1. /\ ~Running /\ ~Running' /\ low' = low /\ longs' = longs
    BY <1>1, <1>2, <1>4 DEF PollFalls
  <2>2. /\ kb'.seen = 0 /\ longs = 0
        /\ kb'.ltimer = (IF kb.ltimer = Off THEN LongTime ELSE kb.ltimer)
    BY <1>1, <1>4 DEF PollFalls, TimerInv, Timers
  <2>3. ~Armed
    BY <1>4 DEF PollFalls, TimerInv
  <2>4. kb'.ltimer >= 0 => kb'.ltimer = LongTime
    BY <2>2, <2>3 DEF Armed
  <2> QED BY <1>1, <2>1, <2>2, <2>4 DEF TimerInv, Armed
<1>5. CASE PollRises
  <2>1. Running' /\ longs' = 0 /\ kb'.ltimer = Off
    BY <1>1, <1>2, <1>5 DEF PollRises, Disarmed, Timers
  <2> QED BY <2>1 DEF TimerInv, Armed, Off
<1>6. CASE PollSame
  <2>1. /\ kb'.seen = kb.seen
        /\ kb'.ltimer = (IF kb.ltimer = 0 THEN Off ELSE kb.ltimer)
        /\ kb.seen # None /\ (kb.seen = 0) = LineLow(AtPoll)
    BY <1>1, <1>6 DEF PollSame, Quiet, Timers
  <2>2. kb'.ltimer >= 0 => kb'.ltimer = kb.ltimer /\ kb.ltimer >= 0
    BY <2>1 DEF Off
  <2>3. CASE LineLow(AtPoll)
    <3>1. ~Running /\ ~Running' /\ low' = low /\ longs' = longs
      BY <1>1, <1>2, <1>6, <2>3 DEF PollSame
    <3> QED BY <2>1, <2>2, <3>1 DEF TimerInv, Armed
  <2>4. CASE ~LineLow(AtPoll)
    <3>1. Running' /\ longs' = 0 /\ kb.seen # 0
      BY <1>2, <1>6, <2>1, <2>4 DEF PollSame
    <3>2. ~Armed
      BY <3>1 DEF TimerInv
    <3> QED BY <2>2, <3>1, <3>2 DEF TimerInv, Armed
  <2> QED BY <2>3, <2>4
<1>7. CASE PollHeld
  <2>1. kb'.ltimer = Off /\ kb'.seen = 0 /\ kb.ltimer = 0 /\ kb.seen = 0 /\ Armed
    BY <1>1, <1>7 DEF PollHeld, Timers, Armed
  <2>2. LineLow(AtPoll) /\ ~Running /\ line' = AtPoll /\ low' = low
    BY <1>1, <1>7, <2>1 DEF PollHeld, Quiet
  <2>3. ~Running'
    BY <2>2 DEF Running
  <2>4. longs = 0 /\ low >= LongTime
    BY <1>1, <2>1, <2>2 DEF TimerInv
  <2>5. longs' \in {0, 1}
    BY <1>7, <2>4 DEF PollHeld
  <2> QED BY <2>1, <2>2, <2>3, <2>4, <2>5 DEF TimerInv, Armed, Off
<1> QED BY <1>3, <1>4, <1>5, <1>6, <1>7 DEF Poll

LEMMA TimerTick == TypeOK /\ TimerInv /\ Tick => TimerInv'
<1> SUFFICES ASSUME TypeOK, TimerInv, Tick PROVE TimerInv'
  OBVIOUS
<1>1. /\ kb.ltimer \in {Off, Never} \cup 0 .. LongTime
      /\ low \in 0 .. LongTime /\ longs \in Nat /\ LongTime \in Nat
  BY TimeAssumption DEF TypeOK, Timers
<1>2. /\ kb'.ltimer = Elapse(kb.ltimer) /\ kb'.seen = kb.seen
      /\ longs' = longs /\ ~polled' /\ polled /\ Running' = Running
      /\ low' = IF Running THEN 0 ELSE Min({low + 1, LongTime})
  BY DEF Tick, TypeOK, Timers, Running
<1>3. /\ kb'.ltimer >= 0 => Armed
      /\ Armed => kb'.ltimer >= kb.ltimer - 1 /\ kb'.ltimer >= 0
  BY <1>1, <1>2 DEF Elapse, Armed, Off, Never
<1>4. ~Running => low' \in {low + 1, LongTime} /\ (low' = low + 1 \/ low' >= LongTime)
  BY <1>1, <1>2 DEF Min
<1>5. longs > 0 => low' >= LongTime
  BY <1>1, <1>4 DEF TimerInv
<1>6. Armed => ~Running
  BY <1>2 DEF TimerInv
<1>7. Armed => low' + kb'.ltimer >= LongTime
  BY <1>1, <1>2, <1>3, <1>4, <1>6 DEF TimerInv, Elapse, Armed, Off, Never
<1> QED BY <1>2, <1>3, <1>5, <1>6, <1>7 DEF TimerInv, Armed

LEMMA TimerEnvironment == TypeOK /\ TimerInv /\ (Key \/ Power) => TimerInv'
<1> SUFFICES ASSUME TypeOK, TimerInv, Key \/ Power PROVE TimerInv'
  OBVIOUS
<1>1. PICK l \in LinesOfReset : Environment(l)
  BY DEF Key, Power, TypeOK, LinesOfReset
<1>2. /\ kb' = kb /\ polled /\ ~polled' /\ Running' = ~LineLow(l)
      /\ ~Running' => low' = low /\ longs' = longs
      /\ Running' => low' = 0 /\ longs' = 0
  BY <1>1 DEF Environment, Becomes, Running
<1>3. longs \in Nat
  BY DEF TypeOK
<1>4. Armed' = Armed
  BY <1>2 DEF Armed
<1> QED BY <1>2, <1>3, <1>4 DEF TimerInv

LEMMA TimerCommands == TypeOK /\ TypeOK' /\ TimerInv /\ (Amiga \/ Console) => TimerInv'
<1> SUFFICES ASSUME TypeOK, TypeOK', TimerInv, Amiga \/ Console PROVE TimerInv'
  OBVIOUS
<1>1. ASSUME NEW reboot \in BOOLEAN, Reboots(reboot)
      PROVE  TimerInv'
  <2>1. CASE reboot
    <3>1. kbrst_amiga(FALSE, FALSE) /\ ~polled'
      BY <1>1, <2>1 DEF Reboots
    <3>2. kb'.seen = kb.seen /\ kb'.ltimer \in {Off, Never}
      BY <3>1, KbrstType
    <3> QED BY <3>1, <3>2, TimerKbrst DEF kbrst_amiga
  <2>2. CASE ~reboot
    BY <1>1, <2>2, TimerKept DEF Reboots
  <2> QED BY <2>1, <2>2
<1>2. CASE BankSetCurrent \/ BankSetReset \/ BankSetPoweron
  BY <1>1, <1>2 DEF BankSetCurrent, BankSetReset, BankSetPoweron
<1>3. CASE BankMerge \/ BankLreset \/ SmashStart \/ SmashAccess \/ SmashEnd
  <2>1. UNCHANGED <<line, kb, low, longs, polled>>
    BY <1>3 DEF BankMerge, BankLreset, SmashStart, SmashAccess, SmashEnd, SmashUnchanged
  <2> QED BY <2>1, TimerKept
<1>4. CASE ResetAmiga
  <2>1. PICK hold, long \in BOOLEAN : kbrst_amiga(hold, long)
    BY <1>4 DEF ResetAmiga
  <2>2. kb'.seen = kb.seen /\ kb'.ltimer \in {Off, Never}
    BY <2>1, KbrstType
  <2> QED BY <1>4, <2>1, <2>2, TimerKbrst DEF kbrst_amiga, ResetAmiga
<1>5. CASE ResetProm
  <2>1. kb'.seen = 0 /\ kb'.ltimer = Off
    BY <1>5 DEF ResetProm, TypeOK, Timers
  <2> QED BY <1>5, <2>1, TimerKbrst DEF ResetProm
<1>6. CASE Console /\ ~ResetAmiga /\ ~ResetProm
  <2>1. KeepReset /\ polled' \in {polled, FALSE}
    BY <1>6 DEF Console, PromBankCurrent, ConsolePin, ConsoleLast, ConsoleRecord,
           PromBankOther, PromBankMerge, PromBankLongreset, ee_enable, ee_disable
  <2> QED BY <2>1, TimerKept DEF KeepReset, TypeOK
<1> QED BY <1>2, <1>3, <1>4, <1>5, <1>6 DEF Amiga

-----------------------------------------------------------------------------
(* What the poll has seen, and the lines it left.                          *)

LEMMA BootPoll == TypeOK /\ TypeOK' /\ BootInv /\ Poll => BootInv'
<1> SUFFICES ASSUME TypeOK, TypeOK', BootInv, Poll PROVE BootInv'
  OBVIOUS
<1>1. /\ KbAtPoll \in Timers /\ KbAtPoll.seen = kb.seen /\ KbAtPoll.rtimer # 0
      /\ AtPoll \in LinesOfReset
  BY AtPollType
<1>2. ASSUME Polls
      PROVE  /\ console.pc = "idle" /\ console' = console /\ polled'
             /\ line' = AtPoll /\ (Running' <=> ~LineLow(AtPoll))
  BY <1>2 DEF Polls, Becomes, Running
<1>3. /\ console.pc = "idle" /\ console'.pc = "idle" /\ polled'
      /\ line' = AtPoll /\ (Running' <=> ~LineLow(AtPoll))
      /\ kb'.rtimer # 0 /\ kb'.seen = (IF LineLow(AtPoll) THEN 0 ELSE 1)
  <2>1. CASE PollFirst
    BY <1>1, <1>2, <2>1 DEF PollFirst, Timers
  <2>2. CASE PollFalls
    BY <1>1, <1>2, <2>2 DEF PollFalls, Timers
  <2>3. CASE PollRises
    BY <1>1, <1>2, <2>3 DEF PollRises, Timers
  <2>4. CASE PollSame
    <3>1. kb.seen = (IF LineLow(AtPoll) THEN 0 ELSE 1)
      BY <2>4 DEF PollSame, Quiet, TypeOK, Timers
    <3> QED BY <1>1, <1>2, <2>4, <3>1 DEF PollSame, Timers
  <2>5. CASE PollHeld
    <3>1. kb.seen = 0 /\ LineLow(AtPoll)
      BY <2>5 DEF PollHeld, Quiet
    <3> QED BY <1>1, <2>5, <3>1 DEF PollHeld, Timers, Running
  <2> QED BY <2>1, <2>2, <2>3, <2>4, <2>5 DEF Poll
<1>4. kb'.seen # 1 => LastSet(rom') /\ rom'.set.bank = bi'.current
  <2>1. bi.current \in Banks /\ (bi.nextreset # None => bi.nextreset \in Banks)
    BY DEF TypeOK, Infos, BankOrNone
  <2>2. CASE PollFirst
    BY <1>3, <2>2 DEF PollFirst, BootInv, None
  <2>3. CASE PollFalls
    BY <2>1, <2>3, EEType DEF PollFalls, ee_update_bank_at_reset
  <2>4. CASE PollRises
    BY <1>1, <1>3, <2>4 DEF PollRises
  <2>5. CASE PollSame
    <3>1. kb'.seen = kb.seen
      BY <1>1, <2>5 DEF PollSame, Timers
    <3> QED BY <1>3, <2>5, <3>1 DEF PollSame, BootInv
  <2>6. CASE PollHeld
    <3>1. bi.poweron \in Banks /\ LongResetBank \in Banks
      BY LongResetBankType DEF TypeOK, Infos
    <3> QED BY <2>6, <3>1, EEType DEF PollHeld
  <2> QED BY <2>2, <2>3, <2>4, <2>5, <2>6 DEF Poll
<1>5. kb'.seen # None /\ (kb'.seen = 0 <=> ~Running')
  <2>1. CASE LineLow(AtPoll)
    BY <1>3, <2>1 DEF None
  <2>2. CASE ~LineLow(AtPoll)
    BY <1>3, <2>2 DEF None
  <2> QED BY <2>1, <2>2
<1> QED BY <1>3, <1>4, <1>5 DEF BootInv

\* A step that leaves what the poll has seen alone, and forces no line.
LEMMA BootKept ==
    ASSUME TypeOK, BootInv, UNCHANGED <<line, kb, rom, console>>, bi'.current = bi.current,
           console.pc = "idle" \/ bi'.merge = bi.merge,
           polled' => polled
    PROVE  BootInv'
BY DEF BootInv, Running, BitsOf

\* A reset that the board begins, with the bank unchanged.
LEMMA BootKbrst ==
    ASSUME TypeOK, BootInv, NEW hold \in BOOLEAN, NEW long \in BOOLEAN,
           kbrst_amiga(hold, long), ~polled',
           kb.seen # 1 => UNCHANGED <<rom, console, bi>>,
           kb.seen # None
    PROVE  BootInv'
<1>1. kb'.seen = kb.seen /\ kb'.rtimer # 0
  BY KbrstType
<1> QED BY <1>1 DEF BootInv, BitsOf

LEMMA BootTick == TypeOK /\ BootInv /\ Tick => BootInv'
<1> SUFFICES ASSUME TypeOK, BootInv, Tick PROVE BootInv'
  OBVIOUS
<1>1. /\ kb'.seen = kb.seen /\ polled /\ ~polled'
      /\ UNCHANGED <<line, rom, console, bi>>
  BY DEF Tick, TypeOK, Timers
<1>2. kb.seen = 1 => ~line.driven
  BY <1>1 DEF BootInv, Running, LineLow
<1> QED BY <1>1, <1>2 DEF BootInv, BitsOf

LEMMA BootEnvironment == TypeOK /\ BootInv /\ (Key \/ Power) => BootInv'
<1> SUFFICES ASSUME TypeOK, BootInv, Key \/ Power PROVE BootInv'
  OBVIOUS
<1>1. PICK l \in LinesOfReset : Environment(l) /\ l.driven = line.driven
  <2>1. ASSUME NEW k \in BOOLEAN
        PROVE  /\ [line EXCEPT !.key = k] \in LinesOfReset
               /\ [line EXCEPT !.key = k].driven = line.driven
               /\ [line EXCEPT !.power = k] \in LinesOfReset
               /\ [line EXCEPT !.power = k].driven = line.driven
    BY DEF TypeOK, LinesOfReset
  <2> QED BY <2>1 DEF Key, Power
<1>2. /\ ~polled' /\ line'.driven = line.driven /\ UNCHANGED <<kb, rom, console, bi>>
  BY <1>1 DEF Environment, Becomes
<1> QED BY <1>2 DEF BootInv, BitsOf

LEMMA BootAmiga == TypeOK /\ TypeOK' /\ BootInv /\ SmashInv /\ Amiga => BootInv'
<1> SUFFICES ASSUME TypeOK, TypeOK', BootInv, SmashInv, Amiga PROVE BootInv'
  OBVIOUS
<1>1. ASSUME NEW reboot \in BOOLEAN, AmigaCommand, Reboots(reboot)
      PROVE  BootInv'
  <2>0. kb.seen = 1
    BY <1>1 DEF AmigaCommand, Free
  <2>1. CASE reboot
    <3>1. kbrst_amiga(FALSE, FALSE) /\ ~polled'
      BY <1>1, <2>1 DEF Reboots
    <3>2. kb.seen # None /\ ~(kb.seen # 1)
      BY <2>0 DEF None
    <3> QED BY <3>1, <3>2, BootKbrst
  <2>2. CASE ~reboot
    <3>1. UNCHANGED <<line, kb, polled, console>>
      BY <1>1, <2>2 DEF Reboots, AmigaCommand
    <3> QED BY <2>0, <3>1 DEF BootInv, Running, None
  <2> QED BY <2>1, <2>2
<1>2. CASE BankSetCurrent \/ BankSetReset \/ BankSetPoweron
  BY <1>1, <1>2 DEF BankSetCurrent, BankSetReset, BankSetPoweron
<1>3. CASE BankMerge \/ BankLreset \/ SmashStart \/ SmashAccess \/ SmashEnd
  <2>1. UNCHANGED <<line, kb, polled, console>>
    BY <1>3 DEF BankMerge, BankLreset, SmashStart, SmashAccess, SmashEnd, SmashUnchanged,
                AmigaCommand
  <2>2. kb.seen = 1
    BY <1>3 DEF BankMerge, BankLreset, SmashStart, SmashAccess, SmashEnd,
                AmigaCommand, Free, SmashInv
  <2> QED BY <2>1, <2>2 DEF BootInv, Running, None
<1> QED BY <1>2, <1>3 DEF Amiga

LEMMA BootConsole == TypeOK /\ TypeOK' /\ BootInv /\ Console => BootInv'
<1> SUFFICES ASSUME TypeOK, TypeOK', BootInv, Console PROVE BootInv'
  OBVIOUS
<1> USE BankAssumption
<1>1. /\ rom \in Roms /\ rom.last \in Forces /\ bi \in Infos /\ bi.current \in Banks
      /\ console \in Consoles
  BY DEF TypeOK, Roms, Infos
<1>2. ConsoleCommand => console.pc = "idle" /\ kb.seen # None
  BY DEF ConsoleCommand, Command
<1>3. CASE PromBankCurrent
  <2>1. PICK b \in SomeBanks :
               /\ console' = [pc |-> IF NoOverride(bi.merge[b].add) \/ BitsOf(b) = rom.last
                                     THEN "record" ELSE "pins",
                              bits |-> BitsOf(b), i |-> 0]
               /\ rom' = rom /\ bi' = bi
    BY <1>3 DEF PromBankCurrent
  <2>2. /\ rom'.last = rom.last /\ bi'.merge = bi.merge /\ BitsOf(b).bank = b
        /\ console'.pc \in {"record", "pins"} /\ console'.bits = BitsOf(b)
        /\ console'.pc = "record" => NoOverride(bi.merge[b].add) \/ BitsOf(b) = rom.last
    BY <2>1, BitsOfType
  <2>3. ~polled' /\ line' = line /\ kb' = kb /\ kb.seen # None
    BY <1>2, <1>3 DEF PromBankCurrent, KeepReset
  <2>4. (console.bits = BitsOf(console.bits.bank))'
    BY <2>2 DEF BitsOf
  <2>5. console'.pc = "record" =>
            NoOverride(bi'.merge[console'.bits.bank].add) \/ rom'.last = console'.bits
    BY <2>2
  <2> QED BY <2>2, <2>3, <2>4, <2>5 DEF BootInv
<1>4. CASE ConsolePin
  <2>1. /\ console'.bits = console.bits /\ bi' = bi
        /\ console'.pc \in {"pins", "last"} /\ console.pc = "pins"
    BY <1>1, <1>4 DEF ConsolePin, Consoles
  <2> QED BY <1>4, <2>1 DEF ConsolePin, KeepReset, BootInv, Running, BitsOf
<1>5. CASE ConsoleLast
  <2>1. /\ rom'.last = console.bits /\ console.pc = "last"
        /\ console'.pc = "record" /\ console'.bits = console.bits /\ bi' = bi
    BY <1>1, <1>5 DEF ConsoleLast, Roms, Consoles
  <2> QED BY <1>5, <2>1 DEF ConsoleLast, KeepReset, BootInv, Running, BitsOf
<1>6. CASE ConsoleRecord
  <2> DEFINE b == console.bits.bank
  <2>1. /\ bi'.current = b /\ b \in Banks
        /\ console.pc = "record" /\ console'.pc = "idle"
    BY <1>1, <1>6 DEF ConsoleRecord, SetBankInfo, Infos, Consoles, Forces
  <2>2. rom'.last = rom.last /\ rom'.set = Wanted(b) /\ ~rom'.read
    BY <1>1, <1>6 DEF ConsoleRecord, IsSet, Roms
  <2>3. /\ Wanted(b).bank = b
        /\ 1 \in Wanted(b).mask => ~NoOverride(bi.merge[b].add) /\ Wanted(b) = BitsOf(b)
    BY <1>1, <2>1, WantedBits
  <2>4. kb.seen # 1 => LastSet(rom') /\ rom'.set.bank = bi'.current
    BY <2>1, <2>2, <2>3 DEF BootInv, LastSet
  <2> QED BY <1>6, <2>1, <2>4 DEF ConsoleRecord, KeepReset, BootInv, Running
<1>7. CASE PromBankOther \/ PromBankMerge \/ PromBankLongreset
  <2>1. bi'.current = bi.current
    BY <1>1, <1>7 DEF PromBankOther, PromBankMerge, Merge, PromBankLongreset, Infos
  <2>2. UNCHANGED <<line, kb, rom, console, polled>>
    BY <1>7 DEF PromBankOther, PromBankMerge, PromBankLongreset, KeepReset
  <2> QED BY <1>2, <1>7, <2>1, <2>2, BootKept
          DEF PromBankOther, PromBankMerge, PromBankLongreset
<1>8. CASE ResetAmiga
  <2>1. PICK hold, long \in BOOLEAN : kbrst_amiga(hold, long)
    BY <1>8 DEF ResetAmiga
  <2> QED BY <1>2, <1>8, <2>1, BootKbrst DEF ResetAmiga
<1>9. CASE ResetProm
  <2>1. kb'.seen = 0 /\ kb'.rtimer = ResetTime
    BY <1>9 DEF ResetProm, TypeOK, Timers
  <2>2. Suspended \in Forces
    BY ForcedType DEF Suspended, Banks
  <2> DEFINE on == IF rom.enabled THEN rom ELSE Override(rom, Suspended)
             set == SetBankRom(on, bi.current)
  <2>3. on \in Roms
    BY <1>1, <2>2, OverrideForces
  <2>4. set \in Roms /\ LastSet(set) /\ set.set.bank = bi.current
    BY <1>1, <2>3, SetBankForces
  <2>5. rom' = [Reapply(set) EXCEPT !.enabled = FALSE]
    BY <1>9 DEF ResetProm
  <2> HIDE DEF set
  <2>6. /\ Reapply(set) \in Roms /\ Reapply(set).last = set.last
        /\ Reapply(set).set = set.set /\ Reapply(set).read = set.read
    BY <2>4, ReapplyForces
  <2>7. rom'.last = set.last /\ rom'.set = set.set /\ rom'.read = set.read
    BY <2>5, <2>6 DEF Roms
  <2>8. bi'.current = bi.current /\ console' = console /\ console.pc = "idle" /\ ~polled'
    BY <1>1, <1>2, <1>9 DEF ResetProm, SetBankInfo, Infos
  <2> QED BY <2>1, <2>4, <2>7, <2>8 DEF BootInv, LastSet, None
<1>10. CASE ee_enable
  <2>1. Suspended \in Forces
    BY ForcedType DEF Suspended, Forced, Banks
  <2>2. /\ Override(rom, Suspended) \in Roms
    BY <1>1, <2>1, OverrideForces
  <2>3. rom'.read /\ rom'.set = Override(rom, Suspended).set
    BY <1>10, <2>2 DEF ee_enable, Roms
  <2>4. LastSet(rom') /\ rom'.set = rom.set
    BY <1>1, <2>1, <2>3, OverrideForces DEF LastSet
  <2> QED BY <1>2, <1>10, <2>4 DEF ee_enable, KeepReset, BootInv, Running
<1>11. CASE ee_disable
  <2>1. /\ Reapply(rom) \in Roms /\ Reapply(rom).last = rom.last
        /\ Reapply(rom).set = rom.set /\ Reapply(rom).read = rom.read
    BY <1>1, ReapplyForces
  <2>2. rom'.last = rom.last /\ rom'.set = rom.set /\ rom'.read = rom.read
    BY <1>11, <2>1 DEF ee_disable, Roms
  <2> QED BY <1>11, <2>2 DEF ee_disable, KeepReset, BootInv, LastSet, Running
<1> QED BY <1>3, <1>4, <1>5, <1>6, <1>7, <1>8, <1>9, <1>10, <1>11 DEF Console

-----------------------------------------------------------------------------
(* What smash writes.                                                      *)

\* A step that makes the line low, or leaves smash, the line and the lines of
\* the bank alone.
LEMMA SmashStopped ==
    ASSUME SmashInv, prog'.pc = "none", access' = access
    PROVE  SmashInv'
BY DEF SmashInv

LEMMA SmashKept ==
    ASSUME SmashInv, UNCHANGED <<prog, access, line, rom>>, kb'.seen = kb.seen,
           console'.pc = "idle" \/ console' = console
    PROVE  SmashInv'
BY DEF SmashInv, Running

\* A step of the console that may force other lines.
LEMMA SmashDisturbed ==
    ASSUME TypeOK, SmashInv, Disturbs, KeepReset, access' = access
    PROVE  SmashInv'
<1>1. /\ prog'.pc = prog.pc /\ prog'.op = prog.op /\ prog'.set = prog.set
      /\ prog'.disturbed = (prog.pc # "none")
  BY DEF Disturbs, TypeOK, Progs
<1> QED BY <1>1 DEF SmashInv, KeepReset, Running

LEMMA SmashPoll == TypeOK /\ SmashInv /\ BootInv /\ Poll => SmashInv'
<1> SUFFICES ASSUME TypeOK, SmashInv, BootInv, Poll PROVE SmashInv'
  OBVIOUS
<1>1. /\ KbAtPoll \in Timers /\ KbAtPoll.seen = kb.seen /\ AtPoll \in LinesOfReset
      /\ LineLow(AtPoll) => ~Running
      /\ AtPoll # line => kb.rtimer = 0
      /\ AtPoll.driven => line.driven
  BY AtPollType
<1>2. ~Running => prog.pc = "none"
  BY DEF SmashInv
<1>3. prog' = prog \/ prog'.pc = "none"
  BY DEF Poll, PollFirst, PollFalls, PollRises, PollSame, PollHeld, Polls, Becomes, NoProg
<1>4. access' = access
  BY DEF Poll, PollFirst, PollFalls, PollRises, PollSame, PollHeld, Polls
<1>5. CASE prog.pc = "none"
  BY <1>3, <1>4, <1>5, SmashStopped
<1>6. CASE prog.pc # "none"
  <2>1. Running /\ ~LineLow(AtPoll) /\ kb.seen = 1
    BY <1>1, <1>6 DEF SmashInv
  <2>2. PollSame
    BY <2>1 DEF Poll, PollFirst, PollFalls, PollRises, PollHeld, None
  <2>3. /\ kb'.seen = kb.seen /\ prog' = prog /\ line' = AtPoll /\ Running'
        /\ UNCHANGED <<rom, console>>
    BY <1>1, <2>1, <2>2 DEF PollSame, Polls, Becomes, Timers, Running
  <2> QED BY <1>4, <2>1, <2>3 DEF SmashInv
<1> QED BY <1>5, <1>6

LEMMA SmashTime == TypeOK /\ SmashInv /\ (Tick \/ Key \/ Power) => SmashInv'
<1> SUFFICES ASSUME TypeOK, SmashInv, Tick \/ Key \/ Power PROVE SmashInv'
  OBVIOUS
<1>1. CASE Tick
  <2>1. kb'.seen = kb.seen
    BY <1>1 DEF Tick, TypeOK, Timers
  <2> QED BY <1>1, <2>1, SmashKept DEF Tick
<1>2. CASE Key \/ Power
  <2>1. PICK l : Environment(l)
    BY <1>2 DEF Key, Power
  <2>2. UNCHANGED <<kb, rom, console, access>> /\ Becomes(l)
    BY <2>1 DEF Environment
  <2>3. CASE LineLow(l)
    BY <2>2, <2>3, SmashStopped DEF Becomes, NoProg
  <2>4. CASE ~LineLow(l)
    BY <2>2, <2>4 DEF Becomes, SmashInv, Running
  <2> QED BY <2>3, <2>4
<1> QED BY <1>1, <1>2

LEMMA SmashAmiga == TypeOK /\ TypeOK' /\ SmashInv /\ Amiga => SmashInv'
<1> SUFFICES ASSUME TypeOK, TypeOK', SmashInv, Amiga PROVE SmashInv'
  OBVIOUS
<1> USE BankAssumption
<1>1. CASE BankSetCurrent \/ BankSetReset \/ BankSetPoweron
  <2>1. AmigaCommand /\ \E reboot \in BOOLEAN : Reboots(reboot)
    BY <1>1 DEF BankSetCurrent, BankSetReset, BankSetPoweron
  <2>2. prog.pc = "none" /\ access' = access
    BY <2>1 DEF AmigaCommand, Free
  <2>3. prog'.pc = "none"
    BY <2>1, <2>2 DEF Reboots, kbrst_amiga, Becomes, NoProg
  <2> QED BY <2>2, <2>3, SmashStopped
<1>2. CASE BankMerge \/ BankLreset
  <2>1. prog.pc = "none" /\ prog' = prog /\ access' = access
    BY <1>2 DEF BankMerge, BankLreset, AmigaCommand, Free
  <2> QED BY <2>1, SmashStopped
<1>3. CASE SmashStart
  <2>1. PICK b \in SomeBanks, op \in {"read", "write", "erase"}, ok, ran \in BOOLEAN :
               /\ Free /\ Command
               /\ ok => ran
               /\ rom' = IF ran THEN SetTemp(b) ELSE rom
               /\ prog' = [NoProg EXCEPT !.op = op, !.bank = b, !.set = ok,
                               !.disturbed = console.pc # "idle",
                               !.pc = IF op = "write" /\ ~ok THEN "done" ELSE "temp"]
               /\ UNCHANGED <<bi, access>> /\ SmashUnchanged
    BY <1>3, Zenon DEF SmashStart
  <2>2. SetTemp(b).last = Forced(b, Lines)
    BY ForcedType, OverrideForces DEF SetTemp, TypeOK
  <2>3. /\ prog'.op = op /\ prog'.bank = b /\ prog'.set = ok
        /\ prog'.disturbed = (console.pc # "idle")
        /\ prog'.pc = "temp" => op # "write" \/ ok
    BY <2>1 DEF NoProg
  <2>4. ok => rom'.last = Forced(b, Lines)
    BY <2>1, <2>2
  <2> QED BY <2>1, <2>3, <2>4 DEF SmashInv, SmashUnchanged, Free, Running
<1>4. CASE SmashAccess
  <2>1. /\ prog.pc = "temp" /\ prog'.pc = "done"
        /\ UNCHANGED <<line, kb>> /\ Running /\ kb.seen = 1
    BY <1>4 DEF SmashAccess, SmashUnchanged, TypeOK, Progs, SmashInv
  <2>2. access'.excused \/ access'.hit \subseteq {access'.bank}
    <3>1. CASE prog.op = "read"
      BY <1>4, <3>1 DEF SmashAccess, SmashInv
    <3> DEFINE excused == \/ prog.disturbed \/ Mixed
                          \/ (prog.op = "erase" /\ ~prog.set)
    <3>2. CASE prog.op # "read" /\ excused
      BY <1>4, <3>2 DEF SmashAccess
    <3>3. CASE prog.op # "read" /\ ~excused
      <4>1. prog.bank \in Banks
        BY DEF TypeOK, Progs
      <4>2. prog.op \in {"write", "erase"} /\ (prog.op = "write" => prog.set)
        BY <2>1, <3>3 DEF SmashInv
      <4>3. prog.set
        BY <3>3, <4>2
      <4>4. rom.last = Forced(prog.bank, Lines)
        BY <2>1, <3>3, <4>3 DEF SmashInv
      <4>5. Visible \subseteq {prog.bank}
        BY <3>3, <4>1, <4>4, AllForcedVisible
      <4>6. access'.hit = Visible /\ access'.bank = prog.bank
        BY <1>4, <3>3 DEF SmashAccess
      <4> QED BY <4>5, <4>6
    <3> QED BY <3>1, <3>2, <3>3
  <2> QED BY <2>1, <2>2 DEF SmashInv, Running
<1>5. CASE SmashEnd
  BY <1>5, SmashStopped DEF SmashEnd, NoProg
<1> QED BY <1>1, <1>2, <1>3, <1>4, <1>5 DEF Amiga

LEMMA SmashConsole == TypeOK /\ SmashInv /\ Console => SmashInv'
<1> SUFFICES ASSUME TypeOK, SmashInv, Console PROVE SmashInv'
  OBVIOUS
<1>1. CASE PromBankCurrent \/ ConsolePin \/ ConsoleLast \/ ConsoleRecord
             \/ ee_enable \/ ee_disable
  <2>1. Disturbs /\ KeepReset /\ access' = access
    BY <1>1 DEF PromBankCurrent, ConsolePin, ConsoleLast, ConsoleRecord, ee_enable,
                ee_disable, ConsoleCommand
  <2> QED BY <2>1, SmashDisturbed
<1>2. CASE PromBankOther \/ PromBankMerge \/ PromBankLongreset
  <2>1. UNCHANGED <<rom, console, prog, line, kb, access>>
    BY <1>2 DEF PromBankOther, PromBankMerge, PromBankLongreset, KeepReset, ConsoleCommand
  <2> QED BY <2>1, SmashKept
<1>3. CASE ResetAmiga \/ ResetProm
  <2>1. Becomes([line EXCEPT !.driven = TRUE]) /\ access' = access
    BY <1>3 DEF ResetAmiga, ResetProm, kbrst_amiga, ConsoleCommand
  <2>2. prog'.pc = "none"
    BY <2>1, DrivenLow DEF NoProg
  <2> QED BY <2>1, <2>2, SmashStopped
<1> QED BY <1>1, <1>2, <1>3 DEF Console

-----------------------------------------------------------------------------
(* The theorems.                                                           *)

\* The types, the timer, the forced lines and smash, together, hold at first
\* and after every step.
THEOREM Invariance == Spec => []IInv
<1>1. Init => IInv
  <2> SUFFICES ASSUME Init PROVE IInv
    OBVIOUS
  <2>1. TypeOK
    BY InitType
  <2>2. TimerInv
    BY DEF Init, TimerInv, Armed, Off
  <2>3. BootInv
    <3>1. LastSet(rom) /\ rom.set.bank = bi.current
      BY DEF Init, LastSet, Forced
    <3> QED BY <3>1 DEF Init, BootInv, None
  <2>4. SmashInv
    BY DEF Init, SmashInv, NoProg
  <2> QED BY <2>1, <2>2, <2>3, <2>4 DEF IInv
<1>2. IInv /\ [Next]_vars => IInv'
  <2> SUFFICES ASSUME IInv, [Next]_vars PROVE IInv'
    OBVIOUS
  <2>1. TypeOK /\ TimerInv /\ BootInv /\ SmashInv /\ TypeOK'
    BY NextType DEF IInv
  <2>2. CASE UNCHANGED vars
    <3>1. UNCHANGED <<bi, rom, line, kb, console, prog, access, low, longs, polled>>
      BY <2>2 DEF vars, ghosts
    <3> QED BY <2>1, <3>1, TimerKept, BootKept, SmashKept DEF IInv
  <2>3. CASE Next
    <3>1. TimerInv'
      BY <2>1, <2>3, TimerPoll, TimerTick, TimerEnvironment, TimerCommands DEF Next
    <3>2. BootInv'
      BY <2>1, <2>3, BootPoll, BootTick, BootEnvironment, BootAmiga, BootConsole DEF Next
    <3>3. SmashInv'
      BY <2>1, <2>3, SmashPoll, SmashTime, SmashAmiga, SmashConsole DEF Next
    <3> QED BY <2>1, <3>1, <3>2, <3>3 DEF IInv
  <2> QED BY <2>2, <2>3
<1> QED BY <1>1, <1>2, PTL DEF Spec

\* Every variable keeps its type, and no MERGE command, from either side,
\* makes a bank part of a block that does not begin at a multiple of its size.
THEOREM TypeCorrect == Spec => []TypeOK
<1>1. IInv => TypeOK
  BY DEF IInv
<1> QED BY <1>1, Invariance, PTL

\* A long reset is taken only when the line has been low for the whole time,
\* and once for one reset.
THEOREM LongResetIsReal == Spec => []LongResetOnce
<1>1. IInv => LongResetOnce
  BY DEF IInv, TimerInv, LongResetOnce
<1> QED BY <1>1, Invariance, PTL

\* smash writes the bank it was told, unless the console came in between or
\* had left lines of two banks.
THEOREM SmashWritesItsBank == Spec => []WritesItsBank
<1>1. IInv => WritesItsBank
  BY DEF IInv, SmashInv, WritesItsBank
<1> QED BY <1>1, Invariance, PTL

\* The line can rise only where the poll has seen it low, and the poll has
\* then set the current bank: whenever the Amiga starts, the forced lines are
\* those of that bank and its block, but for the faults excepted.
THEOREM AmigaBootsCurrent == Spec => BootsCurrent
<1> DEFINE A == ~Running /\ Running' =>
                  \/ AsSet' /\ rom'.set.bank = bi'.current
                  \/ Mixed' \/ WideBlock' \/ rom'.read
<1>1. IInv /\ IInv' /\ [Next]_vars => [A]_vars
  <2> SUFFICES ASSUME IInv, IInv', Next, ~Running, Running',
                      ~Mixed', ~WideBlock', ~rom'.read
               PROVE  AsSet' /\ rom'.set.bank = bi'.current
    OBVIOUS
  <2>1. TypeOK /\ BootInv /\ SmashInv /\ TypeOK'
    BY DEF IInv
  <2>2. Poll \/ Key \/ Power
    <3>1. CASE Tick
      BY <3>1 DEF Tick, Running
    <3>2. CASE Amiga
      <4>1. Running
        BY <3>2 DEF Amiga, BankSetCurrent, BankSetReset, BankSetPoweron, BankMerge,
               BankLreset, SmashStart, SmashAccess, SmashEnd, AmigaCommand, Free
      <4> QED BY SMTT(20), <4>1
    <3>3. CASE Console
      <4>1. line' = line \/ Becomes([line EXCEPT !.driven = TRUE])
        BY <3>3 DEF Console, PromBankCurrent, ConsolePin, ConsoleLast, ConsoleRecord,
               PromBankOther, PromBankMerge, PromBankLongreset, ResetAmiga, ResetProm,
               ee_enable, ee_disable, KeepReset, kbrst_amiga
      <4> QED BY <2>1, <4>1, DrivenLow DEF Running
    <3> QED BY <3>1, <3>2, <3>3 DEF Next
  <2>3. console.pc = "idle" /\ kb.seen # 1 /\ UNCHANGED <<bi, rom>>
    <3>1. CASE Key \/ Power
      <4>1. PICK l : Environment(l)
        BY <3>1 DEF Key, Power
      <4>2. kb.seen = 0
        BY <2>1, <4>1 DEF Environment, BootInv
      <4> QED BY <4>1, <4>2 DEF Environment
    <3>2. CASE Poll
      <4>1. /\ LineLow(AtPoll) => ~Running
            /\ AtPoll.driven => line.driven
            /\ AtPoll # line => kb.rtimer = 0
        BY <2>1, AtPollType
      <4>2. line' = AtPoll
        BY <3>2 DEF Poll, PollFirst, PollFalls, PollRises, PollSame, PollHeld, Polls, Becomes
      <4>3. ~LineLow(AtPoll) /\ kb.rtimer = 0
        BY <4>1, <4>2 DEF Running
      <4>4. line.driven
        BY <2>1, <4>2, <4>3 DEF Running, LineLow, AtPoll, TypeOK, LinesOfReset
      <4>5. kb.seen # 1
        BY <2>1, <4>3, <4>4 DEF BootInv
      <4>6. PollFirst \/ PollRises
        <5>1. ~PollFalls
          BY <4>3 DEF PollFalls
        <5>2. ~Quiet
          BY <2>1, <4>3, <4>5 DEF Quiet, TypeOK, Timers
        <5> QED BY <3>2, <5>1, <5>2 DEF Poll, PollSame, PollHeld
      <4> QED BY <4>5, <4>6 DEF PollFirst, PollRises, Polls
    <3> QED BY <2>2, <3>1, <3>2
  <2>4. rom.last = rom.set /\ rom.set.bank = bi.current /\ ~Mixed
    BY <2>1, <2>3 DEF BootInv, LastSet, WideBlock, Mixed
  <2> QED BY <2>3, <2>4 DEF AsSet, Mixed
<1> QED BY <1>1, Invariance, PTL DEF Spec, BootsCurrent
=============================================================================
