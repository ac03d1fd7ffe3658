----------------------------- MODULE BankSwitch -----------------------------
(***************************************************************************)
(* Which part of the flash the Amiga sees: the banks and their merging     *)
(* (fw/config.c, the BANK commands of fw/msg.c), the address lines         *)
(* A17-A19 that Kicksmash forces (fw/m29f160xt.c), the reset line and its  *)
(* timers (fw/kbrst.c), and the Amiga's smash program, which shows itself  *)
(* another bank while it reads, writes or erases it (amiga/smash.c).       *)
(*                                                                         *)
(* The Amiga's commands run in the interrupt, at once; the console's and   *)
(* kbrst_poll run in the main loop. Of the main loop only ee_set_bank of a *)
(* console command can be interrupted by a command for the same lines: in  *)
(* kbrst_poll the Amiga is in reset and sends nothing.                     *)
(*                                                                         *)
(* Ticks are coarse, only the order of the three times counts. The main    *)
(* loop polls at least once a tick, and keys and power do not change twice *)
(* between two polls.                                                      *)
(*                                                                         *)
(* The board is one whose reset line is connected (standalone, or in the   *)
(* Amiga with KBRST wired): without it kbrst_poll returns at once and no   *)
(* reset is ever seen.                                                     *)
(***************************************************************************)
EXTENDS Integers, FiniteSets, FiniteSetsExt

CONSTANTS
    SomeBanks,      \* the banks that commands name
    Ranges,         \* the ranges <<first, last>> that MERGE commands name
    LongSequences,  \* the long reset sequences
    ResetTime,      \* ticks of a reset by kbrst_amiga, 400 ms
    LongTime,       \* ticks until a reset is a long one, 2000 ms
    LongPulse,      \* ticks of a long reset by kbrst_amiga, 2500 ms
    MaxCommands     \* bound: commands of the console and of the Amiga

Banks == 0 .. 7
None == 255             \* no bank: 0xff

ASSUME TimeAssumption ==
    /\ ResetTime \in Nat \ {0} /\ LongTime \in Nat /\ LongPulse \in Nat
    /\ ResetTime < LongTime /\ LongTime < LongPulse
ASSUME BankAssumption == SomeBanks \subseteq Banks
ASSUME RangeAssumption == Ranges \subseteq Banks \X Banks
ASSUME SequenceAssumption == LongSequences \subseteq [Banks -> Banks \cup {None}]

VARIABLES
    bi,         \* bank_info_t: current, nextreset, poweron, seq, merge
    rom,        \* the lines A17-A19, the static "last" of the override, and
                \* history: set, what the last ee_set_bank was to force, and
                \* read, whether the console has used the flash since then
    line,       \* who holds the reset line low
    kb,         \* kbrst.c: level seen last, power, the two timers
    console,    \* the main loop inside ee_set_bank of a console command
    prog,       \* the smash program during a flash operation
    access,     \* the last flash access that changes data
    low,        \* how many ticks the reset line has been low
    longs,      \* the long resets taken since it went low
    commands,   \* number of commands given
    polled      \* kbrst_poll has run since the line or the time changed

ghosts == <<access, low, longs>>
vars == <<bi, rom, line, kb, console, prog, ghosts, commands, polled>>
-----------------------------------------------------------------------------
\* The forced address lines

Z == -1                 \* a line that is not driven
Off == -1               \* a timer that is not armed
Never == -2             \* a timer that does not elapse: 0xffffffffffffffff
Lines == 0 .. 2         \* A17, A18, A19

Bit(b, i) == (b \div 2 ^ i) % 2
Forced(b, mask) == [bank |-> b, mask |-> mask]
Suspended == Forced(0, {})
Level(bits, i) == IF i \in bits.mask THEN Bit(bits.bank, i) ELSE Z

\* The banks that can answer to an address of the Amiga.
Visible == {b \in Banks : \A i \in Lines : rom.pins[i] \in {Z, Bit(b, i)}}

\* An interrupt inside the console's ee_set_bank leaves lines of two banks,
\* which the next ee_set_bank takes for those of the last one.
Mixed == \E i \in Lines : rom.pins[i] # Level(rom.last, i)

\* ee_address_override(bits, 0) and (0, 1)
Override(r, bits) ==
    IF bits = r.last THEN r
    ELSE [r EXCEPT !.pins = [i \in Lines |-> Level(bits, i)], !.last = bits]

\* ee_address_override(0, 3)
Reapply(r) == [r EXCEPT !.pins = [i \in Lines |-> Level(r.last, i)]]

\* The lines ee_set_bank forces for a bank with that many further banks in
\* its block; for an eight-bank block it calls nothing.
NoOverride(add) == add \notin {0, 1, 2, 3}
Mask(add) == CASE add = 0 -> {0, 1, 2} [] add = 1 -> {1, 2}
               [] add = 2 -> {2} [] OTHER -> {}
BitsOf(b) == Forced(b, Mask(bi.merge[b].add))

\* What there is to force for bank b: the lines that its block, of that many
\* further banks, does not leave to the Amiga.
Wanted(b) == Forced(b, {i \in Lines : 2 ^ i > bi.merge[b].add})
IsSet(r, b) == [r EXCEPT !.set = Wanted(b), !.read = FALSE]

SetBankRom(r, b) ==
    IsSet(IF NoOverride(bi.merge[b].add) THEN r ELSE Override(r, BitsOf(b)), b)
SetBankInfo(b) == [bi EXCEPT !.current = b, !.nextreset = None]
ee_set_bank(b) == rom' = SetBankRom(rom, b) /\ bi' = SetBankInfo(b)
-----------------------------------------------------------------------------
\* The reset line

LineLow(l) == l.driven \/ l.key \/ ~l.power
Running == ~LineLow(line)

NoProg == [pc |-> "none", op |-> "none", bank |-> 0, set |-> FALSE,
           disturbed |-> FALSE]

\* The line changes: the Amiga stops when it goes low.
Becomes(l) ==
    /\ line' = l
    /\ prog' = IF LineLow(l) THEN NoProg ELSE prog
    /\ IF LineLow(l) THEN UNCHANGED <<low, longs>>
                     ELSE low' = 0 /\ longs' = 0

\* Faulty: a long reset does not arm the timer that ends it.
ForgetsPulse(hold, long) ==
    /\ Becomes([line EXCEPT !.driven = TRUE])
    /\ kb' = [kb EXCEPT !.rtimer = IF hold \/ long THEN Off ELSE ResetTime,
                        !.ltimer = IF hold THEN Never ELSE Off]
kbrst_amiga(hold, long) ==
    /\ Becomes([line EXCEPT !.driven = TRUE])
    /\ kb' = [kb EXCEPT !.rtimer = IF hold THEN Off
                                   ELSE IF long THEN LongPulse ELSE ResetTime,
                        !.ltimer = IF hold THEN Never ELSE Off]

\* Faulty: only a bank asked for is set, the current one is taken as set.
OnlyNextReset ==
    IF bi.nextreset = None THEN UNCHANGED <<bi, rom>>
    ELSE ee_set_bank(bi.nextreset)
ee_update_bank_at_reset ==
    ee_set_bank(IF bi.nextreset # None THEN bi.nextreset ELSE bi.current)

\* The bank of ee_update_bank_at_longreset.
LongResetBank ==
    LET found == {p \in Banks : bi.seq[p] = bi.current}
        next == IF found = {} THEN 8 ELSE Min(found) + 1
        first == IF next = 8 THEN TRUE ELSE bi.seq[next] = None
        bank == bi.seq[IF first THEN 0 ELSE next]
    IN IF bank = None THEN bi.poweron ELSE bank
-----------------------------------------------------------------------------
\* kbrst_poll

AtPoll == IF kb.rtimer = 0 THEN [line EXCEPT !.driven = FALSE] ELSE line
KbAtPoll == IF kb.rtimer = 0 THEN [kb EXCEPT !.rtimer = Off] ELSE kb
Polls ==
    /\ console.pc = "idle" /\ polled' = TRUE
    /\ Becomes(AtPoll)
    /\ UNCHANGED <<console, access, commands>>

PollFirst ==
    /\ kb.seen = None /\ Polls
    /\ kb' = [KbAtPoll EXCEPT !.seen = IF LineLow(AtPoll) THEN 0 ELSE 1]
    /\ UNCHANGED <<bi, rom>>

PollFalls ==
    /\ kb.seen = 1 /\ LineLow(AtPoll) /\ Polls
    /\ ee_update_bank_at_reset
    /\ kb' = [KbAtPoll EXCEPT !.seen = 0, !.ltimer = IF @ = Off THEN LongTime ELSE @]

\* Faulty: the end of a reset leaves the long reset timer armed.
RisesArmed == KbAtPoll.ltimer
Disarmed == Off
PollRises ==
    /\ kb.seen = 0 /\ ~LineLow(AtPoll) /\ Polls
    /\ kb' = [KbAtPoll EXCEPT !.seen = 1, !.off = FALSE, !.ltimer = Disarmed]
    /\ UNCHANGED <<bi, rom>>

Quiet == kb.seen # None /\ (kb.seen = 0) = LineLow(AtPoll)

PollSame ==
    /\ Quiet /\ (kb.ltimer # 0 \/ kb.seen = 1) /\ Polls
    /\ kb' = [KbAtPoll EXCEPT !.ltimer = IF @ = 0 THEN Off ELSE @]
    /\ UNCHANGED <<bi, rom>>

PollHeld ==
    /\ Quiet /\ kb.ltimer = 0 /\ kb.seen = 0 /\ console.pc = "idle"
    /\ kb' = [KbAtPoll EXCEPT !.ltimer = Off, !.off = @ \/ ~line.power]
    /\ ee_set_bank(IF line.power THEN LongResetBank ELSE bi.poweron)
    /\ line' = AtPoll /\ polled' = TRUE
    /\ longs' = IF line.power THEN longs + 1 ELSE longs
    /\ UNCHANGED <<console, prog, access, low, commands>>

Poll == PollFirst \/ PollFalls \/ PollRises \/ PollSame \/ PollHeld

Elapse(t) == IF t \in {Off, 0, Never} THEN t ELSE t - 1
Tick ==
    /\ polled /\ console.pc = "idle"
    /\ kb' = [kb EXCEPT !.rtimer = Elapse(@), !.ltimer = Elapse(@)]
    /\ low' = IF Running THEN 0 ELSE Min({low + 1, LongTime})
    /\ polled' = FALSE
    /\ UNCHANGED <<bi, rom, line, console, prog, access, longs, commands>>

\* Control-Amiga-Amiga, and the Amiga's power
Environment(l) ==
    /\ polled /\ console.pc = "idle"
    /\ l # line /\ Becomes(l)
    /\ polled' = FALSE
    /\ UNCHANGED <<bi, rom, kb, console, access, commands>>
Key == \E k \in BOOLEAN : Environment([line EXCEPT !.key = k])
Power == \E p \in BOOLEAN : Environment([line EXCEPT !.power = p])
-----------------------------------------------------------------------------
\* Merging and the long reset sequence

\* Faulty: any range of two, four or eight banks will do.
AnyRange(s, e) == s <= e /\ (e - s) \in {0, 1, 3, 7}
RangeOK(s, e) == /\ s <= e /\ (e - s) \in {0, 1, 3, 7}
                 /\ s % (e - s + 1) = 0

Unmerged == [add |-> 0, sub |-> 0]
Wrong(s, e, unmerge) == {b \in s .. e : (bi.merge[b] = Unmerged) = unmerge}
Merge(s, e, unmerge) ==
    bi' = [bi EXCEPT !.merge = [b \in Banks |->
              IF b \notin s .. e THEN @[b]
              ELSE IF unmerge THEN Unmerged
              ELSE [add |-> e - s, sub |-> b - s]]]
-----------------------------------------------------------------------------
\* Commands of the Amiga, in the interrupt

\* kbrst_poll runs once before anybody can ask for anything.
Command == kb.seen # None /\ commands < MaxCommands /\ commands' = commands + 1

\* The Amiga takes longer to start a program than the main loop to see it.
Free == Running /\ kb.seen = 1 /\ prog.pc = "none"

AmigaCommand ==
    /\ Free /\ Command
    /\ UNCHANGED <<console, access>>

Reboots(reboot) ==
    IF reboot THEN kbrst_amiga(FALSE, FALSE) /\ polled' = FALSE
    ELSE UNCHANGED <<line, kb, prog, low, longs, polled>>

BankSetCurrent == \E b \in SomeBanks, reboot \in BOOLEAN :
    AmigaCommand /\ Reboots(reboot) /\ ee_set_bank(b)
BankSetReset == \E b \in SomeBanks, reboot \in BOOLEAN :
    /\ AmigaCommand /\ Reboots(reboot)
    /\ bi' = [bi EXCEPT !.nextreset = b] /\ UNCHANGED rom
BankSetPoweron == \E b \in SomeBanks, reboot \in BOOLEAN :
    /\ AmigaCommand /\ Reboots(reboot)
    /\ bi' = [bi EXCEPT !.poweron = b] /\ UNCHANGED rom

\* The scan stops at the first bank in the wrong state, and forgives the last.
BankMerge == \E r \in Ranges, unmerge \in BOOLEAN :
    /\ AmigaCommand
    /\ RangeOK(r[1], r[2]) /\ Wrong(r[1], r[2], unmerge) \subseteq {r[2]}
    /\ Merge(r[1], r[2], unmerge)
    /\ UNCHANGED <<rom, line, kb, prog, low, longs, polled>>

BankLreset == \E q \in LongSequences :
    /\ AmigaCommand
    /\ \A b \in {q[p] : p \in Banks} \ {None} : bi.merge[b].sub = 0
    /\ bi' = [bi EXCEPT !.seq = q]
    /\ UNCHANGED <<rom, line, kb, prog, low, longs, polled>>
-----------------------------------------------------------------------------
\* smash reads, writes or erases a bank, with the Amiga's interrupts off

SmashUnchanged == UNCHANGED <<line, kb, console, low, longs, polled>>

\* Faulty: the lines are forced for the block of the bank, as ee_set_bank does.
TempOfBlock(b) == SetBankRom(rom, b)
SetTemp(b) == Override(rom, Forced(b, Lines))

\* Every try of send_cmd_core_retry may fail, before or after Kicksmash has
\* carried the command out.
SmashStart == \E b \in SomeBanks, op \in {"read", "write", "erase"}, ok, ran \in BOOLEAN :
    /\ Free /\ Command
    /\ ok => ran
    /\ rom' = IF ran THEN SetTemp(b) ELSE rom
    /\ prog' = [NoProg EXCEPT !.op = op, !.bank = b, !.set = ok,
                    !.disturbed = console.pc # "idle",
                    !.pc = IF op = "write" /\ ~ok THEN "done" ELSE "temp"]
    /\ UNCHANGED <<bi, access>> /\ SmashUnchanged

SmashAccess ==
    /\ Running /\ prog.pc = "temp"
    /\ prog' = [prog EXCEPT !.pc = "done"]
    /\ access' = IF prog.op = "read" THEN access
                 ELSE [op |-> prog.op, bank |-> prog.bank, hit |-> Visible,
                       excused |-> \/ prog.disturbed \/ Mixed
                                   \/ prog.op = "erase" /\ ~prog.set]
    /\ UNCHANGED <<bi, rom, commands>> /\ SmashUnchanged

SmashEnd == \E ran \in BOOLEAN :
    /\ Running /\ prog.pc = "done"
    /\ prog' = NoProg
    /\ IF ran THEN ee_set_bank(bi.current) ELSE UNCHANGED <<bi, rom>>
    /\ UNCHANGED <<access, commands>> /\ SmashUnchanged
-----------------------------------------------------------------------------
\* Commands of the console, in the main loop

ConsoleCommand ==
    /\ console.pc = "idle" /\ Command
    /\ UNCHANGED access
Disturbs == prog' = [prog EXCEPT !.disturbed = prog.pc # "none"]
KeepReset == UNCHANGED <<line, kb, low, longs>>

\* config_set_bank: ee_set_bank, which the interrupt may enter as well
PromBankCurrent == \E b \in SomeBanks :
    /\ ConsoleCommand /\ bi.merge[b].sub = 0
    /\ console' = [pc |-> IF NoOverride(bi.merge[b].add) \/ BitsOf(b) = rom.last
                          THEN "record" ELSE "pins",
                   bits |-> BitsOf(b), i |-> 0]
    /\ Disturbs /\ polled' = FALSE
    /\ UNCHANGED <<bi, rom>> /\ KeepReset

ConsolePin ==
    LET i == console.i
    IN /\ console.pc = "pins"
       /\ rom' = [rom EXCEPT !.pins[i] = Level(console.bits, i)]
       /\ console' = IF i = 2 THEN [console EXCEPT !.pc = "last"]
                     ELSE [console EXCEPT !.i = i + 1]
       /\ Disturbs
       /\ UNCHANGED <<bi, access, commands, polled>> /\ KeepReset

ConsoleLast ==
    /\ console.pc = "last"
    /\ rom' = [rom EXCEPT !.last = console.bits]
    /\ console' = [console EXCEPT !.pc = "record"]
    /\ Disturbs
    /\ UNCHANGED <<bi, access, commands, polled>> /\ KeepReset

ConsoleRecord ==
    /\ console.pc = "record"
    /\ bi' = SetBankInfo(console.bits.bank)
    /\ rom' = IsSet(rom, console.bits.bank)
    /\ console' = [console EXCEPT !.pc = "idle"]
    /\ Disturbs
    /\ UNCHANGED <<access, commands, polled>> /\ KeepReset

PromBankOther == \E b \in SomeBanks, which \in {"poweron", "nextreset"} :
    /\ ConsoleCommand /\ bi.merge[b].sub = 0
    /\ bi' = [bi EXCEPT ![which] = b]
    /\ UNCHANGED <<rom, console, prog, polled>> /\ KeepReset

PromBankMerge == \E r \in Ranges, unmerge \in BOOLEAN :
    /\ ConsoleCommand
    /\ RangeOK(r[1], r[2]) /\ Wrong(r[1], r[2], unmerge) = {}
    /\ Merge(r[1], r[2], unmerge)
    /\ UNCHANGED <<rom, console, prog, polled>> /\ KeepReset

PromBankLongreset == \E q \in LongSequences :
    /\ ConsoleCommand /\ \A b \in Banks : bi.merge[b].sub = 0
    /\ bi' = [bi EXCEPT !.seq = q]
    /\ UNCHANGED <<rom, console, prog, polled>> /\ KeepReset

ResetAmiga == \E hold, long \in BOOLEAN :
    /\ ConsoleCommand /\ kbrst_amiga(hold, long)
    /\ polled' = FALSE
    /\ UNCHANGED <<bi, rom, console>>

\* The delay of 200 ms ends before the reset does.
ResetProm ==
    /\ ConsoleCommand /\ Becomes([line EXCEPT !.driven = TRUE])
    /\ kb' = [kb EXCEPT !.rtimer = ResetTime, !.ltimer = Off, !.seen = 0]
    /\ LET on == IF rom.enabled THEN rom ELSE Override(rom, Suspended)
       IN rom' = [Reapply(SetBankRom(on, bi.current)) EXCEPT !.enabled = FALSE]
    /\ bi' = SetBankInfo(bi.current)
    /\ polled' = FALSE /\ UNCHANGED console

\* Any prom command that reads or writes flash from the console.
ee_enable ==
    /\ ConsoleCommand /\ ~rom.enabled
    /\ rom' = [Override(rom, Suspended) EXCEPT !.enabled = TRUE, !.read = TRUE]
    /\ Disturbs
    /\ UNCHANGED <<bi, console, polled>> /\ KeepReset
ee_disable ==
    /\ console.pc = "idle" /\ rom.enabled
    /\ rom' = [Reapply(rom) EXCEPT !.enabled = FALSE]
    /\ Disturbs
    /\ UNCHANGED <<bi, console, access, commands, polled>> /\ KeepReset
-----------------------------------------------------------------------------
Init ==
    /\ bi = [current |-> 0, nextreset |-> None, poweron |-> 0,
             seq |-> [p \in Banks |-> None], merge |-> [b \in Banks |-> Unmerged]]
    /\ rom = [pins |-> [i \in Lines |-> 0], last |-> Forced(0, Lines),
              enabled |-> FALSE, set |-> Forced(0, Lines), read |-> FALSE]
    /\ \E power \in BOOLEAN :
          line = [driven |-> FALSE, key |-> FALSE, power |-> power]
    /\ kb = [seen |-> None, off |-> FALSE, rtimer |-> Off, ltimer |-> Off]
    /\ console = [pc |-> "idle", bits |-> Forced(0, Lines), i |-> 0]
    /\ prog = NoProg
    /\ access = [op |-> "none", bank |-> 0, hit |-> {}, excused |-> FALSE]
    /\ low = 0 /\ longs = 0
    /\ commands = 0 /\ polled = FALSE

Amiga == BankSetCurrent \/ BankSetReset \/ BankSetPoweron \/ BankMerge
            \/ BankLreset \/ SmashStart \/ SmashAccess \/ SmashEnd
Console == PromBankCurrent \/ ConsolePin \/ ConsoleLast \/ ConsoleRecord
            \/ PromBankOther \/ PromBankMerge \/ PromBankLongreset \/ ResetAmiga \/ ResetProm
            \/ ee_enable \/ ee_disable

Next == Poll \/ Tick \/ Key \/ Power \/ Amiga \/ Console
Spec == Init /\ [][Next]_vars

\* The main loop goes round; time passes however often keys are pressed.
FairSpec == Spec /\ WF_vars(Poll) /\ SF_vars(Tick)
                 /\ WF_vars(ConsolePin \/ ConsoleLast \/ ConsoleRecord)
-----------------------------------------------------------------------------
\* The types; and no MERGE command, from either side, makes a bank part of a
\* block that does not begin at a multiple of its size.
BankOrNone == Banks \cup {None}
Forces == [bank : Banks, mask : SUBSET Lines]
Block == [add : {0, 1, 3, 7}, sub : Banks]
Aligned(b, m) == m.sub <= m.add /\ (b - m.sub) % (m.add + 1) = 0
Infos == [current : Banks, nextreset : BankOrNone, poweron : Banks,
          seq : [Banks -> BankOrNone], merge : [Banks -> Block]]
Roms == [pins : [Lines -> {Z, 0, 1}], last : Forces,
         enabled : BOOLEAN, set : Forces, read : BOOLEAN]
LinesOfReset == [driven : BOOLEAN, key : BOOLEAN, power : BOOLEAN]
Timers == [seen : {0, 1, None}, off : BOOLEAN, rtimer : {Off} \cup 0 .. LongPulse,
           ltimer : {Off, Never} \cup 0 .. LongTime]
Consoles == [pc : {"idle", "pins", "last", "record"}, bits : Forces, i : Lines]
Progs == [pc : {"none", "temp", "done"}, op : {"none", "read", "write", "erase"},
          bank : Banks, set : BOOLEAN, disturbed : BOOLEAN]
Accesses == [op : {"none", "write", "erase"}, bank : Banks,
             hit : SUBSET Banks, excused : BOOLEAN]
TypeOK ==
    /\ bi \in Infos /\ \A b \in Banks : Aligned(b, bi.merge[b])
    /\ rom \in Roms /\ line \in LinesOfReset /\ kb \in Timers
    /\ console \in Consoles /\ prog \in Progs /\ access \in Accesses
    /\ low \in 0 .. LongTime /\ longs \in Nat
    /\ commands \in Nat /\ polled \in BOOLEAN

\* When the Amiga comes out of reset the forced lines are exactly those of the
\* current bank and its block: it boots from the bank chosen last, whatever
\* bank smash was showing, however the reset was asked for or cut short, and
\* whatever the console did to the lines before the reset. Three faults of the
\* code are excepted: lines of two banks; a block of four or eight banks, for
\* which ee_set_bank takes the wrong case or none, so that no line is forced or
\* those of the bank before are; and an override that the console's use of
\* the flash during this reset has dropped (address_output_disable is to
\* "Restore previous A19-A18-A17 override" and finds the suspended one).
AsSet == \A i \in Lines : rom.pins[i] = Level(rom.set, i)
WideBlock == 1 \notin rom.set.mask
BootsCurrent ==
    [][~Running /\ Running' =>
          \/ AsSet' /\ rom'.set.bank = bi'.current
          \/ Mixed' \/ WideBlock' \/ rom'.read]_vars

\* A long reset is taken only when the line has been low for the whole time,
\* and once for one reset, with console resets and keys in any order.
LongResetOnce == longs > 0 => low >= LongTime /\ longs = 1

\* What smash writes goes to the bank it was told, and so does what it erases
\* if the bank was set; unless the console touched the banks meanwhile, or had
\* left lines of two banks.
WritesItsBank == access.excused \/ access.hit \subseteq {access.bank}

\* A reset that the board began, and does not hold, comes to an end.
Held == kb.ltimer = Never
ResetEnds == (line.driven /\ ~Held) ~> (~line.driven \/ Held)

=============================================================================
