------------------------------ MODULE ConfigStore ------------------------------
(***************************************************************************)
(* The configuration store of fw/config.c on the flash of                  *)
(* fw/stm32flash.c.  Configurations are appended as records to an area of  *)
(* internal flash; a save first invalidates the old record.  Commands in   *)
(* the interrupt change the configuration while the main loop saves it,    *)
(* and the power may fail between two flash operations.                    *)
(*                                                                         *)
(* A cell of flash is a 32-bit word.  A record is the words magic, crc,    *)
(* attributes (size and valid), then one word per field of the             *)
(* configuration.  The CRC is perfect: it is the configuration it was      *)
(* computed from.  A field never looks like a magic.                       *)
(*                                                                         *)
(* Two of the fields are bi_bank_poweron and bi_bank_current.  Like every  *)
(* field they are under the CRC and are saved with the others; but a       *)
(* change of the current bank does not schedule a save.                    *)
(* bi_bank_nextreset is as bi_bank_current and is not told apart from it.  *)
(***************************************************************************)
EXTENDS Integers, Sequences, FiniteSetsExt

CONSTANTS NFields, Values,   \* a configuration: NFields words of Values
          PowerOn, Current,  \* the fields bi_bank_poweron, bi_bank_current
          Default,           \* the configuration of a new board
          NPages, PageLen,   \* the area: pages of PageLen words
          Supplies           \* how the power may fail: sets of points of the
                             \* main loop (values of pc, and "half" for the
                             \* middle of a word that is being written)

RecLen   == 3 + NFields
AreaLen  == NPages * PageLen
Contents == [1 .. NFields -> Values]

ASSUME StoreAssumption ==
  /\ NFields \in Nat /\ Values \subseteq Nat /\ Default \in Contents
  /\ NPages \in Nat \ {0} /\ PageLen \in Nat
  /\ AreaLen >= RecLen
  /\ Supplies \subseteq SUBSET {"idle", "crc", "scan", "space", "erase",
                               "write", "half"}

ASSUME FieldAssumption ==
  PowerOn \in 1 .. NFields /\ Current \in 1 .. NFields /\ PowerOn # Current

VARIABLES flash,         \* the configuration area
          config,        \* config: the fields in RAM
          crc,           \* config.crc
          config_timer,  \* config_timer # 0
          torn,          \* the current bank changed since the last save of
                         \* config began to be copied, before it ended
          pc,            \* what the main loop is doing in config_poll
          addr,          \* its addr
          pos,           \* words of the record written
          supply         \* where the power of this board may fail (constant)

ram  == <<config, config_timer, torn, supply>>
vars == <<flash, config, crc, config_timer, torn, pc, addr, pos, supply>>

-------------------------------------------------------------------------------
(* Flash words                                                             *)

Blank      == <<"blank">>
Magic      == <<"magic">>
Crc(c)     == <<"crc", c>>
Attr(s, v) == <<"attr", s, v>>
Data(v)    == <<"data", v>>
Half(w)    == <<"half", w>>      \* only the low half of w was programmed

\* Word k of the structure config in RAM.
RamWord(sum, c, k) == CASE k = 0 -> Magic
                        [] k = 1 -> Crc(sum)
                        [] k = 2 -> Attr(RecLen, 1)
                        [] OTHER -> Data(c[k - 2])

\* ptr->size of an attribute word in flash: 0xffff skips past the area.
SizeOf(w) == CASE w[1] = "attr" -> w[2]
               [] w[1] = "data" -> w[2]
               [] w[1] = "half" /\ w[2][1] \in {"attr", "data"} -> w[2][2]
               [] OTHER         -> AreaLen

\* ptr->valid of an attribute word: an unprogrammed half reads 0xff.
Valid(w) == CASE w[1] = "attr" -> w[3] # 0
              [] w[1] = "data" -> w[2] # 0
              [] OTHER         -> TRUE

IsRecord(a) == flash[a] = Magic /\ Valid(flash[a + 2])

Records == {a \in 0 .. AreaLen - 1 : IsRecord(a)}

\* The record at a equals the structure with the CRC sum and the fields c.
Equal(a, sum, c) == \A k \in 0 .. RecLen - 1 : flash[a + k] = RamWord(sum, c, k)

Good == {a \in Records : /\ flash[a + 1][1] = "crc"
                         /\ LET c == flash[a + 1][2] IN Equal(a, c, c)}

\* config_read: the first valid record, or nothing.
Stored == IF Good = {} THEN {} ELSE {flash[Min(Good) + 1][2]}

\* flash_write16, for each half: only erased flash can be programmed.
ProgramLow(old, w)  == IF old = Blank THEN Half(w) ELSE old
ProgramWord(old, w) == IF old = Blank THEN w ELSE old

-------------------------------------------------------------------------------
(* Start, and changes by commands                                          *)

\* cold_poweron: after a cold start the current bank is that for power-on.
Started(c) == {c, [c EXCEPT ![Current] = c[PowerOn]]}

InUse(found) == IF found = {} THEN {Default} ELSE UNION {Started(c) : c \in found}

\* Faulty: the defaults are not scheduled to be saved.
ReadUnsaved(found) == config' \in InUse(found) /\ config_timer' = FALSE

\* What config_read leaves in RAM for the record it found.
Read(found) == config' \in InUse(found) /\ config_timer' = (found = {})

Init == /\ flash = [a \in 0 .. AreaLen - 1 |-> Blank]
        /\ config = Default /\ config_timer = TRUE /\ torn = FALSE
        /\ crc = Default /\ pc = "idle" /\ addr = 0 /\ pos = 0
        /\ supply \in Supplies

\* Faulty: a change during a save is not scheduled.
UpdatedWhenIdle == config_timer' = (config_timer \/ pc = "idle")

config_updated == config_timer' = TRUE

\* A command of the Amiga, in the interrupt, or of the console sets a field
\* that is to be saved.
Change(f, v) == /\ f # Current
                /\ config' = [config EXCEPT ![f] = v]
                /\ config_updated
                /\ UNCHANGED <<flash, crc, torn, pc, addr, pos, supply>>

\* A command, or the reset of the Amiga, selects a bank: no save is scheduled.
ChangeBank(v) == /\ config[Current] # v
                 /\ config' = [config EXCEPT ![Current] = v]
                 /\ torn' = (torn \/ pc # "idle")
                 /\ UNCHANGED <<flash, crc, config_timer, pc, addr, pos, supply>>

-------------------------------------------------------------------------------
(* config_poll and config_write in the main loop                           *)

Goto(label) == pc' = label

\* Faulty: the timer is cleared after the save.
DoneClears == /\ Goto("idle")
              /\ addr' = 0 /\ pos' = 0
              /\ config_timer' = FALSE /\ UNCHANGED <<torn, supply>>

Done == /\ Goto("idle")
        /\ addr' = 0 /\ pos' = 0
        /\ UNCHANGED <<config_timer, torn, supply>>

\* The timer has elapsed: it is cleared before the save.
config_poll == /\ pc = "idle" /\ config_timer
               /\ config_timer' = FALSE
               /\ Goto("crc")
               /\ UNCHANGED <<flash, config, crc, torn, addr, pos, supply>>

ComputeCrc == /\ pc = "crc"
              /\ crc' = config /\ torn' = FALSE /\ addr' = 0
              /\ Goto("scan")
              /\ UNCHANGED <<flash, config, config_timer, supply, pos>>

\* The next record from addr that is still valid.
Ahead == {a \in Records : a >= addr}

ScanMatch == /\ pc = "scan" /\ Ahead # {}
             /\ Equal(Min(Ahead), crc, config)
             /\ Done
             /\ UNCHANGED <<flash, config, crc>>

\* Faulty: the old record stays valid.
ScanKeep ==
  /\ pc = "scan" /\ Ahead # {}
  /\ ~Equal(Min(Ahead), crc, config)
  /\ addr' = Min(Ahead) + 1
  /\ UNCHANGED <<flash, ram, crc, pc, pos>>

ScanInvalidate ==
  /\ pc = "scan" /\ Ahead # {}
  /\ LET a == Min(Ahead) IN
       /\ ~Equal(a, crc, config)
       /\ flash' = [flash EXCEPT ![a + 2] = Attr(SizeOf(@), 0)]
       /\ addr' = a + 1
  /\ UNCHANGED <<ram, crc, pc, pos>>

ScanEnd == /\ pc = "scan" /\ Ahead = {}
           /\ addr' = 0
           /\ Goto("space")
           /\ UNCHANGED <<flash, ram, crc, pos>>

SpaceSkip == /\ pc = "space" /\ addr < AreaLen
             /\ flash[addr] # Blank
             /\ addr' = addr + (IF flash[addr] = Magic
                                THEN SizeOf(flash[addr + 2]) ELSE 1)
             /\ UNCHANGED <<flash, ram, crc, pc, pos>>

\* Faulty: the space is taken to be one word longer.
SpaceOffByOne == /\ pc = "space"
                 /\ addr < AreaLen => flash[addr] = Blank
                 /\ IF addr + RecLen - 1 > AreaLen
                    THEN Goto("erase") /\ addr' = 0
                    ELSE Goto("write") /\ UNCHANGED addr
                 /\ UNCHANGED <<flash, ram, crc, pos>>

SpaceFound == /\ pc = "space"
              /\ addr < AreaLen => flash[addr] = Blank
              /\ IF addr + RecLen > AreaLen
                 THEN Goto("erase") /\ addr' = 0
                 ELSE Goto("write") /\ UNCHANGED addr
              /\ UNCHANGED <<flash, ram, crc, pos>>

\* stm32flash_erase, page by page.
ErasePage == /\ pc = "erase"
             /\ flash' = [a \in DOMAIN flash |->
                            IF a \in addr .. addr + PageLen - 1
                            THEN Blank ELSE flash[a]]
             /\ IF addr + PageLen < AreaLen
                THEN addr' = addr + PageLen /\ UNCHANGED pc
                ELSE addr' = 0 /\ Goto("write")
             /\ UNCHANGED <<ram, crc, pos>>

\* Faulty: the loop runs once too often.
WriteWordTooLong ==
  /\ pc = "write"
  /\ flash' = [flash EXCEPT ![addr + pos] =
                 ProgramWord(@, RamWord(crc, config, pos))]
  /\ IF pos < RecLen
     THEN /\ pos' = pos + 1
          /\ UNCHANGED <<config_timer, torn, pc, addr, supply>>
     ELSE Done
  /\ UNCHANGED <<config, crc>>

\* stm32flash_write, a word at a time, from the structure in RAM.
WriteWord == /\ pc = "write"
             /\ flash' = [flash EXCEPT ![addr + pos] =
                            ProgramWord(@, RamWord(crc, config, pos))]
             /\ IF pos < RecLen - 1
                THEN /\ pos' = pos + 1
                     /\ UNCHANGED <<config_timer, torn, pc, addr, supply>>
                ELSE Done
             /\ UNCHANGED <<config, crc>>

MainLoop == \/ config_poll \/ ComputeCrc
            \/ ScanMatch \/ ScanInvalidate \/ ScanEnd
            \/ SpaceSkip \/ SpaceFound
            \/ ErasePage \/ WriteWord

-------------------------------------------------------------------------------
(* Power loss and restart                                                  *)

Boot == /\ Read(Stored')
        /\ Goto("idle") /\ crc' = config' /\ addr' = 0 /\ pos' = 0
        /\ torn' = FALSE /\ UNCHANGED supply

PowerLoss == pc \in supply /\ UNCHANGED flash /\ Boot

PowerLossInWord ==
  /\ "half" \in supply /\ pc = "write"
  /\ flash' = [flash EXCEPT ![addr + pos] =
                 ProgramLow(@, RamWord(crc, config, pos))]
  /\ Boot

Next == \/ \E f \in 1 .. NFields, v \in Values : Change(f, v)
        \/ \E v \in Values : ChangeBank(v)
        \/ MainLoop
        \/ PowerLoss \/ PowerLossInWord

Spec == Init /\ [][Next]_vars

\* The main loop is never left; the timer elapses.
FairSpec == Spec /\ WF_vars(MainLoop)

-------------------------------------------------------------------------------
(* Properties                                                              *)

Word == {Blank, Magic} \cup {Crc(c) : c \in Contents}
        \cup {Attr(s, v) : s \in {RecLen, AreaLen} \cup Values, v \in {0, 1}}
        \cup {Data(v) : v \in Values}

TypeOK == /\ flash \in [0 .. AreaLen - 1 -> Word \cup {Half(w) : w \in Word}]
          /\ config \in Contents /\ crc \in Contents
          /\ config_timer \in BOOLEAN /\ torn \in BOOLEAN
          /\ pc \in {"idle", "crc", "scan", "space", "erase", "write"}
          /\ addr \in Nat /\ pos \in 0 .. RecLen - 1
          /\ supply \in Supplies

\* config_read takes the first record it likes: there must never be two, or
\* it could bring back an old configuration.
OneGood == Cardinality(Good) <= 1

\* The fields whose changes are to be saved.
Kept(c) == [f \in (1 .. NFields) \ {Current} |-> c[f]]
KeptSafe == {Kept(c) : c \in Stored} = {Kept(config)}

\* When no save runs and none is due, a restart finds the fields in use that
\* are to be saved, however often they were changed during a save or the power
\* failed: except when the bank was switched between the CRC of the last save
\* and its end, for then the record may not match its CRC, and is not due again.
SavedReadable == pc = "idle" /\ ~config_timer => torn \/ KeptSafe

\* The space search looks at the first word only: all the words the record
\* will occupy are erased.
WritesBlank == pc = "write" => \A k \in pos .. RecLen - 1 :
                                 /\ addr + k \in DOMAIN flash
                                 /\ flash[addr + k] = Blank

\* The store implements the register: a restart finds the last snapshot
\* stored or nothing; outside a save nothing is lost, and a save loses nothing
\* for good unless the bank is switched meanwhile.
Register == INSTANCE ConfigRegister WITH
              dirty <- config_timer, stored <- Stored,
              saving <- (pc # "idle"), snapshot <- crc
RegisterSpec == Register!Spec

\* Once changes and power losses stop, the fields to be saved get saved, with
\* the exception of SavedReadable.
Quiet == <>[][~PowerLoss /\ ~PowerLossInWord
              /\ UNCHANGED config /\ ~(config_timer' /\ ~config_timer)]_vars
EventuallySaved == Quiet => <>[](torn \/ KeptSafe)

\* fw/smash_cmd.h 231-233: the bank information "will persist across reboots
\* and power cycles".  Once a record can be read, one always can, whenever the
\* power fails.
Persists == [][Stored # {} => Stored' # {}]_vars
===============================================================================
