-------------------------- MODULE ConfigStore_proofs --------------------------
(***************************************************************************)
(* Proofs about ConfigStore, for every size of the configuration and of    *)
(* the area, wherever and however often the power fails.                   *)
(***************************************************************************)
EXTENDS ConfigStore, FiniteSetTheorems, TLAPS

-------------------------------------------------------------------------------
(* The inductive invariant.                                                *)

\* The boards the theorems are about: a page of flash holds a whole number of
\* records (fw/config.h, fw/stm32flash.c: 256 of 2048 bytes), and no board
\* fails both in the middle of a word and in the middle of an erase.
Whole(n) == \E j \in Nat : n = j * RecLen

SoundBoards ==
  /\ Whole(PageLen)
  /\ \A s \in Supplies : ~ ({"half", "erase"} \subseteq s)

\* What a power loss or an invalidation can leave behind a magic.
CrcWords  == {Blank} \cup {Crc(c) : c \in Contents} \cup {Half(Crc(c)) : c \in Contents}
AttrWords == {Blank, Attr(RecLen, 1), Half(Attr(RecLen, 1)),
              Attr(RecLen, 0), Attr(AreaLen, 0)}
DataWords == {Blank} \cup {Data(v) : v \in Values} \cup {Half(Data(v)) : v \in Values}

\* Every magic stands at the start of the room of a whole record, and the words
\* behind it are of that record.
SlotAt(fl, a) ==
  /\ a + RecLen <= AreaLen
  /\ fl[a + 1] \in CrcWords
  /\ fl[a + 2] \in AttrWords
  /\ \A k \in 3 .. RecLen - 1 : fl[a + k] \in DataWords

Slots(fl) == \A a \in 0 .. AreaLen - 1 : fl[a] = Magic => SlotAt(fl, a)

\* There is at most one valid record, complete or not; a save invalidates it
\* before it looks for space.
RecordsInv ==
  /\ \A a, b \in Records : a = b
  /\ pc = "scan" => \A a \in Records : a >= addr
  /\ pc \in {"space", "erase"} => Records = {}
  /\ pc = "write" => Records \subseteq {addr}

\* While nothing has changed since the save took its snapshot, its CRC is that
\* of the configuration.
SnapshotInv ==
  pc \in {"scan", "space", "erase", "write"} =>
    (~ config_timer /\ ~ torn => crc = config)

\* The record being written: the words up to pos are there, and those of the
\* fields are the configuration's if it did not change; the others are erased.
WriteInv ==
  pc = "write" =>
    /\ addr + RecLen <= AreaLen
    /\ pos > 0 => flash[addr] = Magic
    /\ pos > 1 => flash[addr + 1] = Crc(crc)
    /\ pos > 2 => flash[addr + 2] = Attr(RecLen, 1)
    /\ \A k \in 3 .. pos - 1 :
         /\ \E v \in Values : flash[addr + k] = Data(v)
         /\ ~ config_timer /\ ~ torn => flash[addr + k] = Data(config[k - 2])
    /\ \A k \in pos .. RecLen - 1 : flash[addr + k] = Blank

\* The room of some record contains word b, other than as its first.
Inside(fl, b) == \E a \in 0 .. AreaLen - 1 :
                   fl[a] = Magic /\ a < b /\ b < a + RecLen

\* A board whose erase is never cut short: up to index e everything is used,
\* from there on everything is erased.
Front(fl, e) ==
  /\ e \in 0 .. AreaLen
  /\ \A b \in e .. AreaLen - 1 : fl[b] = Blank
  /\ \A b \in 0 .. e - 1 : fl[b] = Blank => Inside(fl, b)
  /\ \A a \in 0 .. AreaLen - 1 : fl[a] = Magic => a + RecLen <= e

FrontInv ==
  /\ pc \in {"idle", "crc", "scan"} => \E e \in 0 .. AreaLen : Front(flash, e)
  /\ pc = "space" => \E e \in 0 .. AreaLen :
       /\ Front(flash, e)
       /\ addr >= AreaLen \/ (addr <= e /\ ~ Inside(flash, addr))
  /\ pc = "write" => Front(flash, IF pos = 0 THEN addr ELSE addr + RecLen)

\* A board whose words are never cut short: all records stand at multiples of
\* their length, and everything else is erased.
Aligned(fl) ==
  /\ \A a \in 0 .. AreaLen - 1 : fl[a] = Magic => Whole(a)
  /\ \A b \in 0 .. AreaLen - 1 : fl[b] # Blank =>
        \E a \in 0 .. AreaLen - 1 : fl[a] = Magic /\ a <= b /\ b < a + RecLen

AlignedInv ==
  /\ Aligned(flash)
  /\ pc \in {"space", "erase", "write"} => Whole(addr)

\* How the records lie in flash.  An erase goes up from the first page.
Layout ==
  /\ Slots(flash)
  /\ pc = "erase" => \A b \in 0 .. AreaLen - 1 : b < addr => flash[b] = Blank
  /\ "erase" \notin supply => FrontInv
  /\ "erase" \in supply => AlignedInv
  /\ pc # "write" => pos = 0

IInv ==
  /\ TypeOK
  /\ Layout
  /\ RecordsInv
  /\ SnapshotInv
  /\ WriteInv
  /\ SavedReadable

-------------------------------------------------------------------------------
(* Words, records and rooms.                                               *)

USE StoreAssumption

LEMMA Lengths ==
  /\ RecLen \in Nat /\ RecLen > 3 /\ NPages \in Nat /\ PageLen \in Nat
  /\ AreaLen \in Nat /\ AreaLen >= RecLen
BY FieldAssumption DEF RecLen, AreaLen

\* The words of a slot by kind: none of them is a magic.
LEMMA KindsDiffer ==
  /\ Magic # Blank
  /\ \A w : Half(w) # Magic /\ Half(w) # Blank
  /\ \A c : Crc(c) # Magic /\ Crc(c) # Blank
  /\ \A v : Data(v) # Magic /\ Data(v) # Blank
  /\ \A x, v : Attr(x, v) # Magic /\ Attr(x, v) # Blank
  /\ \A w, v : Half(w) # Data(v)
  /\ \A x, y : Data(x) = Data(y) => x = y
  /\ \A x, y : Crc(x) = Crc(y) => x = y
BY DEF Magic, Blank, Half, Crc, Data, Attr

LEMMA SlotKinds ==
  /\ Magic \notin CrcWords /\ Magic \notin AttrWords /\ Magic \notin DataWords
  /\ Blank \in CrcWords /\ Blank \in AttrWords /\ Blank \in DataWords
BY KindsDiffer DEF CrcWords, AttrWords, DataWords

\* What the firmware reads of an attribute word.
LEMMA AttrRead ==
  /\ \A w \in AttrWords : SizeOf(w) \in {RecLen, AreaLen}
  /\ \A w \in AttrWords : Attr(SizeOf(w), 0) \in AttrWords
  /\ \A x : ~ Valid(Attr(x, 0))
<1>1. SizeOf(Blank) = AreaLen
  BY DEF Blank, SizeOf
<1>2. \A x, v : SizeOf(Attr(x, v)) = x
  BY DEF Attr, SizeOf
<1>3. \A x, v : SizeOf(Half(Attr(x, v))) = x
  BY DEF Attr, Half, SizeOf
<1>4. \A w \in AttrWords : SizeOf(w) \in {RecLen, AreaLen}
  BY <1>1, <1>2, <1>3 DEF AttrWords
<1>5. \A x : ~ Valid(Attr(x, 0))
  BY DEF Attr, Valid
<1> QED BY <1>4, <1>5 DEF AttrWords

\* The words of the types.
LEMMA WordKinds ==
  /\ Blank \in Word /\ Magic \in Word
  /\ \A c \in Contents : Crc(c) \in Word
  /\ \A v \in Values : Data(v) \in Word
  /\ \A x \in {RecLen, AreaLen}, v \in {0, 1} : Attr(x, v) \in Word
BY DEF Word

\* The rooms of two records do not overlap.
LEMMA Disjoint ==
  ASSUME NEW fl, Slots(fl),
         NEW a \in 0 .. AreaLen - 1, NEW b \in 0 .. AreaLen - 1,
         fl[a] = Magic, fl[b] = Magic, a < b
  PROVE  a + RecLen <= b
<1>1. SlotAt(fl, a)
  BY DEF Slots
<1> DEFINE k == b - a
<1>2. k \in Nat /\ k > 0 /\ b = a + k
  OBVIOUS
<1> HIDE DEF k
<1>3. ASSUME k < RecLen PROVE FALSE
  <2>1. k = 1 \/ k = 2 \/ k \in 3 .. RecLen - 1
    BY <1>2, <1>3, Lengths
  <2> QED BY <1>1, <1>2, <2>1, SlotKinds DEF SlotAt
<1> QED BY <1>2, <1>3, Lengths

\* Multiples of the record length that differ do so by a record length.
LEMMA WholeStep ==
  ASSUME NEW a \in Nat, NEW b \in Nat, Whole(a), Whole(b), a < b
  PROVE  a + RecLen <= b
<1>1. PICK i \in Nat : a = i * RecLen
  BY DEF Whole
<1>2. PICK j \in Nat : b = j * RecLen
  BY DEF Whole
<1>3. i < j
  <2>1. ASSUME j <= i PROVE FALSE
    <3>1. j * RecLen <= i * RecLen
      BY <2>1, Lengths
    <3> QED BY <1>1, <1>2, <3>1
  <2> QED BY <2>1
<1>4. (i + 1) * RecLen <= j * RecLen
  BY <1>3, Lengths
<1>5. (i + 1) * RecLen = i * RecLen + RecLen
  BY Lengths
<1> QED BY <1>1, <1>2, <1>4, <1>5

LEMMA WholeSum ==
  /\ \A a, b \in Nat : Whole(a) /\ Whole(b) => Whole(a + b)
  /\ Whole(0) /\ Whole(RecLen)
<1>1. ASSUME NEW a \in Nat, NEW b \in Nat, Whole(a), Whole(b) PROVE Whole(a + b)
  <2>1. PICK i \in Nat : a = i * RecLen
    BY <1>1 DEF Whole
  <2>2. PICK j \in Nat : b = j * RecLen
    BY <1>1 DEF Whole
  <2>3. (i + j) * RecLen = a + b
    BY <2>1, <2>2, Lengths
  <2>4. i + j \in Nat
    OBVIOUS
  <2> QED BY <2>3, <2>4 DEF Whole
<1>2. 0 = 0 * RecLen /\ RecLen = 1 * RecLen
  BY Lengths
<1> QED BY <1>1, <1>2 DEF Whole

LEMMA WholeArea == SoundBoards => Whole(AreaLen)
<1> SUFFICES ASSUME SoundBoards PROVE Whole(AreaLen)
  OBVIOUS
<1>1. PICK j \in Nat : PageLen = j * RecLen
  BY DEF SoundBoards, Whole
<1>2. AreaLen = (NPages * j) * RecLen
  BY <1>1, Lengths DEF AreaLen
<1>3. NPages * j \in Nat
  BY Lengths
<1> QED BY <1>2, <1>3 DEF Whole

\* What a restart reads when there is at most one record.
LEMMA MinOne == ASSUME NEW x \in Int PROVE Min({x}) = x
BY DEF Min

LEMMA StoredOne ==
  ASSUME NEW x \in Int, Good \subseteq {x}
  PROVE  /\ x \in Good => Stored = {flash[x + 1][2]}
         /\ x \notin Good => Stored = {}
<1>1. CASE x \in Good
  <2>1. Good = {x}
    BY <1>1
  <2> QED BY <2>1, MinOne DEF Stored
<1>2. CASE x \notin Good
  <2>1. Good = {}
    BY <1>2
  <2> QED BY <1>2, <2>1 DEF Stored
<1> QED BY <1>1, <1>2
-------------------------------------------------------------------------------
(* Steps that leave the flash alone.                                       *)

\* What is in flash does not change with it.
LEMMA SameFlash ==
  flash' = flash => Records' = Records /\ Good' = Good /\ Stored' = Stored
BY DEF Records, IsRecord, Good, Equal, Stored

\* The record a scan has come to: the only one.
LEMMA AheadOne ==
  ASSUME IInv, Ahead # {}
  PROVE  /\ Min(Ahead) \in Records /\ Records = {Min(Ahead)}
         /\ Min(Ahead) \in 0 .. AreaLen - 1 /\ Min(Ahead) >= addr
         /\ flash[Min(Ahead)] = Magic /\ SlotAt(flash, Min(Ahead))
<1>1. PICK a \in Records : a >= addr
  BY DEF Ahead
<1>2. Records = {a} /\ Ahead = {a}
  BY <1>1 DEF IInv, RecordsInv, Ahead
<1>3. a \in 0 .. AreaLen - 1 /\ flash[a] = Magic
  BY <1>1 DEF Records, IsRecord
<1>4. a \in Int
  BY <1>3
<1>5. Min(Ahead) = a
  BY <1>2, <1>4, MinOne
<1> QED BY <1>1, <1>2, <1>3, <1>5 DEF IInv, Layout, Slots

\* A command changes the configuration, at any point of a save.
LEMMA ChangeInv ==
  ASSUME IInv, NEW f \in 1 .. NFields, NEW v \in Values, Change(f, v)
  PROVE  IInv'
<1>0. TypeOK /\ Layout /\ RecordsInv /\ SnapshotInv /\ WriteInv
  BY DEF IInv
<1>1. /\ config' = [config EXCEPT ![f] = v] /\ config_timer' = TRUE
      /\ UNCHANGED <<flash, crc, torn, pc, addr, pos, supply>>
  BY DEF Change, config_updated
<1>2. TypeOK'
  <2>1. config' \in Contents
    BY <1>0, <1>1 DEF TypeOK, Contents
  <2> QED BY <1>0, <1>1, <2>1 DEF TypeOK
<1>3. Layout'
  BY <1>0, <1>1 DEF Layout, FrontInv, AlignedInv
<1>4. RecordsInv'
  <2>1. Records' = Records
    BY <1>1, SameFlash
  <2> QED BY <1>0, <1>1, <2>1 DEF RecordsInv
<1>5. SnapshotInv' /\ SavedReadable'
  BY <1>1 DEF SnapshotInv, SavedReadable
<1>6. WriteInv'
  BY <1>0, <1>1 DEF WriteInv
<1> QED BY <1>2, <1>3, <1>4, <1>5, <1>6 DEF IInv

\* The fields that are to be saved are not those a switch of the bank changes.
LEMMA KeptSame ==
  ASSUME NEW c \in Contents, NEW v
  PROVE  Kept([c EXCEPT ![Current] = v]) = Kept(c)
BY DEF Kept, Contents

\* The bank is switched, at any point of a save.
LEMMA ChangeBankInv ==
  ASSUME IInv, NEW v \in Values, ChangeBank(v)
  PROVE  IInv'
<1>0. TypeOK /\ Layout /\ RecordsInv /\ SnapshotInv /\ WriteInv /\ SavedReadable
  BY DEF IInv
<1>1. /\ config' = [config EXCEPT ![Current] = v] /\ torn' = (torn \/ pc # "idle")
      /\ UNCHANGED <<flash, crc, config_timer, pc, addr, pos, supply>>
  BY DEF ChangeBank
<1>2. config \in Contents
  BY <1>0 DEF TypeOK
<1>3. TypeOK'
  <2>1. config' \in Contents
    BY <1>1, <1>2, FieldAssumption DEF Contents
  <2>2. torn' \in BOOLEAN
    BY <1>0, <1>1 DEF TypeOK
  <2> QED BY <1>0, <1>1, <2>1, <2>2 DEF TypeOK
<1>4. Layout'
  BY <1>0, <1>1 DEF Layout, FrontInv, AlignedInv
<1>5. Records' = Records /\ Stored' = Stored
  BY <1>1, SameFlash
<1>6. RecordsInv'
  BY <1>0, <1>1, <1>5 DEF RecordsInv
<1>7. SnapshotInv' /\ WriteInv'
  <2>1. pc # "idle" => torn'
    BY <1>1
  <2>2. SnapshotInv'
    BY <1>1, <2>1 DEF SnapshotInv
  <2>3. WriteInv'
    BY <1>0, <1>1, <2>1 DEF WriteInv
  <2> QED BY <2>2, <2>3
<1>8. SavedReadable'
  <2>1. Kept(config') = Kept(config)
    BY <1>1, <1>2, KeptSame
  <2>2. KeptSafe' <=> KeptSafe
    BY <1>5, <2>1 DEF KeptSafe
  <2>3. torn => torn'
    BY <1>1
  <2> QED BY <1>0, <1>1, <2>2, <2>3 DEF SavedReadable
<1> QED BY <1>3, <1>4, <1>6, <1>7, <1>8 DEF IInv

\* A save begins and takes its snapshot.
LEMMA BeginInv ==
  ASSUME IInv, config_poll \/ ComputeCrc
  PROVE  IInv'
<1> USE DEF ram, Goto
<1>0. TypeOK /\ Layout /\ RecordsInv /\ SnapshotInv /\ WriteInv
  BY DEF IInv
<1>1. /\ UNCHANGED <<flash, config, pos, supply>>
      /\ \/ pc = "idle" /\ pc' = "crc" /\ UNCHANGED <<crc, addr, torn>>
            /\ config_timer' = FALSE
         \/ pc = "crc" /\ pc' = "scan" /\ crc' = config /\ addr' = 0
            /\ UNCHANGED config_timer /\ torn' = FALSE
  BY DEF config_poll, ComputeCrc
<1>2. TypeOK'
  <2>1. crc' \in Contents /\ addr' \in Nat
    BY <1>0, <1>1 DEF TypeOK
  <2>3. config_timer' \in BOOLEAN /\ torn' \in BOOLEAN
    BY <1>0, <1>1 DEF TypeOK
  <2>2. pc' \in {"crc", "scan"}
    BY <1>1
  <2> QED BY <1>0, <1>1, <2>1, <2>2, <2>3 DEF TypeOK
<1>3. Layout'
  BY <1>0, <1>1 DEF Layout, FrontInv, AlignedInv
<1>4. RecordsInv'
  <2>1. Records' = Records /\ \A a \in Records : a >= 0
    BY <1>1, SameFlash DEF Records
  <2> QED BY <1>0, <1>1, <2>1 DEF RecordsInv
<1>5. SnapshotInv' /\ SavedReadable' /\ WriteInv'
  BY <1>0, <1>1 DEF SnapshotInv, SavedReadable, WriteInv
<1> QED BY <1>2, <1>3, <1>4, <1>5 DEF IInv

\* The record found is a good one if nothing changed since the save began; and
\* it is not, if the configuration differs from what the CRC was computed of.
LEMMA MatchGood ==
  ASSUME IInv, ScanMatch
  PROVE  Stored = IF crc = config THEN {crc} ELSE {}
<1> DEFINE a == Min(Ahead)
<1>1. /\ Records = {a} /\ a \in 0 .. AreaLen - 1 /\ SlotAt(flash, a)
      /\ Equal(a, crc, config)
  BY AheadOne DEF ScanMatch
<1> HIDE DEF a
<1>2. crc \in Contents /\ config \in Contents
  BY DEF IInv, TypeOK
<1>3. flash[a + 1] = Crc(crc)
  BY <1>1, Lengths DEF Equal, RamWord
<1>4. flash[a + 1][1] = "crc" /\ flash[a + 1][2] = crc
  BY <1>3 DEF Crc
<1>5. Good \subseteq {a}
  BY <1>1 DEF Good
<1>6. a \in Good <=> Equal(a, crc, crc)
  BY <1>1, <1>4 DEF Good
<1>7. CASE crc = config
  BY <1>1, <1>4, <1>5, <1>6, <1>7, StoredOne
<1>8. CASE crc # config
  <2>1. PICK f \in 1 .. NFields : crc[f] # config[f]
    BY <1>2, <1>8 DEF Contents
  <2>2. f + 2 \in 0 .. RecLen - 1 /\ f + 2 \notin {0, 1, 2} /\ (f + 2) - 2 = f
    BY Lengths DEF RecLen
  <2>3. flash[a + (f + 2)] = Data(config[f])
    BY <1>1, <2>2 DEF Equal, RamWord
  <2>4. RamWord(crc, crc, f + 2) = Data(crc[f])
    BY <2>2 DEF RamWord
  <2>5. ~ Equal(a, crc, crc)
    BY <2>1, <2>2, <2>3, <2>4, KindsDiffer DEF Equal
  <2> QED BY <1>1, <1>5, <1>6, <1>8, <2>5, StoredOne
<1> QED BY <1>7, <1>8

\* A save finds that the record stored is the one to write.
LEMMA MatchInv == IInv /\ ScanMatch => IInv'
<1> SUFFICES ASSUME IInv, ScanMatch PROVE IInv'
  OBVIOUS
<1>0. TypeOK /\ Layout /\ RecordsInv /\ SnapshotInv /\ WriteInv
  BY DEF IInv
<1>1. /\ pc = "scan" /\ pc' = "idle" /\ addr' = 0 /\ pos' = 0
      /\ UNCHANGED <<flash, config, crc, config_timer, torn, supply>>
  BY DEF ScanMatch, Done, Goto
<1>2. TypeOK'
  BY <1>0, <1>1, Lengths DEF TypeOK
<1>3. Layout'
  BY <1>0, <1>1 DEF Layout, FrontInv, AlignedInv
<1>4. RecordsInv' /\ SnapshotInv' /\ WriteInv'
  <2>1. Records' = Records
    BY <1>1, SameFlash
  <2> QED BY <1>0, <1>1, <2>1 DEF RecordsInv, SnapshotInv, WriteInv
<1>5. SavedReadable'
  <2>1. Stored' = IF crc = config THEN {crc} ELSE {}
    BY <1>1, SameFlash, MatchGood
  <2>2. ~ config_timer /\ ~ torn => Stored' = {config'}
    BY <1>0, <1>1, <2>1 DEF SnapshotInv
  <2>3. Stored' = {config'} => KeptSafe'
    BY DEF KeptSafe
  <2> QED BY <1>1, <2>2, <2>3 DEF SavedReadable
<1> QED BY <1>2, <1>3, <1>4, <1>5 DEF IInv

\* No valid record is left: the search for space begins.
LEMMA ScanEndInv == IInv /\ ScanEnd => IInv'
<1> SUFFICES ASSUME IInv, ScanEnd PROVE IInv'
  OBVIOUS
<1> USE DEF ram, Goto
<1>0. TypeOK /\ Layout /\ RecordsInv /\ SnapshotInv
  BY DEF IInv
<1>1. /\ pc = "scan" /\ pc' = "space" /\ addr' = 0 /\ Ahead = {}
      /\ UNCHANGED <<flash, config, crc, config_timer, torn, supply, pos>>
  BY DEF ScanEnd
<1>2. TypeOK'
  BY <1>0, <1>1 DEF TypeOK
<1>3. Layout'
  <2>1. ~ Inside(flash, 0)
    BY DEF Inside
  <2>2. Whole(0)
    BY WholeSum
  <2>3. ASSUME "erase" \notin supply PROVE FrontInv'
    <3>1. PICK e \in 0 .. AreaLen : Front(flash, e)
      BY <1>0, <1>1, <2>3 DEF Layout, FrontInv
    <3> QED BY <1>1, <2>1, <3>1 DEF FrontInv
  <2> QED BY <1>0, <1>1, <2>2, <2>3 DEF Layout, AlignedInv
<1>4. RecordsInv'
  <2>1. Records' = Records /\ Records = {}
    BY <1>0, <1>1, SameFlash DEF RecordsInv, Ahead
  <2> QED BY <1>1, <2>1 DEF RecordsInv
<1>5. SnapshotInv' /\ SavedReadable' /\ WriteInv'
  BY <1>0, <1>1 DEF SnapshotInv, SavedReadable, WriteInv
<1> QED BY <1>2, <1>3, <1>4, <1>5 DEF IInv

\* The search passes a record, or a word that is neither a record nor erased.
LEMMA SpaceSkipInv == SoundBoards /\ IInv /\ SpaceSkip => IInv'
<1> SUFFICES ASSUME SoundBoards, IInv, SpaceSkip PROVE IInv'
  OBVIOUS
<1> USE DEF ram
<1>0. TypeOK /\ Layout /\ RecordsInv /\ SnapshotInv
  BY DEF IInv
<1>1. /\ pc = "space" /\ addr < AreaLen /\ flash[addr] # Blank
      /\ addr' = addr + (IF flash[addr] = Magic THEN SizeOf(flash[addr + 2]) ELSE 1)
      /\ UNCHANGED <<flash, config, crc, config_timer, torn, supply, pc, pos>>
  BY DEF SpaceSkip
<1>2. addr \in 0 .. AreaLen - 1 /\ addr \in Nat
  BY <1>0, <1>1, Lengths DEF TypeOK
<1>3. flash[addr] = Magic => addr' = addr + RecLen \/ addr' = addr + AreaLen
  BY <1>0, <1>1, <1>2, AttrRead DEF Layout, Slots, SlotAt
<1>4. flash[addr] # Magic => addr' = addr + 1
  BY <1>1
<1>5. addr' \in Nat
  BY <1>2, <1>3, <1>4, Lengths
<1>6. TypeOK'
  BY <1>0, <1>1, <1>5 DEF TypeOK
<1>7. ASSUME "erase" \notin supply PROVE FrontInv'
  <2>1. PICK e \in 0 .. AreaLen :
          Front(flash, e) /\ (addr >= AreaLen \/ (addr <= e /\ ~ Inside(flash, addr)))
    BY <1>0, <1>1, <1>7 DEF Layout, FrontInv
  <2>2. addr <= e /\ ~ Inside(flash, addr)
    BY <1>1, <1>2, <2>1, Lengths
  <2>3. addr < e
    BY <1>1, <1>2, <2>1, <2>2, Lengths DEF Front
  <2>4. CASE flash[addr] = Magic
    <3>1. addr + RecLen <= e
      BY <1>2, <2>1, <2>4 DEF Front
    <3>2. ~ Inside(flash, addr + RecLen)
      <4> SUFFICES ASSUME NEW a \in 0 .. AreaLen - 1, flash[a] = Magic,
                          a < addr + RecLen, addr + RecLen < a + RecLen
                   PROVE  FALSE
        BY DEF Inside
      <4>1. addr < a
        BY <1>2, Lengths
      <4> QED BY <1>0, <1>2, <2>4, <4>1, Disjoint, Lengths DEF Layout
    <3>3. addr' >= AreaLen \/ (addr' <= e /\ ~ Inside(flash, addr'))
      BY <1>2, <1>3, <2>4, <3>1, <3>2, Lengths
    <3> QED BY <1>1, <2>1, <3>3 DEF FrontInv
  <2>5. CASE flash[addr] # Magic
    <3>1. ~ Inside(flash, addr + 1)
      <4> SUFFICES ASSUME NEW a \in 0 .. AreaLen - 1, flash[a] = Magic,
                          a < addr + 1, addr + 1 < a + RecLen
                   PROVE  FALSE
        BY DEF Inside
      <4>1. a < addr /\ addr < a + RecLen
        BY <1>2, <2>5, Lengths
      <4> QED BY <2>2, <4>1 DEF Inside
    <3>2. addr' <= e /\ ~ Inside(flash, addr')
      BY <1>2, <1>4, <2>3, <2>5, <3>1
    <3> QED BY <1>1, <2>1, <3>2 DEF FrontInv
  <2> QED BY <2>4, <2>5
<1>8. ASSUME "erase" \in supply PROVE AlignedInv'
  <2>1. Aligned(flash) /\ Whole(addr)
    BY <1>0, <1>1, <1>8 DEF Layout, AlignedInv
  <2>2. flash[addr] = Magic
    <3>1. PICK a \in 0 .. AreaLen - 1 : flash[a] = Magic /\ a <= addr /\ addr < a + RecLen
      BY <1>1, <1>2, <2>1 DEF Aligned
    <3>2. Whole(a)
      BY <2>1, <3>1 DEF Aligned
    <3>3. ~ (a < addr)
      BY <1>2, <2>1, <3>1, <3>2, WholeStep, Lengths
    <3> QED BY <1>2, <3>1, <3>3
  <2>3. Whole(addr')
    BY <1>2, <1>3, <2>1, <2>2, WholeSum, WholeArea, Lengths
  <2> QED BY <1>1, <2>1, <2>3 DEF AlignedInv
<1>9. Layout'
  BY <1>0, <1>1, <1>7, <1>8 DEF Layout
<1>10. RecordsInv'
  <2>1. Records' = Records
    BY <1>1, SameFlash
  <2> QED BY <1>0, <1>1, <2>1 DEF RecordsInv
<1>11. SnapshotInv' /\ SavedReadable' /\ WriteInv'
  BY <1>0, <1>1 DEF SnapshotInv, SavedReadable, WriteInv
<1> QED BY <1>6, <1>9, <1>10, <1>11 DEF IInv

\* The search tests one erased word, and the whole room is erased; or there is
\* no room.
LEMMA SpaceFoundInv == SoundBoards /\ IInv /\ SpaceFound => IInv'
<1> SUFFICES ASSUME SoundBoards, IInv, SpaceFound PROVE IInv'
  OBVIOUS
<1> USE DEF ram, Goto
<1>0. TypeOK /\ Layout /\ RecordsInv /\ SnapshotInv
  BY DEF IInv
<1>1. /\ pc = "space" /\ (addr < AreaLen => flash[addr] = Blank)
      /\ \/ addr + RecLen > AreaLen /\ pc' = "erase" /\ addr' = 0
         \/ addr + RecLen <= AreaLen /\ pc' = "write" /\ addr' = addr
      /\ UNCHANGED <<flash, config, crc, config_timer, torn, supply, pos>>
  <2>1. addr \in Nat
    BY <1>0 DEF TypeOK
  <2> QED BY <2>1, Lengths DEF SpaceFound
<1>2. addr \in Nat /\ pos = 0
  BY <1>0, <1>1 DEF TypeOK, Layout
<1>3. TypeOK'
  BY <1>0, <1>1 DEF TypeOK
<1>4. RecordsInv'
  <2>1. Records' = Records /\ Records = {}
    BY <1>0, <1>1, SameFlash DEF RecordsInv
  <2> QED BY <1>1, <2>1 DEF RecordsInv
<1>5. SnapshotInv' /\ SavedReadable'
  BY <1>0, <1>1 DEF SnapshotInv, SavedReadable
<1>6. CASE addr + RecLen > AreaLen /\ pc' = "erase" /\ addr' = 0
  <2>1. Whole(0)
    BY WholeSum
  <2>2. FrontInv' /\ WriteInv'
    BY <1>6 DEF FrontInv, WriteInv
  <2>3. "erase" \in supply => AlignedInv'
    BY <1>0, <1>1, <1>6, <2>1 DEF Layout, AlignedInv
  <2>4. Layout'
    BY <1>0, <1>1, <1>2, <2>2, <2>3 DEF Layout
  <2> QED BY <1>3, <1>4, <1>5, <2>2, <2>4 DEF IInv
<1>7. CASE addr + RecLen <= AreaLen /\ pc' = "write" /\ addr' = addr
  <2>1. addr \in 0 .. AreaLen - 1 /\ flash[addr] = Blank
    BY <1>1, <1>2, <1>7, Lengths
  <2>2. ASSUME "erase" \notin supply
        PROVE  Front(flash, addr)
    <3>1. PICK e \in 0 .. AreaLen : Front(flash, e) /\ addr <= e /\ ~ Inside(flash, addr)
      BY <1>0, <1>1, <2>1, <2>2, Lengths DEF Layout, FrontInv
    <3>2. addr = e
      <4>1. ~ (addr < e)
        BY <2>1, <3>1 DEF Front
      <4> QED BY <1>2, <3>1, <4>1
    <3> QED BY <3>1, <3>2
  <2>3. ASSUME "erase" \in supply PROVE Aligned(flash) /\ Whole(addr)
    BY <1>0, <1>1, <2>3 DEF Layout, AlignedInv
  <2>4. ASSUME NEW k \in 0 .. RecLen - 1 PROVE flash[addr + k] = Blank
    <3>1. addr + k \in 0 .. AreaLen - 1 /\ addr + k >= addr
      BY <1>2, <1>7, Lengths
    <3>2. CASE "erase" \notin supply
      BY <2>2, <3>1, <3>2 DEF Front
    <3>3. CASE "erase" \in supply
      <4>1. ASSUME flash[addr + k] # Blank PROVE FALSE
        <5>1. PICK a \in 0 .. AreaLen - 1 :
                flash[a] = Magic /\ a <= addr + k /\ addr + k < a + RecLen
          BY <2>3, <3>1, <3>3, <4>1 DEF Aligned
        <5>2. Whole(a) /\ Whole(addr) /\ a # addr
          BY <2>1, <2>3, <3>3, <5>1, KindsDiffer DEF Aligned
        <5>3. CASE a < addr
          BY <1>2, <5>1, <5>2, <5>3, WholeStep, Lengths
        <5>4. CASE addr < a
          BY <1>2, <5>1, <5>2, <5>4, WholeStep, Lengths
        <5> QED BY <1>2, <5>2, <5>3, <5>4
      <4> QED BY <4>1
    <3> QED BY <3>2, <3>3
  <2>5. WriteInv'
    <3>1. ~ (pos > 0) /\ ~ (pos > 1) /\ ~ (pos > 2) /\ 3 .. pos - 1 = {}
      BY <1>2
    <3> QED BY <1>1, <1>2, <1>7, <2>4, <3>1 DEF WriteInv
  <2>6. "erase" \notin supply => FrontInv'
    BY <1>1, <1>2, <1>7, <2>2 DEF FrontInv
  <2>7. "erase" \in supply => AlignedInv'
    BY <1>1, <1>7, <2>3 DEF AlignedInv
  <2>8. Layout'
    BY <1>0, <1>1, <1>7, <2>6, <2>7 DEF Layout
  <2> QED BY <1>3, <1>4, <1>5, <2>5, <2>8 DEF IInv
<1> QED BY <1>1, <1>6, <1>7
-------------------------------------------------------------------------------
(* Steps that change the flash.                                            *)

\* The old record is invalidated: no valid one is left.
LEMMA InvalidateRecords ==
  ASSUME IInv, ScanInvalidate
  PROVE  Records' = {}
<1> DEFINE a == Min(Ahead)
<1>1. /\ Records = {a} /\ a \in 0 .. AreaLen - 1
      /\ flash[a] = Magic /\ SlotAt(flash, a)
  BY AheadOne DEF ScanInvalidate
<1>2. flash' = [flash EXCEPT ![a + 2] = Attr(SizeOf(flash[a + 2]), 0)]
  BY DEF ScanInvalidate
<1> HIDE DEF a
<1>3. flash \in [0 .. AreaLen - 1 -> Word \cup {Half(w) : w \in Word}]
  BY DEF IInv, TypeOK
<1>4. a + 2 \in 0 .. AreaLen - 1
  BY <1>1, Lengths DEF SlotAt
<1>5. ~ Valid(flash'[a + 2])
  BY <1>2, <1>3, <1>4, AttrRead
<1> SUFFICES ASSUME NEW b \in 0 .. AreaLen - 1, flash'[b] = Magic, Valid(flash'[b + 2])
             PROVE  FALSE
  BY DEF Records, IsRecord
<1>6. b # a
  BY <1>5
<1>7. b # a + 2
  BY <1>2, <1>3, <1>4, KindsDiffer
<1>8. flash[b] = Magic
  BY <1>2, <1>3, <1>7
<1>9. b + 2 # a + 2
  BY <1>1, <1>6
<1>10. flash'[b + 2] = flash[b + 2]
  <2>1. SlotAt(flash, b)
    BY <1>8 DEF IInv, Layout, Slots
  <2>2. b + 2 \in 0 .. AreaLen - 1
    BY <2>1, Lengths DEF SlotAt
  <2> QED BY <1>2, <1>3, <1>9, <2>2
<1>11. b \in Records
  BY <1>8, <1>10 DEF Records, IsRecord
<1> QED BY <1>1, <1>6, <1>11

LEMMA InvalidateInv == IInv /\ ScanInvalidate => IInv'
<1> SUFFICES ASSUME IInv, ScanInvalidate PROVE IInv'
  OBVIOUS
<1> USE DEF ram
<1> DEFINE a == Min(Ahead)
           w == Attr(SizeOf(flash[a + 2]), 0)
<1>0. TypeOK /\ Layout /\ RecordsInv /\ SnapshotInv
  BY DEF IInv
<1>1. /\ a \in 0 .. AreaLen - 1 /\ flash[a] = Magic /\ SlotAt(flash, a)
  BY AheadOne DEF ScanInvalidate
<1>2. /\ pc = "scan" /\ flash' = [flash EXCEPT ![a + 2] = w] /\ addr' = a + 1
      /\ UNCHANGED <<config, crc, config_timer, torn, supply, pc, pos>>
  BY DEF ScanInvalidate
<1>3. flash[a + 2] \in AttrWords /\ a + 2 \in 0 .. AreaLen - 1
  BY <1>1, Lengths DEF SlotAt
<1>4. w \in AttrWords /\ w \in Word /\ w # Magic /\ w # Blank
  <2>1. SizeOf(flash[a + 2]) \in {RecLen, AreaLen}
    BY <1>3, AttrRead
  <2> QED BY <1>3, <2>1, AttrRead, KindsDiffer, WordKinds
<1> HIDE DEF a, w
<1>5. flash \in [0 .. AreaLen - 1 -> Word \cup {Half(x) : x \in Word}]
  BY <1>0 DEF TypeOK
<1>6. /\ flash'[a + 2] = w
      /\ \A b \in 0 .. AreaLen - 1 : b # a + 2 => flash'[b] = flash[b]
  BY <1>2, <1>3, <1>5
<1>7. flash[a + 2] # Magic
  BY <1>3, SlotKinds
<1>8. \A b \in 0 .. AreaLen - 1 : flash'[b] = Magic <=> flash[b] = Magic
  BY <1>4, <1>6, <1>7
<1>9. TypeOK'
  <2>1. flash' \in [0 .. AreaLen - 1 -> Word \cup {Half(x) : x \in Word}]
    BY <1>2, <1>4, <1>5
  <2>2. addr' \in Nat
    BY <1>1, <1>2
  <2> QED BY <1>0, <1>2, <2>1, <2>2 DEF TypeOK
<1>10. Slots(flash')
  <2> SUFFICES ASSUME NEW b \in 0 .. AreaLen - 1, flash'[b] = Magic
               PROVE  SlotAt(flash', b)
    BY DEF Slots
  <2>1. flash[b] = Magic /\ SlotAt(flash, b)
    BY <1>0, <1>8 DEF Layout, Slots
  <2>2. CASE b = a
    <3>1. flash'[b + 1] = flash[b + 1] /\ flash'[b + 2] = w
      BY <1>1, <1>6, <2>1, <2>2, Lengths DEF SlotAt
    <3>2. ASSUME NEW k \in 3 .. RecLen - 1 PROVE flash'[b + k] = flash[b + k]
      BY <1>1, <1>6, <2>1, <2>2, Lengths DEF SlotAt
    <3> QED BY <1>4, <2>1, <3>1, <3>2 DEF SlotAt
  <2>3. CASE b # a
    <3>1. b + RecLen <= a \/ a + RecLen <= b
      BY <1>0, <1>1, <2>1, <2>3, Disjoint DEF Layout
    <3>2. ASSUME NEW k \in 1 .. RecLen - 1 PROVE flash'[b + k] = flash[b + k]
      <4>1. b + k \in 0 .. AreaLen - 1 /\ b + k # a + 2
        BY <1>1, <2>1, <3>1, Lengths DEF SlotAt
      <4> QED BY <1>6, <4>1
    <3>3. flash'[b + 1] = flash[b + 1] /\ flash'[b + 2] = flash[b + 2]
      BY <3>2, Lengths
    <3>4. \A k \in 3 .. RecLen - 1 : flash'[b + k] = flash[b + k]
      BY <3>2, Lengths
    <3> QED BY <2>1, <3>3, <3>4 DEF SlotAt
  <2> QED BY <2>2, <2>3
<1>11. ASSUME "erase" \notin supply PROVE FrontInv'
  <2>1. PICK e \in 0 .. AreaLen : Front(flash, e)
    BY <1>0, <1>2, <1>11 DEF Layout, FrontInv
  <2>2. a + RecLen <= e
    BY <1>1, <2>1 DEF Front
  <2>3. \A b \in e .. AreaLen - 1 : flash'[b] = Blank
    BY <1>1, <1>6, <2>1, <2>2, Lengths DEF Front
  <2>4. ASSUME NEW b \in 0 .. e - 1, flash'[b] = Blank PROVE Inside(flash', b)
    <3>1. b \in 0 .. AreaLen - 1 /\ b # a + 2
      BY <1>4, <1>6, <2>1, <2>4, Lengths
    <3>2. Inside(flash, b)
      BY <1>6, <2>1, <2>4, <3>1 DEF Front
    <3> QED BY <1>8, <3>2 DEF Inside
  <2>5. Front(flash', e)
    BY <1>8, <2>1, <2>3, <2>4 DEF Front
  <2> QED BY <1>2, <2>5 DEF FrontInv
<1>12. ASSUME "erase" \in supply PROVE AlignedInv'
  <2>1. Aligned(flash)
    BY <1>0, <1>12 DEF Layout, AlignedInv
  <2>2. ASSUME NEW b \in 0 .. AreaLen - 1, flash'[b] # Blank
        PROVE  \E s \in 0 .. AreaLen - 1 : flash'[s] = Magic /\ s <= b /\ b < s + RecLen
    <3>1. CASE b = a + 2
      BY <1>1, <1>8, <3>1, Lengths
    <3>2. CASE b # a + 2
      BY <1>6, <1>8, <2>1, <2>2, <3>2 DEF Aligned
    <3> QED BY <3>1, <3>2
  <2>3. Aligned(flash')
    BY <1>8, <2>1, <2>2 DEF Aligned
  <2> QED BY <1>2, <2>3 DEF AlignedInv
<1>13. Layout'
  BY <1>0, <1>2, <1>10, <1>11, <1>12 DEF Layout
<1>14. RecordsInv'
  BY <1>2, InvalidateRecords DEF RecordsInv
<1>15. SnapshotInv' /\ SavedReadable' /\ WriteInv'
  BY <1>0, <1>2 DEF SnapshotInv, SavedReadable, WriteInv
<1> QED BY <1>9, <1>13, <1>14, <1>15 DEF IInv

\* A page is erased; the pages before it are already.
LEMMA EraseInv == SoundBoards /\ IInv /\ ErasePage => IInv'
<1> SUFFICES ASSUME SoundBoards, IInv, ErasePage PROVE IInv'
  OBVIOUS
<1> USE DEF ram, Goto
<1>0. TypeOK /\ Layout /\ RecordsInv /\ SnapshotInv
  BY DEF IInv
<1>1. /\ pc = "erase" /\ UNCHANGED <<config, config_timer, torn, supply, crc, pos>>
      /\ \/ addr + PageLen < AreaLen /\ addr' = addr + PageLen /\ pc' = pc
         \/ ~ (addr + PageLen < AreaLen) /\ addr' = 0 /\ pc' = "write"
  BY DEF ErasePage
<1>2. addr \in Nat /\ addr' \in Nat /\ pos = 0
  BY <1>0, <1>1, Lengths DEF TypeOK, Layout
<1>3. flash \in [0 .. AreaLen - 1 -> Word \cup {Half(x) : x \in Word}]
  BY <1>0 DEF TypeOK
<1>4. /\ flash' \in [0 .. AreaLen - 1 -> Word \cup {Half(x) : x \in Word}]
      /\ \A b \in 0 .. AreaLen - 1 :
           flash'[b] = IF addr <= b /\ b < addr + PageLen THEN Blank ELSE flash[b]
  <2>1. flash' = [b \in 0 .. AreaLen - 1 |->
                    IF b \in addr .. addr + PageLen - 1 THEN Blank ELSE flash[b]]
    BY <1>3 DEF ErasePage
  <2>2. \A b \in 0 .. AreaLen - 1 :
            b \in addr .. addr + PageLen - 1 <=> addr <= b /\ b < addr + PageLen
    BY <1>2, Lengths
  <2> QED BY <1>3, <2>1, <2>2, WordKinds
<1>5. TypeOK'
  BY <1>0, <1>1, <1>2, <1>4 DEF TypeOK
<1>6. \A b \in 0 .. AreaLen - 1 : b < addr => flash[b] = Blank
  BY <1>0, <1>1 DEF Layout
<1>7. ASSUME "erase" \in supply
      PROVE  Aligned(flash) /\ Whole(addr) /\ Whole(addr + PageLen)
  <2>1. Aligned(flash) /\ Whole(addr)
    BY <1>0, <1>1, <1>7 DEF Layout, AlignedInv
  <2> QED BY <1>2, <2>1, WholeSum, Lengths DEF SoundBoards
<1>8. ASSUME NEW s \in 0 .. AreaLen - 1, flash'[s] = Magic,
             NEW k \in 0 .. RecLen - 1
      PROVE  flash[s] = Magic /\ flash'[s + k] = flash[s + k]
  <2>1. flash[s] = Magic /\ s >= addr + PageLen
    BY <1>2, <1>4, <1>6, <1>8, KindsDiffer, Lengths
  <2>2. SlotAt(flash, s)
    BY <1>0, <2>1 DEF Layout, Slots
  <2>3. s + k \in 0 .. AreaLen - 1 /\ ~ (s + k < addr + PageLen)
    BY <1>2, <2>1, <2>2, Lengths DEF SlotAt
  <2> QED BY <1>4, <2>1, <2>3
<1>9. Slots(flash')
  <2> SUFFICES ASSUME NEW s \in 0 .. AreaLen - 1, flash'[s] = Magic
               PROVE  SlotAt(flash', s)
    BY DEF Slots
  <2>1. SlotAt(flash, s)
    BY <1>0, <1>8, Lengths DEF Layout, Slots
  <2>2. \A k \in 0 .. RecLen - 1 : flash'[s + k] = flash[s + k]
    BY <1>8
  <2>3. flash'[s + 1] = flash[s + 1] /\ flash'[s + 2] = flash[s + 2]
    BY <2>2, Lengths
  <2>4. \A k \in 3 .. RecLen - 1 : flash'[s + k] = flash[s + k]
    BY <2>2, Lengths
  <2> QED BY <2>1, <2>3, <2>4 DEF SlotAt
<1>10. Records' = {}
  <2> SUFFICES ASSUME NEW s \in 0 .. AreaLen - 1, flash'[s] = Magic, Valid(flash'[s + 2])
               PROVE  FALSE
    BY DEF Records, IsRecord
  <2>1. flash[s] = Magic /\ flash'[s + 2] = flash[s + 2]
    BY <1>8, Lengths
  <2>2. s \in Records
    BY <2>1 DEF Records, IsRecord
  <2> QED BY <1>0, <1>1, <2>2 DEF RecordsInv
<1>11. \A b \in 0 .. AreaLen - 1 : b < addr + PageLen => flash'[b] = Blank
  BY <1>2, <1>4, <1>6, Lengths
<1>12. pc' = "write" => \A b \in 0 .. AreaLen - 1 : flash'[b] = Blank
  BY <1>1, <1>2, <1>11, Lengths
<1>13. ASSUME "erase" \notin supply PROVE FrontInv'
  <2>1. CASE pc' = "write" /\ addr' = 0
    <3>1. Front(flash', 0)
      BY <1>12, <1>13, <2>1, KindsDiffer, Lengths DEF Front
    <3> QED BY <1>1, <1>2, <2>1, <3>1 DEF FrontInv
  <2>2. CASE pc' = "erase" /\ addr' = addr + PageLen
    BY <2>2 DEF FrontInv
  <2> QED BY <1>1, <2>1, <2>2
<1>14. ASSUME "erase" \in supply PROVE AlignedInv'
  <2>1. ASSUME NEW b \in 0 .. AreaLen - 1, flash'[b] # Blank
        PROVE  \E s \in 0 .. AreaLen - 1 : flash'[s] = Magic /\ s <= b /\ b < s + RecLen
    <3>1. flash[b] # Blank /\ ~ (addr <= b /\ b < addr + PageLen)
      BY <1>4, <2>1
    <3>2. PICK s \in 0 .. AreaLen - 1 : flash[s] = Magic /\ s <= b /\ b < s + RecLen
      BY <1>7, <1>14, <3>1 DEF Aligned
    <3>3. Whole(s)
      BY <1>7, <1>14, <3>2 DEF Aligned
    <3>4. ~ (addr <= s /\ s < addr + PageLen)
      <4>1. ASSUME addr <= s, s < addr + PageLen PROVE FALSE
        <5>1. s + RecLen <= addr + PageLen
          BY <1>2, <1>7, <1>14, <3>3, <4>1, WholeStep, Lengths
        <5> QED BY <1>2, <3>1, <3>2, <4>1, <5>1, Lengths
      <4> QED BY <4>1
    <3> QED BY <1>4, <3>2, <3>4
  <2>2. \A s \in 0 .. AreaLen - 1 : flash'[s] = Magic => Whole(s)
    BY <1>7, <1>8, <1>14, Lengths DEF Aligned
  <2>3. Whole(addr')
    BY <1>1, <1>7, <1>14, WholeSum
  <2> QED BY <2>1, <2>2, <2>3 DEF AlignedInv, Aligned
<1>15. Layout'
  <2>1. pc' = "erase" => \A b \in 0 .. AreaLen - 1 : b < addr' => flash'[b] = Blank
    BY <1>1, <1>11
  <2> QED BY <1>1, <1>2, <1>9, <1>13, <1>14, <2>1 DEF Layout
<1>16. RecordsInv'
  BY <1>10 DEF RecordsInv
<1>17. WriteInv'
  <2> SUFFICES ASSUME pc' = "write" PROVE WriteInv'
    BY DEF WriteInv
  <2>1. addr' = 0 /\ pos' = 0 /\ ~ (addr + PageLen < AreaLen)
    BY <1>1, <1>2
  <2>2. ASSUME NEW k \in 0 .. RecLen - 1 PROVE flash'[0 + k] = Blank
    <3>1. k \in 0 .. AreaLen - 1 /\ 0 + k = k
      BY Lengths
    <3> QED BY <1>12, <3>1
  <2>3. 3 .. pos' - 1 = {} /\ ~ (pos' > 0) /\ ~ (pos' > 1) /\ ~ (pos' > 2)
    BY <2>1
  <2> QED BY <2>1, <2>2, <2>3, Lengths DEF WriteInv
<1>18. SnapshotInv' /\ SavedReadable'
  BY <1>0, <1>1 DEF SnapshotInv, SavedReadable
<1> QED BY <1>5, <1>15, <1>16, <1>17, <1>18 DEF IInv

\* A record that is not the one being written has its room elsewhere.
LEMMA WriteRoom ==
  ASSUME IInv, pc = "write", NEW b \in 0 .. AreaLen - 1, flash[b] = Magic, b # addr
  PROVE  b + RecLen <= addr \/ addr + RecLen <= b
<1>0. TypeOK /\ Layout /\ WriteInv
  BY DEF IInv
<1>1. addr \in Nat /\ addr + RecLen <= AreaLen /\ addr \in 0 .. AreaLen - 1 /\ pos \in Nat
  BY <1>0, Lengths DEF TypeOK, WriteInv
<1>2. CASE pos > 0
  <2>1. flash[addr] = Magic /\ Slots(flash)
    BY <1>0, <1>2 DEF WriteInv, Layout
  <2>2. CASE b < addr
    BY <1>1, <2>1, <2>2, Disjoint
  <2>3. CASE addr < b
    BY <1>1, <2>1, <2>3, Disjoint
  <2> QED BY <1>1, <2>2, <2>3
<1>3. CASE pos = 0
  <2>1. CASE "erase" \notin supply
    BY <1>0, <1>3, <2>1 DEF Layout, FrontInv, Front
  <2>2. CASE "erase" \in supply
    <3>1. Whole(addr) /\ Whole(b)
      BY <1>0, <2>2 DEF Layout, AlignedInv, Aligned
    <3>2. b < addr \/ addr < b
      BY <1>1
    <3> QED BY <1>1, <3>1, <3>2, WholeStep
  <2> QED BY <2>1, <2>2
<1> QED BY <1>1, <1>2, <1>3

\* One word of the record being written is programmed, whole or in part.
LEMMA Program ==
  ASSUME IInv, pc = "write", NEW w,
         flash' = [flash EXCEPT ![addr + pos] = w], w # Blank,
         pos = 0 => w \in {Magic, Half(Magic)},
         pos = 1 => w \in CrcWords,
         pos = 2 => w \in AttrWords,
         pos > 2 => w \in DataWords
  PROVE  /\ Slots(flash')
         /\ Records' \subseteq {addr}
         /\ "erase" \notin supply =>
               Front(flash', IF w = Half(Magic) THEN addr + 1 ELSE addr + RecLen)
         /\ "erase" \in supply /\ w # Half(Magic) => Aligned(flash')
<1> DEFINE x == addr + pos
<1>0. TypeOK /\ Layout /\ WriteInv /\ RecordsInv
  BY DEF IInv
<1>1. /\ addr \in Nat /\ addr + RecLen <= AreaLen /\ addr \in 0 .. AreaLen - 1
      /\ pos \in 0 .. RecLen - 1 /\ x \in 0 .. AreaLen - 1
      /\ addr <= x /\ x < addr + RecLen
  BY <1>0, Lengths DEF TypeOK, WriteInv
<1>2. /\ flash'[x] = w
      /\ \A b \in 0 .. AreaLen - 1 : b # x => flash'[b] = flash[b]
  BY <1>0, <1>1 DEF TypeOK
<1>3. pos > 0 => w # Magic /\ w # Half(Magic)
  <2>1. Half(Magic) \notin CrcWords /\ Half(Magic) \notin AttrWords
        /\ Half(Magic) \notin DataWords
    BY DEF Half, Magic, CrcWords, AttrWords, DataWords, Blank, Crc, Attr, Data
  <2>2. pos > 0 => pos = 1 \/ pos = 2 \/ pos > 2
    BY <1>1
  <2> QED BY <2>1, <2>2, SlotKinds
<1>4. \A k \in pos .. RecLen - 1 : flash[addr + k] = Blank
  BY <1>0 DEF WriteInv
<1>5. flash[x] = Blank
  BY <1>1, <1>4
<1>6. ASSUME NEW b \in 0 .. AreaLen - 1, b # addr
      PROVE  flash'[b] = Magic <=> flash[b] = Magic
  <2>1. CASE b = x
    <3>1. pos > 0
      BY <1>1, <1>6, <2>1
    <3> QED BY <1>2, <1>3, <1>5, <2>1, <3>1, KindsDiffer
  <2> QED BY <1>2, <2>1
<1>7. flash'[addr] = Magic <=> pos > 0 \/ w = Magic
  <2>1. CASE pos = 0
    BY <1>1, <1>2, <2>1
  <2>2. CASE pos > 0
    <3>1. flash[addr] = Magic
      BY <1>0, <2>2 DEF WriteInv
    <3> QED BY <1>1, <1>2, <2>2, <3>1
  <2> QED BY <1>1, <2>1, <2>2
<1> HIDE DEF x
<1>8. ASSUME NEW b \in 0 .. AreaLen - 1, flash'[b] = Magic, b # addr,
             NEW k \in 1 .. RecLen - 1
      PROVE  flash'[b + k] = flash[b + k]
  <2>1. flash[b] = Magic
    BY <1>6, <1>8
  <2>2. b + RecLen <= addr \/ addr + RecLen <= b
    BY <1>8, <2>1, WriteRoom
  <2>3. SlotAt(flash, b)
    BY <1>0, <2>1 DEF Layout, Slots
  <2>4. b + k \in 0 .. AreaLen - 1 /\ b + k # x
    BY <1>1, <2>2, <2>3, Lengths DEF SlotAt
  <2> QED BY <1>2, <2>4
<1>9. ASSUME flash'[addr] = Magic PROVE SlotAt(flash', addr)
  <2>1. \A k \in 1 .. RecLen - 1 :
            /\ addr + k \in 0 .. AreaLen - 1
            /\ flash'[addr + k] = IF k = pos THEN w ELSE flash[addr + k]
    BY <1>1, <1>2, Lengths DEF x
  <2>2. CASE pos = 0
    <3>1. \A k \in 1 .. RecLen - 1 : flash'[addr + k] = Blank
      BY <1>4, <2>1, <2>2
    <3>2. flash'[addr + 1] = Blank /\ flash'[addr + 2] = Blank
          /\ \A k \in 3 .. RecLen - 1 : flash'[addr + k] = Blank
      BY <3>1, Lengths
    <3> QED BY <1>1, <3>2, SlotKinds DEF SlotAt
  <2>3. CASE pos > 0
    <3>1. SlotAt(flash, addr)
      BY <1>0, <1>1, <2>3 DEF WriteInv, Layout, Slots
    <3>2. flash'[addr + 1] \in CrcWords
      BY <2>1, <3>1, Lengths DEF SlotAt
    <3>3. flash'[addr + 2] \in AttrWords
      BY <2>1, <3>1, Lengths DEF SlotAt
    <3>4. \A k \in 3 .. RecLen - 1 : flash'[addr + k] \in DataWords
      BY <1>1, <2>1, <3>1, Lengths DEF SlotAt
    <3> QED BY <1>1, <3>2, <3>3, <3>4 DEF SlotAt
  <2> QED BY <1>1, <2>2, <2>3
<1>10. Slots(flash')
  <2> SUFFICES ASSUME NEW b \in 0 .. AreaLen - 1, flash'[b] = Magic
               PROVE  SlotAt(flash', b)
    BY DEF Slots
  <2>1. CASE b # addr
    <3>1. SlotAt(flash, b)
      BY <1>0, <1>6, <2>1 DEF Layout, Slots
    <3>2. flash'[b + 1] = flash[b + 1] /\ flash'[b + 2] = flash[b + 2]
          /\ \A k \in 3 .. RecLen - 1 : flash'[b + k] = flash[b + k]
      BY <1>8, <2>1, Lengths
    <3> QED BY <3>1, <3>2 DEF SlotAt
  <2> QED BY <1>9, <2>1
<1>11. Records' \subseteq {addr}
  <2> SUFFICES ASSUME NEW b \in 0 .. AreaLen - 1, flash'[b] = Magic,
                      Valid(flash'[b + 2]), b # addr
               PROVE  FALSE
    BY DEF Records, IsRecord
  <2>1. flash[b] = Magic /\ flash'[b + 2] = flash[b + 2]
    BY <1>6, <1>8, Lengths
  <2>2. b \in Records
    BY <2>1 DEF Records, IsRecord
  <2> QED BY <1>0, <2>2 DEF RecordsInv
<1>12. ASSUME "erase" \notin supply
       PROVE  Front(flash', IF w = Half(Magic) THEN addr + 1 ELSE addr + RecLen)
  <2> DEFINE e == IF w = Half(Magic) THEN addr + 1 ELSE addr + RecLen
             o == IF pos = 0 THEN addr ELSE addr + RecLen
  <2>1. Front(flash, o)
    BY <1>0, <1>12 DEF Layout, FrontInv
  <2>2. w = Half(Magic) => pos = 0 /\ w # Magic
    BY <1>1, <1>3, KindsDiffer
  <2>3. e \in Nat /\ o \in Nat /\ e <= AreaLen /\ o <= e /\ x < e
        /\ (w # Half(Magic) => e = addr + RecLen)
    BY <1>1, <2>2, Lengths DEF x
  <2>4. \A b \in e .. AreaLen - 1 : flash'[b] = Blank
    BY <1>1, <1>2, <2>1, <2>3 DEF Front
  <2>5. ASSUME NEW b \in 0 .. AreaLen - 1, flash'[b] = Magic PROVE b + RecLen <= e
    <3>1. CASE b = addr
      <4>1. w # Half(Magic)
        BY <1>7, <2>2, <2>5, <3>1
      <4> QED BY <1>1, <2>3, <3>1, <4>1, Lengths
    <3>2. CASE b # addr
      <4>1. b + RecLen <= o
        BY <1>6, <2>1, <2>5, <3>2 DEF Front
      <4> QED BY <2>3, <4>1, Lengths
    <3> QED BY <3>1, <3>2
  <2>6. ASSUME NEW b \in 0 .. e - 1, flash'[b] = Blank PROVE Inside(flash', b)
    <3>1. b \in 0 .. AreaLen - 1 /\ b # x /\ flash[b] = Blank
      BY <1>2, <2>3, <2>6, Lengths
    <3>2. CASE b < o
      <4>1. Inside(flash, b)
        BY <2>1, <2>3, <3>1, <3>2 DEF Front
      <4>2. PICK s \in 0 .. AreaLen - 1 : flash[s] = Magic /\ s < b /\ b < s + RecLen
        BY <4>1 DEF Inside
      <4>3. flash'[s] = Magic
        <5>1. s # x
          BY <1>5, <4>2, KindsDiffer
        <5> QED BY <1>2, <4>2, <5>1
      <4> QED BY <4>2, <4>3 DEF Inside
    <3>3. CASE b >= o
      <4>1. pos = 0 /\ o = addr /\ w # Half(Magic) /\ x = addr
        BY <1>1, <2>2, <2>3, <3>1, <3>3, Lengths DEF x
      <4>2. flash'[addr] = Magic /\ addr < b /\ b < addr + RecLen
        BY <1>1, <1>7, <2>3, <3>1, <3>3, <4>1, Lengths
      <4> QED BY <1>1, <4>2 DEF Inside
    <3> QED BY <2>3, <3>1, <3>2, <3>3
  <2>7. e \in 0 .. AreaLen
    BY <2>3, Lengths
  <2> HIDE DEF e
  <2>8. Front(flash', e)
    BY <2>4, <2>5, <2>6, <2>7 DEF Front
  <2> QED BY <2>8 DEF e
<1>13. ASSUME "erase" \in supply, w # Half(Magic) PROVE Aligned(flash')
  <2>1. Aligned(flash) /\ Whole(addr)
    BY <1>0, <1>13 DEF Layout, AlignedInv
  <2>2. flash'[addr] = Magic
    BY <1>1, <1>7, <1>13
  <2>3. ASSUME NEW b \in 0 .. AreaLen - 1, flash'[b] # Blank
        PROVE  \E s \in 0 .. AreaLen - 1 : flash'[s] = Magic /\ s <= b /\ b < s + RecLen
    <3>1. CASE b = x
      BY <1>1, <2>2, <3>1
    <3>2. CASE b # x
      <4>1. PICK s \in 0 .. AreaLen - 1 : flash[s] = Magic /\ s <= b /\ b < s + RecLen
        BY <1>2, <2>1, <2>3, <3>2 DEF Aligned
      <4>2. flash'[s] = Magic
        BY <1>6, <2>2, <4>1
      <4> QED BY <4>1, <4>2
    <3> QED BY <3>1, <3>2
  <2>4. \A b \in 0 .. AreaLen - 1 : flash'[b] = Magic => Whole(b)
    BY <1>6, <2>1 DEF Aligned
  <2> QED BY <2>3, <2>4 DEF Aligned
<1> QED BY <1>10, <1>11, <1>12, <1>13
-------------------------------------------------------------------------------
(* The end of a save, and power loss.                                      *)

\* What a restart reads is a configuration.
LEMMA StoredType ==
  Slots(flash) /\ (\A a, b \in Records : a = b) =>
    Stored = {} \/ \E c \in Contents : Stored = {c}
<1> SUFFICES ASSUME Slots(flash), \A a, b \in Records : a = b, Stored # {}
             PROVE  \E c \in Contents : Stored = {c}
  OBVIOUS
<1>1. PICK x \in Good : TRUE
  BY DEF Stored
<1>2. Good \subseteq {x} /\ x \in 0 .. AreaLen - 1 /\ flash[x] = Magic
      /\ flash[x + 1][1] = "crc"
  BY <1>1 DEF Good, Records, IsRecord
<1>3. flash[x + 1] \in CrcWords
  BY <1>2 DEF Slots, SlotAt
<1>4. PICK c \in Contents : flash[x + 1] = Crc(c)
  BY <1>2, <1>3 DEF CrcWords, Crc, Blank, Half
<1>5. Stored = {flash[x + 1][2]}
  BY <1>1, <1>2, StoredOne
<1> QED BY <1>4, <1>5 DEF Crc

\* A record whose last word is not that of a field is not read.
LEMMA Unfinished ==
  \A x \in 0 .. AreaLen - 1 :
    Records \subseteq {x} /\ (\A v : flash[x + (RecLen - 1)] # Data(v)) => Stored = {}
<1> SUFFICES ASSUME NEW x \in 0 .. AreaLen - 1, Records \subseteq {x},
                    \A v : flash[x + (RecLen - 1)] # Data(v)
             PROVE  Stored = {}
  OBVIOUS
<1>1. Good \subseteq {x}
  BY DEF Good
<1>2. ASSUME x \in Good PROVE FALSE
  <2>1. RecLen - 1 \in 0 .. RecLen - 1 /\ RecLen - 1 \notin {0, 1, 2}
    BY Lengths
  <2>2. \A c : RamWord(c, c, RecLen - 1) = Data(c[RecLen - 1 - 2])
    BY <2>1 DEF RamWord
  <2> QED BY <1>2, <2>1, <2>2 DEF Good, Equal
<1> QED BY <1>1, <1>2, StoredOne

\* The same of the state after a step.
LEMMA UnfinishedNext ==
  (\A x \in 0 .. AreaLen - 1 :
    Records \subseteq {x} /\ (\A v : flash[x + (RecLen - 1)] # Data(v)) => Stored = {})'
BY Unfinished, PTL

LEMMA StoredOneAll ==
  \A x \in Int : Good \subseteq {x} =>
    /\ x \in Good => Stored = {flash[x + 1][2]}
    /\ x \notin Good => Stored = {}
BY StoredOne

LEMMA StoredOneNext ==
  (\A x \in Int : Good \subseteq {x} =>
    /\ x \in Good => Stored = {flash[x + 1][2]}
    /\ x \notin Good => Stored = {})'
BY StoredOneAll, PTL

\* While a record is written, a restart reads nothing.
LEMMA WritingStored == IInv /\ pc = "write" => Stored = {}
<1> SUFFICES ASSUME IInv, pc = "write" PROVE Stored = {}
  OBVIOUS
<1>1. TypeOK /\ RecordsInv /\ WriteInv
  BY DEF IInv
<1>2. /\ addr \in 0 .. AreaLen - 1 /\ RecLen - 1 \in pos .. RecLen - 1
      /\ Records \subseteq {addr}
  BY <1>1, Lengths DEF TypeOK, WriteInv, RecordsInv
<1>3. flash[addr + (RecLen - 1)] = Blank
  BY <1>1, <1>2 DEF WriteInv
<1> QED BY <1>2, <1>3, Unfinished, KindsDiffer

\* The word being programmed.
LEMMA RamWordType ==
  ASSUME IInv, pc = "write"
  PROVE  /\ RamWord(crc, config, pos) \in Word
         /\ RamWord(crc, config, pos) # Blank
         /\ \A x : RamWord(crc, config, pos) # Half(x)
         /\ pos = 0 => RamWord(crc, config, pos) = Magic
         /\ pos = 1 => RamWord(crc, config, pos) = Crc(crc)
         /\ pos = 2 => RamWord(crc, config, pos) = Attr(RecLen, 1)
         /\ pos > 2 => /\ RamWord(crc, config, pos) = Data(config[pos - 2])
                       /\ config[pos - 2] \in Values
<1>1. pos \in 0 .. RecLen - 1 /\ crc \in Contents /\ config \in Contents
  BY DEF IInv, TypeOK
<1>2. /\ pos = 0 => RamWord(crc, config, pos) = Magic
      /\ pos = 1 => RamWord(crc, config, pos) = Crc(crc)
      /\ pos = 2 => RamWord(crc, config, pos) = Attr(RecLen, 1)
      /\ pos > 2 => RamWord(crc, config, pos) = Data(config[pos - 2])
  BY <1>1, Lengths DEF RamWord
<1>3. pos > 2 => config[pos - 2] \in Values
  <2>1. pos > 2 => pos - 2 \in 1 .. NFields
    BY <1>1, Lengths DEF RecLen
  <2> QED BY <1>1, <2>1 DEF Contents
<1>4. pos = 0 \/ pos = 1 \/ pos = 2 \/ pos > 2
  BY <1>1, Lengths
<1>5. RamWord(crc, config, pos) \in Word
  BY <1>1, <1>2, <1>3, <1>4, WordKinds
<1>6. \A x : RamWord(crc, config, pos) # Half(x)
  BY <1>2, <1>4 DEF Magic, Crc, Attr, Data, Half
<1> QED BY <1>2, <1>3, <1>4, <1>5, <1>6, KindsDiffer

\* What a word written, and one written in part, do to the records.
LEMMA WriteStep ==
  ASSUME IInv, WriteWord
  PROVE  /\ flash' = [flash EXCEPT ![addr + pos] = RamWord(crc, config, pos)]
         /\ addr + pos \in 0 .. AreaLen - 1
         /\ Slots(flash') /\ Records' \subseteq {addr}
         /\ "erase" \notin supply => Front(flash', addr + RecLen)
         /\ "erase" \in supply => Aligned(flash')
<1> DEFINE w == RamWord(crc, config, pos)
<1>0. TypeOK /\ WriteInv /\ pc = "write"
  BY DEF IInv, WriteWord
<1>1. /\ addr \in Nat /\ pos \in pos .. RecLen - 1 /\ addr + pos \in 0 .. AreaLen - 1
  BY <1>0, Lengths DEF TypeOK, WriteInv
<1>2. flash[addr + pos] = Blank
  BY <1>0, <1>1 DEF WriteInv
<1>3. flash' = [flash EXCEPT ![addr + pos] = w]
  BY <1>2 DEF WriteWord, ProgramWord
<1>4. /\ w # Blank /\ w # Half(Magic)
      /\ pos = 0 => w \in {Magic, Half(Magic)}
      /\ pos = 1 => w \in CrcWords
      /\ pos = 2 => w \in AttrWords
      /\ pos > 2 => w \in DataWords
  <2>1. crc \in Contents
    BY <1>0 DEF TypeOK
  <2> QED BY <1>0, <2>1, RamWordType DEF CrcWords, AttrWords, DataWords
<1> HIDE DEF w
<1>5. /\ Slots(flash') /\ Records' \subseteq {addr}
      /\ "erase" \notin supply =>
            Front(flash', IF w = Half(Magic) THEN addr + 1 ELSE addr + RecLen)
      /\ "erase" \in supply /\ w # Half(Magic) => Aligned(flash')
  BY <1>0, <1>3, <1>4, Program
<1> QED BY <1>1, <1>3, <1>4, <1>5 DEF w

LEMMA HalfStep ==
  ASSUME SoundBoards, IInv, PowerLossInWord
  PROVE  /\ flash' = [flash EXCEPT ![addr + pos] = Half(RamWord(crc, config, pos))]
         /\ Slots(flash') /\ Records' \subseteq {addr} /\ Stored' = {}
         /\ "erase" \notin supply
         /\ \E e \in 0 .. AreaLen : Front(flash', e)
<1> DEFINE w == Half(RamWord(crc, config, pos))
<1>0. TypeOK /\ WriteInv /\ pc = "write" /\ "half" \in supply
  BY DEF IInv, PowerLossInWord
<1>1. /\ addr \in 0 .. AreaLen - 1 /\ pos \in pos .. RecLen - 1
      /\ addr + pos \in 0 .. AreaLen - 1
      /\ addr + RecLen <= AreaLen /\ addr + 1 <= AreaLen
  BY <1>0, Lengths DEF TypeOK, WriteInv
<1>2. flash[addr + pos] = Blank
  BY <1>0, <1>1 DEF WriteInv
<1>3. flash' = [flash EXCEPT ![addr + pos] = w]
  BY <1>2 DEF PowerLossInWord, ProgramLow
<1>4. /\ w # Blank
      /\ pos = 0 => w \in {Magic, Half(Magic)}
      /\ pos = 1 => w \in CrcWords
      /\ pos = 2 => w \in AttrWords
      /\ pos > 2 => w \in DataWords
  <2>1. crc \in Contents
    BY <1>0 DEF TypeOK
  <2> QED BY <1>0, <2>1, RamWordType, KindsDiffer DEF CrcWords, AttrWords, DataWords
<1>5. \A v : w # Data(v)
  BY KindsDiffer
<1> HIDE DEF w
<1>6. /\ Slots(flash') /\ Records' \subseteq {addr}
      /\ "erase" \notin supply =>
            Front(flash', IF w = Half(Magic) THEN addr + 1 ELSE addr + RecLen)
  BY <1>0, <1>3, <1>4, Program
<1>7. "erase" \notin supply
  BY <1>0 DEF SoundBoards, TypeOK
<1>8. \E e \in 0 .. AreaLen : Front(flash', e)
  <2>1. (IF w = Half(Magic) THEN addr + 1 ELSE addr + RecLen) \in 0 .. AreaLen
    BY <1>1, Lengths
  <2> QED BY <1>6, <1>7, <2>1
<1>9. \A v : flash'[addr + (RecLen - 1)] # Data(v)
  <2>1. addr + (RecLen - 1) \in 0 .. AreaLen - 1 /\ RecLen - 1 \in pos .. RecLen - 1
    BY <1>0, <1>1, Lengths DEF TypeOK
  <2>2. flash[addr + (RecLen - 1)] = Blank
    BY <1>0, <2>1 DEF WriteInv
  <2> QED BY <1>0, <1>1, <1>3, <1>5, <2>1, <2>2, KindsDiffer DEF TypeOK
<1>10. Stored' = {}
  BY <1>1, <1>6, <1>9, UnfinishedNext
<1> QED BY <1>3, <1>6, <1>7, <1>8, <1>10 DEF w

\* The last word is written: the record is the snapshot, or a change has come
\* meanwhile and made it unreadable.
LEMMA WriteLast ==
  ASSUME IInv, WriteWord, pos = RecLen - 1
  PROVE  /\ Stored' = {crc} \/ Stored' = {}
         /\ ~ config_timer /\ ~ torn => crc = config /\ Stored' = {crc}
<1>0. TypeOK /\ WriteInv /\ SnapshotInv /\ pc = "write"
  BY DEF IInv, WriteWord
<1>1. /\ flash' = [flash EXCEPT ![addr + pos] = RamWord(crc, config, pos)]
      /\ addr + pos \in 0 .. AreaLen - 1 /\ Records' \subseteq {addr}
  BY WriteStep
<1>2. addr \in 0 .. AreaLen - 1 /\ addr \in Int /\ pos > 2 /\ addr + RecLen <= AreaLen
  BY <1>0, Lengths DEF TypeOK, WriteInv
<1>3. ASSUME NEW k \in 0 .. RecLen - 2 PROVE flash'[addr + k] = flash[addr + k]
  <2>1. addr + k \in 0 .. AreaLen - 1 /\ addr + k # addr + pos
    BY <1>2, Lengths
  <2> QED BY <1>0, <1>1, <2>1 DEF TypeOK
<1>4. flash'[addr + pos] = Data(config[pos - 2])
  BY <1>0, <1>1, <1>2, RamWordType DEF TypeOK
<1>5. /\ flash'[addr] = Magic /\ flash'[addr + 1] = Crc(crc)
      /\ flash'[addr + 2] = Attr(RecLen, 1)
  <2>1. 0 \in 0 .. RecLen - 2 /\ 1 \in 0 .. RecLen - 2 /\ 2 \in 0 .. RecLen - 2
    BY Lengths
  <2>2. flash'[addr + 0] = flash[addr + 0]
    BY <1>3, <2>1
  <2>3. flash'[addr + 1] = flash[addr + 1] /\ flash'[addr + 2] = flash[addr + 2]
    BY <1>3, <2>1
  <2>4. addr + 0 = addr
    BY <1>2
  <2>5. pos > 0 /\ pos > 1
    BY <1>2, Lengths
  <2> QED BY <1>0, <1>2, <2>2, <2>3, <2>4, <2>5 DEF WriteInv
<1>6. flash'[addr + 1][1] = "crc" /\ flash'[addr + 1][2] = crc
  BY <1>5 DEF Crc
<1>7. Good' \subseteq {addr}
  BY <1>1 DEF Good
<1>8. /\ addr \in Good' => Stored' = {crc}
      /\ addr \notin Good' => Stored' = {}
  <2>1. /\ addr \in Good' => Stored' = {flash'[addr + 1][2]}
        /\ addr \notin Good' => Stored' = {}
    <3>1. ASSUME NEW x \in Int, Good' \subseteq {x}
          PROVE  /\ x \in Good' => Stored' = {flash'[x + 1][2]}
                 /\ x \notin Good' => Stored' = {}
      BY <3>1, StoredOneNext
    <3> QED BY <1>2, <1>7, <3>1
  <2> QED BY <1>6, <2>1
<1>9. ASSUME ~ config_timer, ~ torn PROVE crc = config /\ addr \in Good'
  <2>1. crc = config
    BY <1>0, <1>9 DEF SnapshotInv
  <2>2. ASSUME NEW k \in 3 .. RecLen - 1 PROVE flash'[addr + k] = Data(crc[k - 2])
    <3>1. CASE k = pos
      BY <1>4, <2>1, <3>1
    <3>2. CASE k # pos
      <4>1. k \in 0 .. RecLen - 2 /\ k \in 3 .. pos - 1
        BY <2>2, <3>2, Lengths
      <4> QED BY <1>0, <1>3, <1>9, <2>1, <4>1 DEF WriteInv
    <3> QED BY <3>1, <3>2
  <2>3. ASSUME NEW k \in 0 .. RecLen - 1
        PROVE  flash'[addr + k] = RamWord(crc, crc, k)
    <3>1. CASE k = 0
      <4>1. addr + k = addr
        BY <1>2, <3>1
      <4> QED BY <1>5, <3>1, <4>1 DEF RamWord
    <3>2. CASE k = 1
      BY <1>5, <3>2 DEF RamWord
    <3>3. CASE k = 2
      BY <1>5, <3>3 DEF RamWord
    <3>4. CASE k \in 3 .. RecLen - 1
      BY <2>2, <3>4 DEF RamWord
    <3> QED BY <3>1, <3>2, <3>3, <3>4, Lengths
  <2>4. Valid(flash'[addr + 2])
    BY <1>5 DEF Valid, Attr
  <2> QED BY <1>2, <1>5, <1>6, <2>1, <2>3, <2>4 DEF Good, Records, IsRecord, Equal
<1> QED BY <1>8, <1>9

LEMMA WriteWordInv == IInv /\ WriteWord => IInv'
<1> SUFFICES ASSUME IInv, WriteWord PROVE IInv'
  OBVIOUS
<1>0. TypeOK /\ Layout /\ RecordsInv /\ SnapshotInv /\ WriteInv /\ pc = "write"
  BY DEF IInv, WriteWord
<1>1. /\ flash' = [flash EXCEPT ![addr + pos] = RamWord(crc, config, pos)]
      /\ addr + pos \in 0 .. AreaLen - 1
      /\ Slots(flash') /\ Records' \subseteq {addr}
      /\ "erase" \notin supply => Front(flash', addr + RecLen)
      /\ "erase" \in supply => Aligned(flash')
  BY WriteStep
<1>2. /\ addr \in Nat /\ pos \in 0 .. RecLen - 1 /\ addr + RecLen <= AreaLen
  BY <1>0 DEF TypeOK, WriteInv
<1>3. flash' \in [0 .. AreaLen - 1 -> Word \cup {Half(x) : x \in Word}]
  BY <1>0, <1>1, RamWordType DEF TypeOK
<1>4. UNCHANGED <<config, crc, config_timer, torn, supply>>
  BY DEF WriteWord, Done
<1>5. CASE pos < RecLen - 1
  <2>1. pos' = pos + 1 /\ pc' = pc /\ addr' = addr
    BY <1>5 DEF WriteWord
  <2>2. TypeOK'
    <3>1. pos' \in 0 .. RecLen - 1
      BY <1>2, <1>5, <2>1, Lengths
    <3> QED BY <1>0, <1>3, <1>4, <2>1, <3>1 DEF TypeOK
  <2>3. Layout'
    <3>1. pos' # 0
      BY <1>2, <2>1
    <3>2. "erase" \notin supply => FrontInv'
      BY <1>0, <1>1, <2>1, <3>1 DEF FrontInv
    <3>3. "erase" \in supply => AlignedInv'
      BY <1>0, <1>1, <2>1 DEF Layout, AlignedInv
    <3> QED BY <1>0, <1>1, <1>4, <2>1, <3>2, <3>3 DEF Layout
  <2>4. RecordsInv' /\ SnapshotInv' /\ SavedReadable'
    BY <1>0, <1>1, <1>4, <2>1 DEF RecordsInv, SnapshotInv, SavedReadable
  <2>5. ASSUME NEW k \in 0 .. RecLen - 1
        PROVE  flash'[addr + k] = IF k = pos THEN RamWord(crc, config, pos)
                                  ELSE flash[addr + k]
    <3>1. addr + k \in 0 .. AreaLen - 1 /\ (addr + k = addr + pos <=> k = pos)
      BY <1>2, Lengths
    <3> QED BY <1>0, <1>1, <3>1 DEF TypeOK
  <2>6. /\ pos' > 0 => flash'[addr] = Magic
        /\ pos' > 1 => flash'[addr + 1] = Crc(crc)
        /\ pos' > 2 => flash'[addr + 2] = Attr(RecLen, 1)
    <3>1. /\ flash'[addr + 0] = IF 0 = pos THEN RamWord(crc, config, pos)
                                ELSE flash[addr + 0]
          /\ flash'[addr + 1] = IF 1 = pos THEN RamWord(crc, config, pos)
                                ELSE flash[addr + 1]
          /\ flash'[addr + 2] = IF 2 = pos THEN RamWord(crc, config, pos)
                                ELSE flash[addr + 2]
      <4>1. 0 \in 0 .. RecLen - 1 /\ 1 \in 0 .. RecLen - 1 /\ 2 \in 0 .. RecLen - 1
        BY Lengths
      <4> QED BY <2>5, <4>1
    <3>2. addr + 0 = addr
      BY <1>2
    <3>3. /\ pos > 0 => flash[addr] = Magic
          /\ pos > 1 => flash[addr + 1] = Crc(crc)
          /\ pos > 2 => flash[addr + 2] = Attr(RecLen, 1)
      BY <1>0 DEF WriteInv
    <3>4. /\ pos = 0 => RamWord(crc, config, pos) = Magic
          /\ pos = 1 => RamWord(crc, config, pos) = Crc(crc)
          /\ pos = 2 => RamWord(crc, config, pos) = Attr(RecLen, 1)
      BY <1>0, RamWordType
    <3> QED BY <1>2, <2>1, <3>1, <3>2, <3>3, <3>4
  <2>7. ASSUME NEW k \in 3 .. pos' - 1
        PROVE  /\ \E v \in Values : flash'[addr + k] = Data(v)
               /\ ~ config_timer /\ ~ torn => flash'[addr + k] = Data(config[k - 2])
    <3>1. k \in 0 .. RecLen - 1 /\ (k = pos \/ k \in 3 .. pos - 1)
      BY <1>2, <1>5, <2>1, Lengths
    <3>2. CASE k = pos
      <4>1. flash'[addr + k] = Data(config[pos - 2]) /\ config[pos - 2] \in Values
        BY <1>0, <2>5, <2>7, <3>1, <3>2, RamWordType
      <4> QED BY <3>2, <4>1
    <3>3. CASE k \in 3 .. pos - 1 /\ k # pos
      BY <1>0, <2>5, <3>1, <3>3 DEF WriteInv
    <3> QED BY <3>1, <3>2, <3>3
  <2>8. ASSUME NEW k \in pos' .. RecLen - 1 PROVE flash'[addr + k] = Blank
    <3>1. k \in 0 .. RecLen - 1 /\ k # pos /\ k \in pos .. RecLen - 1
      BY <1>2, <2>1, Lengths
    <3> QED BY <1>0, <2>5, <3>1 DEF WriteInv
  <2>9. WriteInv'
    BY <1>2, <1>4, <2>1, <2>6, <2>7, <2>8 DEF WriteInv
  <2> QED BY <2>2, <2>3, <2>4, <2>9 DEF IInv
<1>6. CASE ~ (pos < RecLen - 1)
  <2>0. pos = RecLen - 1
    BY <1>2, <1>6, Lengths
  <2>1. pc' = "idle" /\ addr' = 0 /\ pos' = 0
    BY <1>6 DEF WriteWord, Done, Goto
  <2>2. TypeOK'
    BY <1>0, <1>3, <1>4, <2>1, Lengths DEF TypeOK
  <2>3. Layout'
    <3>1. addr + RecLen \in 0 .. AreaLen
      BY <1>2, Lengths
    <3>2. "erase" \notin supply => FrontInv'
      BY <1>1, <2>1, <3>1 DEF FrontInv
    <3>3. "erase" \in supply => AlignedInv'
      BY <1>1, <2>1 DEF AlignedInv
    <3> QED BY <1>1, <1>4, <2>1, <3>2, <3>3 DEF Layout
  <2>4. RecordsInv' /\ SnapshotInv' /\ WriteInv'
    BY <1>1, <2>1 DEF RecordsInv, SnapshotInv, WriteInv
  <2>5. SavedReadable'
    <3>1. ~ config_timer /\ ~ torn => Stored' = {config'}
      BY <1>4, <2>0, WriteLast
    <3>2. Stored' = {config'} => KeptSafe'
      BY DEF KeptSafe
    <3> QED BY <1>4, <3>1, <3>2 DEF SavedReadable
  <2> QED BY <2>2, <2>3, <2>4, <2>5 DEF IInv
<1> QED BY <1>5, <1>6

\* The board restarts with what is in flash, whose layout is sound.
LEMMA BootInv ==
  ASSUME IInv, Boot,
         flash' \in [0 .. AreaLen - 1 -> Word \cup {Half(x) : x \in Word}],
         Slots(flash'),
         \A a, b \in Records' : a = b,
         Stored' = {} \/ \E c \in Contents : Stored' = {c},
         "erase" \notin supply => \E e \in 0 .. AreaLen : Front(flash', e),
         "erase" \in supply => Aligned(flash')
  PROVE  IInv'
<1>1. /\ pc' = "idle" /\ crc' = config' /\ addr' = 0 /\ pos' = 0 /\ supply' = supply
      /\ config' \in InUse(Stored') /\ torn' = FALSE
      /\ config_timer' = (Stored' = {})
  BY DEF Boot, Read, Goto
<1>2. /\ config' \in Contents
      /\ \A c \in Contents : Stored' = {c} => Kept(config') = Kept(c)
  <2>1. CASE Stored' = {}
    <3>1. config' = Default
      BY <1>1, <2>1 DEF InUse
    <3> QED BY <2>1, <3>1
  <2>2. ASSUME NEW c \in Contents, Stored' = {c}
        PROVE  config' \in Contents /\ Kept(config') = Kept(c)
    <3>1. config' = c \/ config' = [c EXCEPT ![Current] = c[PowerOn]]
      BY <1>1, <2>2 DEF InUse, Started
    <3>2. [c EXCEPT ![Current] = c[PowerOn]] \in Contents
      BY FieldAssumption DEF Contents
    <3> QED BY <3>1, <3>2, KeptSame
  <2> QED BY <2>1, <2>2
<1>3. config_timer' \in BOOLEAN /\ torn' \in BOOLEAN
  BY <1>1
<1>4. TypeOK'
  <2>1. supply \in Supplies
    BY DEF IInv, TypeOK
  <2> QED BY <1>1, <1>2, <1>3, <2>1, Lengths DEF TypeOK
<1>5. Layout'
  BY <1>1 DEF Layout, FrontInv, AlignedInv
<1>6. RecordsInv' /\ SnapshotInv' /\ WriteInv'
  BY <1>1 DEF RecordsInv, SnapshotInv, WriteInv
<1>7. SavedReadable'
  <2>1. ASSUME ~ config_timer' PROVE KeptSafe'
    <3>1. PICK c \in Contents : Stored' = {c}
      BY <1>1, <2>1
    <3>2. Kept(config') = Kept(c)
      BY <1>2, <3>1
    <3> QED BY <3>1, <3>2 DEF KeptSafe
  <2> QED BY <2>1 DEF SavedReadable
<1> QED BY <1>4, <1>5, <1>6, <1>7 DEF IInv

LEMMA PowerLossInv == SoundBoards /\ IInv /\ (PowerLoss \/ PowerLossInWord) => IInv'
<1> SUFFICES ASSUME SoundBoards, IInv, PowerLoss \/ PowerLossInWord PROVE IInv'
  OBVIOUS
<1>0. TypeOK /\ Layout /\ RecordsInv /\ WriteInv
  BY DEF IInv
<1>1. CASE PowerLoss
  <2>1. pc \in supply /\ flash' = flash /\ Boot
    BY <1>1 DEF PowerLoss
  <2>2. Records' = Records /\ Stored' = Stored
    BY <2>1, SameFlash
  <2>3. \A a, b \in Records : a = b
    BY <1>0 DEF RecordsInv
  <2>4. Stored' = {} \/ \E c \in Contents : Stored' = {c}
    BY <1>0, <2>2, <2>3, StoredType DEF Layout
  <2>5. ASSUME "erase" \notin supply PROVE \E e \in 0 .. AreaLen : Front(flash, e)
    <3>1. pc \in {"idle", "crc", "scan", "space", "write"}
      BY <1>0, <2>1, <2>5 DEF TypeOK
    <3>2. CASE pc = "write"
      <4>1. Front(flash, IF pos = 0 THEN addr ELSE addr + RecLen)
        BY <1>0, <2>5, <3>2 DEF Layout, FrontInv
      <4>2. (IF pos = 0 THEN addr ELSE addr + RecLen) \in 0 .. AreaLen
        BY <4>1 DEF Front
      <4> QED BY <4>1, <4>2
    <3> QED BY <1>0, <2>5, <3>1, <3>2 DEF Layout, FrontInv
  <2>6. "erase" \in supply => Aligned(flash)
    BY <1>0 DEF Layout, AlignedInv
  <2>7. Slots(flash)
    BY <1>0 DEF Layout
  <2>8. flash \in [0 .. AreaLen - 1 -> Word \cup {Half(x) : x \in Word}]
    BY <1>0 DEF TypeOK
  <2> QED BY <2>1, <2>2, <2>3, <2>4, <2>5, <2>6, <2>7, <2>8, BootInv
<1>2. CASE PowerLossInWord
  <2>1. /\ flash' = [flash EXCEPT ![addr + pos] = Half(RamWord(crc, config, pos))]
        /\ Slots(flash') /\ Records' \subseteq {addr} /\ Stored' = {}
        /\ "erase" \notin supply
        /\ \E e \in 0 .. AreaLen : Front(flash', e)
    BY <1>2, HalfStep
  <2>2. pc = "write" /\ Boot
    BY <1>2 DEF PowerLossInWord
  <2>3. flash' \in [0 .. AreaLen - 1 -> Word \cup {Half(x) : x \in Word}]
    BY <1>0, <2>1, <2>2, RamWordType DEF TypeOK
  <2>4. \A a, b \in Records' : a = b
    BY <2>1
  <2> QED BY <2>1, <2>2, <2>3, <2>4, BootInv
<1> QED BY <1>1, <1>2

\* A new board: the area is erased, the defaults are due to be saved.
LEMMA InitInv == Init => IInv
<1> SUFFICES ASSUME Init PROVE IInv
  OBVIOUS
<1>1. /\ flash = [a \in 0 .. AreaLen - 1 |-> Blank]
      /\ config = Default /\ config_timer = TRUE /\ torn = FALSE
      /\ crc = Default /\ pc = "idle" /\ addr = 0 /\ pos = 0 /\ supply \in Supplies
  BY DEF Init
<1>2. \A a \in 0 .. AreaLen - 1 : flash[a] = Blank /\ flash[a] # Magic
  BY <1>1, KindsDiffer
<1>3. TypeOK
  <2>1. config_timer \in BOOLEAN /\ torn \in BOOLEAN
    BY <1>1
  <2>2. flash \in [0 .. AreaLen - 1 -> Word \cup {Half(w) : w \in Word}]
    BY <1>1, WordKinds
  <2>3. addr \in Nat /\ pos \in 0 .. RecLen - 1
    BY <1>1, Lengths
  <2> QED BY <1>1, <2>1, <2>2, <2>3 DEF TypeOK
<1>4. Records = {}
  BY <1>2 DEF Records, IsRecord
<1>5. Slots(flash) /\ Aligned(flash)
  BY <1>2 DEF Slots, Aligned
<1>6. Front(flash, 0)
  BY <1>2, Lengths DEF Front
<1>7. Layout
  <2>1. 0 \in 0 .. AreaLen
    BY Lengths
  <2> QED BY <1>1, <1>5, <1>6, <2>1 DEF Layout, FrontInv, AlignedInv
<1>8. RecordsInv /\ SnapshotInv /\ WriteInv /\ SavedReadable
  BY <1>1, <1>4 DEF RecordsInv, SnapshotInv, WriteInv, SavedReadable
<1> QED BY <1>3, <1>7, <1>8 DEF IInv

LEMMA NextInv == SoundBoards /\ IInv /\ [Next]_vars => IInv'
<1> SUFFICES ASSUME SoundBoards, IInv, [Next]_vars PROVE IInv'
  OBVIOUS
<1>1. CASE UNCHANGED vars
  <2>1. UNCHANGED <<flash, config, crc, config_timer, torn, pc, addr, pos, supply>>
    BY <1>1 DEF vars
  <2>2. Records' = Records /\ Stored' = Stored
    BY <2>1, SameFlash
  <2>3. TypeOK' /\ Layout' /\ RecordsInv' /\ SnapshotInv' /\ WriteInv'
    BY <2>1, <2>2 DEF IInv, TypeOK, Layout, FrontInv, AlignedInv, RecordsInv,
                      SnapshotInv, WriteInv
  <2>4. KeptSafe' <=> KeptSafe
    BY <2>1, <2>2 DEF KeptSafe
  <2>5. SavedReadable'
    BY <2>1, <2>4 DEF IInv, SavedReadable
  <2> QED BY <2>3, <2>5 DEF IInv
<1>2. CASE \/ \E f \in 1 .. NFields, v \in Values : Change(f, v)
           \/ \E v \in Values : ChangeBank(v)
  BY <1>2, ChangeInv, ChangeBankInv
<1>3. CASE MainLoop
  BY <1>3, BeginInv, MatchInv, InvalidateInv, ScanEndInv, SpaceSkipInv,
     SpaceFoundInv, EraseInv, WriteWordInv DEF MainLoop
<1>4. CASE PowerLoss \/ PowerLossInWord
  BY <1>4, PowerLossInv
<1> QED BY <1>1, <1>2, <1>3, <1>4 DEF Next

-------------------------------------------------------------------------------
(* Theorems.                                                               *)

\* The inductive invariant of the store holds on every sound board.
THEOREM Invariance == SoundBoards => (Spec => []IInv)
<1>1. SoundBoards => []SoundBoards
  <2>1. SoundBoards => SoundBoards'
    BY DEF SoundBoards, Whole
  <2> QED BY <2>1, PTL
<1> QED BY InitInv, NextInv, <1>1, PTL DEF Spec

\* Every variable keeps to its range: what is in flash after any sequence of
\* power losses is words the firmware wrote, whole or the first half of them.
THEOREM TypeCorrect == SoundBoards => (Spec => []TypeOK)
<1>1. IInv => TypeOK
  BY DEF IInv
<1> QED BY <1>1, Invariance, PTL

\* config_read never has two records to choose from, so it cannot bring back an
\* old configuration.
THEOREM OneGoodRecord == SoundBoards => (Spec => []OneGood)
<1>1. IInv => OneGood
  <2> SUFFICES ASSUME IInv PROVE Cardinality(Good) <= 1
    BY DEF OneGood
  <2>1. \A a, b \in Good : a = b
    BY DEF IInv, RecordsInv, Good
  <2>2. CASE Good = {}
    BY <2>2, FS_EmptySet
  <2>3. CASE Good # {}
    <3>1. PICK x : Good = {x}
      BY <2>1, <2>3
    <3> QED BY <3>1, FS_Singleton
  <2> QED BY <2>2, <2>3
<1> QED BY <1>1, Invariance, PTL

\* When no save runs and none is due, a restart finds the fields in use that are
\* to be saved, whenever they were changed during a save and wherever the power
\* has failed; unless the bank was switched during the last save.
THEOREM SavedIsReadable == SoundBoards => (Spec => []SavedReadable)
<1>1. IInv => SavedReadable
  BY DEF IInv
<1> QED BY <1>1, Invariance, PTL

\* All the words the search for space hands out are erased, although it tests
\* only the first one.
THEOREM WriteFindsBlank == SoundBoards => (Spec => []WritesBlank)
<1>1. IInv => WritesBlank
  <2> SUFFICES ASSUME IInv, pc = "write", NEW k \in pos .. RecLen - 1
               PROVE  addr + k \in DOMAIN flash /\ flash[addr + k] = Blank
    BY DEF WritesBlank
  <2>1. TypeOK /\ WriteInv
    BY DEF IInv
  <2>2. addr + k \in 0 .. AreaLen - 1
    BY <2>1, Lengths DEF TypeOK, WriteInv
  <2> QED BY <2>1, <2>2 DEF TypeOK, WriteInv
<1> QED BY <1>1, Invariance, PTL

-------------------------------------------------------------------------------
(* The store implements the register.                                      *)

LEMMA NoRecords == Records = {} => Stored = {}
BY DEF Good, Stored

LEMMA NoRecordsNext == (Records = {} => Stored = {})'
BY NoRecords, PTL

\* From the end of the scan to the end of the save a restart reads nothing.
LEMMA SavingStored ==
  IInv /\ pc \in {"space", "erase", "write"} => Stored = {}
<1> SUFFICES ASSUME IInv, pc \in {"space", "erase", "write"} PROVE Stored = {}
  OBVIOUS
<1>1. CASE pc = "write"
  BY <1>1, WritingStored
<1>2. CASE pc # "write"
  BY <1>2, NoRecords DEF IInv, RecordsInv
<1> QED BY <1>1, <1>2

LEMMA SavingStoredNext ==
  (IInv /\ pc \in {"space", "erase", "write"} => Stored = {})'
BY SavingStored, PTL

\* A command is the change of the register, or of its bank; a save begins and
\* takes its snapshot.
LEMMA StartsRegister ==
  ASSUME IInv,
         \/ \E f \in 1 .. NFields, v \in Values : Change(f, v)
         \/ \E v \in Values : ChangeBank(v)
         \/ config_poll \/ ComputeCrc
  PROVE  Register!Next
<1> USE DEF ram, Goto
<1>0. config \in Contents
  BY DEF IInv, TypeOK
<1>1. ASSUME NEW f \in 1 .. NFields, NEW v \in Values, Change(f, v) PROVE Register!Next
  <2>1. /\ config' = [config EXCEPT ![f] = v] /\ config_timer' = TRUE
        /\ UNCHANGED <<flash, crc, torn, pc>>
    BY <1>1 DEF Change, config_updated
  <2>2. config' \in Contents
    BY <1>0, <2>1 DEF Contents
  <2>3. Stored' = Stored
    BY <2>1, SameFlash
  <2>4. Register!Change
    BY <2>1, <2>2, <2>3 DEF Register!Change
  <2> QED BY <2>4 DEF Register!Next
<1>2. CASE config_poll
  <2>1. /\ pc = "idle" /\ pc' = "crc" /\ config_timer /\ config_timer' = FALSE
        /\ UNCHANGED <<flash, config, crc, torn>>
    BY <1>2 DEF config_poll
  <2>2. Stored' = Stored
    BY <2>1, SameFlash
  <2>3. Register!Begin
    BY <2>1, <2>2 DEF Register!Begin
  <2> QED BY <2>3 DEF Register!Next
<1>3. CASE ComputeCrc
  <2>1. /\ pc = "crc" /\ pc' = "scan" /\ crc' = config /\ torn' = FALSE
        /\ UNCHANGED <<flash, config, config_timer>>
    BY <1>3 DEF ComputeCrc
  <2>2. Stored' = Stored
    BY <2>1, SameFlash
  <2>3. Register!Snapshot
    BY <2>1, <2>2 DEF Register!Snapshot
  <2> QED BY <2>3 DEF Register!Next
<1>4. ASSUME NEW v \in Values, ChangeBank(v) PROVE Register!Next
  <2>1. /\ config' = [config EXCEPT ![Current] = v]
        /\ torn' = (torn \/ pc # "idle")
        /\ UNCHANGED <<flash, crc, config_timer, pc>>
    BY <1>4 DEF ChangeBank
  <2>2. config' \in Contents /\ config' = [config EXCEPT ![Current] = config'[Current]]
    BY <1>0, <2>1, FieldAssumption DEF Contents
  <2>3. Stored' = Stored
    BY <2>1, SameFlash
  <2>4. Register!ChangeBank
    BY <2>1, <2>2, <2>3 DEF Register!ChangeBank
  <2> QED BY <2>4 DEF Register!Next
<1> QED BY <1>1, <1>2, <1>3, <1>4

\* The scan finds the record stored and is done, or forgets it.
LEMMA ScansRegister ==
  ASSUME IInv, ScanMatch \/ ScanInvalidate
  PROVE  Register!Next
<1> USE DEF ram, Goto
<1>0. SnapshotInv /\ config_timer \in BOOLEAN /\ torn \in BOOLEAN
  BY DEF IInv, TypeOK
<1>1. CASE ScanMatch
  <2>1. /\ pc = "scan" /\ pc' = "idle"
        /\ UNCHANGED <<flash, config, crc, config_timer, torn>>
    BY <1>1 DEF ScanMatch, Done
  <2>2. Stored' = IF crc = config THEN {crc} ELSE {}
    BY <1>1, <2>1, SameFlash, MatchGood
  <2>3. ~ config_timer /\ ~ torn => crc = config
    BY <1>0, <2>1 DEF SnapshotInv
  <2>4. Stored' \in {{crc}, {}} /\ (Stored' = {} => config_timer \/ torn)
    BY <1>0, <2>2, <2>3
  <2>5. Register!Finish
    BY <2>1, <2>4 DEF Register!Finish
  <2> QED BY <2>5 DEF Register!Next
<1>2. CASE ScanInvalidate
  <2>1. pc = "scan" /\ pc' = pc /\ UNCHANGED <<config, crc, config_timer, torn>>
    BY <1>2 DEF ScanInvalidate
  <2>2. Stored' = {}
    BY <1>2, InvalidateRecords, NoRecordsNext
  <2>3. Register!Forget
    BY <2>1, <2>2 DEF Register!Forget
  <2> QED BY <2>3 DEF Register!Next
<1> QED BY <1>1, <1>2

\* The search for space and the erase do not show; nor does the write before
\* its last word, which ends the save.
LEMMA WritesRegister ==
  ASSUME IInv, IInv',
         ScanEnd \/ SpaceSkip \/ SpaceFound \/ ErasePage \/ WriteWord
  PROVE  Register!Next \/ UNCHANGED Register!rvars
<1> USE DEF ram, Goto
<1>1. CASE ScanEnd \/ SpaceSkip \/ SpaceFound
  <2>1. /\ pc # "idle" /\ pc' # "idle"
        /\ UNCHANGED <<flash, config, crc, config_timer, torn>>
    BY <1>1 DEF ScanEnd, SpaceSkip, SpaceFound
  <2>2. Stored' = Stored
    BY <2>1, SameFlash
  <2> QED BY <2>1, <2>2 DEF Register!rvars
<1>2. CASE ErasePage
  <2>1. /\ pc = "erase" /\ pc' \in {"erase", "write"}
        /\ UNCHANGED <<config, crc, config_timer, torn>>
    BY <1>2 DEF ErasePage
  <2>2. Stored = {} /\ Stored' = {}
    BY <2>1, SavingStored, SavingStoredNext
  <2> QED BY <2>1, <2>2 DEF Register!rvars
<1>3. CASE WriteWord /\ pos < RecLen - 1
  <2>1. pc = "write" /\ pc' = pc /\ UNCHANGED <<config, crc, config_timer, torn>>
    BY <1>3 DEF WriteWord
  <2>2. Stored = {} /\ Stored' = {}
    BY <2>1, SavingStored, SavingStoredNext
  <2> QED BY <2>1, <2>2 DEF Register!rvars
<1>4. CASE WriteWord /\ ~ (pos < RecLen - 1)
  <2>1. /\ pc = "write" /\ pc' = "idle"
        /\ UNCHANGED <<config, crc, config_timer, torn>>
    BY <1>4 DEF WriteWord, Done
  <2>2. pos = RecLen - 1
    BY <1>4, Lengths DEF IInv, TypeOK
  <2>3. config_timer \in BOOLEAN /\ torn \in BOOLEAN
    BY DEF IInv, TypeOK
  <2>4. /\ Stored' = {crc} \/ Stored' = {}
        /\ ~ config_timer /\ ~ torn => Stored' = {crc}
    BY <1>4, <2>2, WriteLast
  <2>5. Stored' \in {{crc}, {}} /\ (Stored' = {} => config_timer \/ torn)
    BY <2>3, <2>4
  <2>6. Register!Finish
    BY <2>1, <2>5 DEF Register!Finish
  <2> QED BY <2>6 DEF Register!Next
<1> QED BY <1>1, <1>2, <1>3, <1>4

\* A restart finds what was stored when the power failed.
LEMMA RestartsRegister ==
  ASSUME SoundBoards, IInv, PowerLoss \/ PowerLossInWord
  PROVE  Register!Next
<1>1. Boot
  BY DEF PowerLoss, PowerLossInWord
<1>2. Stored' = Stored
  <2>1. CASE PowerLoss
    BY <2>1, SameFlash DEF PowerLoss
  <2>2. CASE PowerLossInWord
    <3>1. Stored' = {}
      BY <2>2, HalfStep
    <3> QED BY <2>2, <3>1, SavingStored DEF PowerLossInWord
  <2> QED BY <2>1, <2>2
<1>3. /\ pc' = "idle" /\ crc' = config'
      /\ config' \in (IF Stored = {} THEN {Default}
                      ELSE UNION {Register!Started(c) : c \in Stored})
      /\ config_timer' = (Stored = {}) /\ torn' = FALSE
  BY <1>1, <1>2 DEF Boot, Read, InUse, Started, Register!Started, Goto
<1>4. Register!Restart
  BY <1>2, <1>3 DEF Register!Restart
<1> QED BY <1>4 DEF Register!Next

\* The records in flash and the copy in RAM are a register with a snapshot: a
\* restart finds the last snapshot stored, or nothing; never an older
\* configuration and never a mixture of two.  A save ends without storing only
\* if another is due or the bank was switched meanwhile.
THEOREM StoreIsRegister == SoundBoards => (Spec => RegisterSpec)
<1>1. Init => Register!Init
  <2> SUFFICES ASSUME Init PROVE Register!Init
    OBVIOUS
  <2>1. \A a \in 0 .. AreaLen - 1 : flash[a] # Magic
    BY KindsDiffer DEF Init
  <2>2. Stored = {}
    BY <2>1, NoRecords DEF Records, IsRecord
  <2> QED BY <2>2 DEF Init, Register!Init
<1>2. SoundBoards /\ IInv /\ IInv' /\ [Next]_vars => [Register!Next]_(Register!rvars)
  <2> SUFFICES ASSUME SoundBoards, IInv, IInv', [Next]_vars
               PROVE  Register!Next \/ UNCHANGED Register!rvars
    OBVIOUS
  <2>1. CASE UNCHANGED vars
    <3>1. UNCHANGED <<flash, config, crc, config_timer, torn, pc>>
      BY <2>1 DEF vars
    <3> QED BY <3>1, SameFlash DEF Register!rvars
  <2>2. CASE \/ \E f \in 1 .. NFields, v \in Values : Change(f, v)
             \/ \E v \in Values : ChangeBank(v)
    BY <2>2, StartsRegister
  <2>3. CASE MainLoop
    BY <2>3, StartsRegister, ScansRegister, WritesRegister DEF MainLoop
  <2>4. CASE PowerLoss \/ PowerLossInWord
    BY <2>4, RestartsRegister
  <2> QED BY <2>1, <2>2, <2>3, <2>4 DEF Next
<1>3. SoundBoards => []SoundBoards
  <2>1. SoundBoards => SoundBoards'
    BY DEF SoundBoards, Whole
  <2> QED BY <2>1, PTL
<1> QED BY <1>1, <1>2, <1>3, Invariance, PTL DEF Spec, RegisterSpec, Register!Spec
===============================================================================
