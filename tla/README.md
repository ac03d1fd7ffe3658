# Verification of Kicksmash

Kicksmash replaces the Kickstart ROM of an Amiga by flash memory behind an
STM32 microcontroller. The firmware in `fw/` watches the ROM bus: an Amiga
program sends it commands by reading ROM addresses, and gets answers in place of
ROM data. A host computer is connected to the firmware by USB. The two programs
talk to each other through two message rings in the firmware; on top of them
the host serves files to an AmigaDOS handler.

This directory holds TLA+ models of that system, TLC runs and TLAPS proofs.

## Inventory

| Part | State | Operations | What is hard |
|---|---|---|---|
| Message rings (`fw/msg.c`) | `msg_atou[]`, `msg_utoa[]`, their producer and consumer indices, `msg_lock` | MSG_SEND, MSG_RECEIVE, MSG_LOCK, MSG_FLUSH, MSG_INFO from each side | Amiga commands run in an interrupt, USB commands in the main loop with interrupts on; wrapping; a lock nobody updates atomically |
| Amiga command scanner (`fw/msg.c`, `process_addresses`) | capture buffer written by DMA, `rx_consumer`, `magic_pos`, `cmd_len` | search of the magic, length, data, CRC; dispatch | finds commands in arbitrary bus traffic; resynchronises; the buffer is overwritten while it is read |
| Interrupt throttle (`fw/msg.c`, `msg_poll`) | `consumer_wrap`, `consumer_wrap_last_poll`, the interrupt enable | disable in the interrupt, enable in the main loop | never left disabled |
| Amiga replies (`ks_reply`) | DMA to the data bus | raw and built replies | can time out half way |
| USB parser (`msg_usb_service`) | `pos`, `len`, buffer | byte by byte, 200 ms timeout, CRC | resynchronisation after an abandoned command |
| Application state | `state_*_app` and two expiry times | MSG_STATE, MSG_INFO | expiry is lazy |
| ROM banks (`m29f160xt.c`, `config.c`, `msg.c`) | `bi_merge[]`, current, next and power-on bank, long reset sequence | BANK_SET, BANK_MERGE, BANK_LRESET, reset, long reset, power on | validation loops; which address lines are forced |
| Configuration store (`config.c`) | records in internal flash, the copy in RAM, `config_timer` | delayed save, read at boot | power loss between invalidate and write; the interrupt changes what is being saved; the area fills up |
| Amiga reset line (`kbrst.c`) | the level seen last, reset and long reset timers | `kbrst_poll`, `kbrst_amiga` | timers against edges |
| ROM flash driver (`m29f160xt.c`) | the chips' command state | program, erase, verify with retry | status polling |
| Amiga command library (`amiga/sm_msg*.c`) | tags | `send_cmd_retry`, `host_send_msg`, `host_recv_msg` | a retried command may have been executed |
| File client and host service (`amiga/sm_file.c`, `sw/hostsmash.c`) | handles on both ends | open, read, write, close, directory scan | handles left over by a side that restarted |
| Console, drivers, tools, recovery ROM | | | mostly I/O, see `PROJECT.json` |

How they interact. The Amiga's bus accesses are captured by DMA; the capture
interrupt runs the scanner and, when a command is complete, the command itself
(`execute_cmd`), to the end. The USB host's bytes are read in the main loop; its
command (`execute_usb_cmd`) runs there and can be interrupted anywhere. Both work
on the rings, on `msg_lock`, on the application states and on the configuration;
nothing disables interrupts around any of it.

What makes each part correct: the rings deliver each message once, whole and in
order; the scanner executes exactly the commands that are in the captured words; the
throttle always lets the interrupt come back; the host takes no reply for
another; a file operation that reports success was carried out once, and one that
the server rejects not at all; what a program holds of the file system stays until it
gives it back; the Amiga boots from the bank chosen, and flash writes go to the bank
meant; the configuration read after a restart is the one saved last.

## Plan

| Step | Modules | State |
|---|---|---|
| Rings | `Ring`, `MsgQueue`, `MsgBuffers` | modelled, checked; all safety properties and the refinement proved |
| Configuration | `ConfigStore`, `ConfigRegister` | modelled, checked; all safety properties and the refinement proved |
| The commands of the Amiga, from the bus | `MagicScan` | modelled, checked; safety proved |
| The commands of the USB host, from the line | `UsbLink` | modelled, checked; safety proved |
| File calls over the rings, client and server | `FileSession` | modelled, checked; safety proved |
| The AmigaDOS handler above the file calls | `FsHandler` | modelled, checked; safety proved |
| Banks and reset line | `BankSwitch` | modelled, checked; safety proved |

How they compose. `MsgBuffers` implements `MsgQueue`, and `FileSession` uses the
rings as such queues. `MsgBuffers` takes a command as it arrives whole: that
this is what arrives is the subject of `MagicScan` for the Amiga and of `UsbLink` for
USB. `FsHandler` lets each file call succeed, fail, or end without an answer, and then
be carried out or not: that it returns, and that a call the server rejected has done
nothing, is the subject of `FileSession`.

Every invariant and action property that a passing run checks is a theorem, and so are both
refinements; excepted are the two properties of the ring lock, which the code keeps only
as long as its users behave (see there). The liveness properties stay with TLC everywhere.

Left to model: directory scans and links of the file service, `MSG_STATE`'s
individual bits, `timer_tick_get` (two registers and an overflow interrupt), the
transfer of ROM images from the host.

## Message rings

### Modules

* `Ring`: index arithmetic and contents of one ring. Its unit is the 16-bit word.
  `Inuse`, `Avail`, `Wrap` are the `SPACE_*` macros and the masks; `Copy` is the
  one or two `memcpy` of `atou_add` and `utoa_add`; `HasMessage` and `LenAt` are
  `*_next_msg_len`. A word is abstracted to (message, length, position): it
  matches the k-th magic word exactly if it is the k-th word of a message, so a
  payload never looks like a magic.
* `MsgQueue`: what the rings promise, a FIFO queue of whole messages per
  direction, with a flush that discards the oldest ones.
* `MsgBuffers`: both rings, `msg_lock` and the commands. An Amiga command is one
  step (it runs in the interrupt). A USB command is cut at each access to a
  variable the interrupt uses; `pc` says where the main loop is. The steps of
  SEND are `UsbSend` (lock check), `UsbSpace`, `UsbCopy`, `UsbPublish`; of RECEIVE
  `UsbRecv`, `UsbNextLen` or `UsbNextNone`, `UsbReply`, `UsbAdvance`, or `UsbStore`
  when nothing is found; of FLUSH `UsbFlush`, `UsbFlushRead`, `UsbStore`; of LOCK
  a check-and-load and a store.
  Where the C leaves it to the compiler whether an index or `msg_lock` is read a
  second time (neither is volatile), the step chooses either value. One re-read is not
  in the model: the store that ends `atou_next_msg_len` and the flush (`UsbStore`) uses the
  value read before, because there is no call and no volatile access between the two, and the
  firmware is built with -O2 (`fw/Makefile` line 107); a compiler that read it again
  would break the ring, as the mutant `StoreIndexFresh` shows.
  `log`, `taken`, `upto`, `out` and `granted` are history.
* `MCMsgBuffers`: constants for TLC.
* `Framing_proofs`, `MsgBuffers_proofs`: the proofs.

Coarser than the code: `SPACE_INUSE_*` reads two indices in one step (the side
that evaluates it owns one of them, so only one can move), a `memcpy` is one step,
and so is the transmission of a reply. A refused command (LOCKED, BADLEN) changes
nothing and is a stuttering step. `MSG_INFO` and the message counters are left out.

### Runs

| Run | Question | Result |
|---|---|---|
| `ring_default` | Each side uses its own direction. Are the rings FIFO queues of whole messages, and do they drain? | holds |
| `ring_loopback` | The Amiga's loopback test locks the USB side out between two USB commands and uses both directions. Do the queues and the lock hold? Is the inductive invariant one? | holds |
| `ring_lock_race` | The same with the lock granted at any time. | `LockExcludesUsb` violated |
| `ring_double_owner` | Both sides lock the same ring. | `NoDoubleOwner` violated |

The properties: `InuseExact` and `MessagesWhole` (together `Framing`, in `ring_loopback` a part of `IInv`) say that a
ring holds exactly the messages accepted and not taken, whole, back to back from
the consumer index; `ReplyWhole` that a USB receive transmits such a message
however long it takes; `OnlyFlushDiscards` that messages leave a ring unread only by a flush,
so that the consumer index reset of a receive that found nothing loses nothing, on the
Amiga's side (`AmigaRecvNone`, the mutant of it) as on the USB side (`UsbStore`); `QueueSpec` that the whole implements
`MsgQueue`; `Drained` that each accepted message leaves; `LockExcludesUsb` and
`NoDoubleOwner` what the lock is for.

The two violations are findings. A USB command checks the lock once and then
works on the ring; the interrupt may grant the ring to the Amiga in between.
And the USB side's own lock update is a check and a read-modify-write, with the
same interrupt in between: both sides are told they have the ring. Neither
happens while the Amiga takes the lock when no USB command is running, which is
what `QuietLock` says and how the self test is meant to be used.

One more divergence is visible in the sources: `fw/smash_cmd.h` says that lock
bit 0 locks buffer 1 "from Amiga access", while `fw/msg.c` (line 121 and every
check) has bits 0 and 1 deny the USB side and 2 and 3 the Amiga. The model follows
the code.

### Bounds

Headers have 4 words with 2 of magic instead of 8 with 4, and the ring 12 words
instead of 2048: payloads of 0 and 1 words make messages of 4 and 6 words (the odd
one is rounded up), two messages fill a ring to its last usable word or leave
too little space for a third, and the third message wraps. `MaxSent` accepts three
messages per ring, so that a wrapped message is sent and received. The proofs
have no bound.

### Fairness

`FairSpec` assumes that a USB command that has begun goes on (the main loop runs
whatever the interrupts do), that the host receives again and again (its loop in
`sw/hostsmash.c` polls; strong fairness because it does other commands in
between), and that the Amiga program receives while there is something. Only
`Drained` uses it.

### What is proved

For every ring size, header and magic length (`RingAssumption`), payload set,
command sets, lock sets and number of messages (`BuffersAssumption`):

* `TypeCorrect`: `Spec => []TypeOK`, without further assumptions.
* `RingsAreQueues`: under `Disciplined`, every step is a step of `MsgQueue` or a
  stutter, so each ring is a queue. The step that appends is the one that moves the
  producer index, the one that takes is the one that moves the consumer index;
  `FlushDiscards` (`OnlyFlushDiscards`) tells the steps that move the consumer index past
  messages from those that must not.
* `Invariance`: `Disciplined => (Spec => []IInv)`, and from it `FramingHolds` and
  `ReplyHolds`. `Disciplined` is a fact about the constants: the USB host keeps to
  its own direction, and the Amiga does too, or else takes the lock while no USB
  command runs and the host leaves the Amiga's lock bits alone.

`Framing` alone is not inductive: the step that moves the producer index needs
that the space was checked and the message copied to where it points
(`SendExact`); the one that moves the consumer index, that the length is that of
the oldest message (`RecvExact`) or that the index read before is a message
boundary (`StoreExact`); all three, that the interrupt only touches the other end
of that ring (`PcExact`, `Excluded`). `LogExact` says that message numbers and
offsets agree, which `HeadFound` needs to recognise the oldest message.
`Framing_proofs` has the facts about modular indices, and those about a ring and its
log under copy, publish and take; `MsgBuffers_proofs` one lemma per group of actions.

Only model-checked: `Drained` (liveness and ENABLED are beyond the prover), and
`LockExcludesUsb` and `NoDoubleOwner`, which hold under `QuietLock` only: nothing in the code
enforces it, so there is nothing to prove of the code, and the two violations are what
is to be said of the lock.

## Configuration store

### Modules

* `ConfigStore`: `config_updated` and `config_poll` with `config_write` on the
  configuration area, `stm32flash_write` and `stm32flash_erase`, and `config_read` at
  start. `flash` is the area in 32-bit words, which is the step of all the code's
  scans; a record is the words magic, CRC, size with valid, and one per field of
  the configuration. `pc` says what the main loop is doing: `idle`, `crc`, `scan`
  (invalidate old records), `space` (search), `erase`, `write`. `Change` is any command that
  changes a field and calls `config_updated`; those of the Amiga run in the
  interrupt, so it may come between any two steps. `ChangeBank` is a change of the current
  bank, which is a field under the CRC like the others, but schedules no save
  (`fw/m29f160xt.c` line 1365). `PowerLoss` is followed by the restart, which takes
  the current bank from the power-on bank (`fw/main.c` line 80). A word is programmed as two half words; a power loss in between leaves
  `Half(w)`, which is neither erased nor the word. A word that is not erased cannot
  be programmed.
* `ConfigRegister`: the promise. A save takes a snapshot of the configuration, may
  forget what was stored, and ends with the snapshot stored or with another save
  due, or with nothing stored if the bank was switched meanwhile (`torn`); outside a save nothing is lost, and a restart finds the snapshot stored last
  or nothing, never an older configuration and never a mixture.
* `MCConfigStore`: constants for TLC.

Simplified: the CRC is the configuration it was computed from; no field looks like
the magic; a record is compared with `memcmp` in one step (a change during it starts
the timer again); a page erase and the programming of a half word happen or do not
happen, and the erase works; the timer, started, elapses. The next-reset bank
(`fw/msg.c` lines 1420-1431) is as the current one and not told apart from it.

### Runs

| Run | Question | Result |
|---|---|---|
| `config_store` | Changes come at any time of a save, and the power fails at any time. Does the store implement the register, is what was saved readable, is everything saved in the end? | holds |
| `config_power_loss` | May a stored configuration be lost? | `Persists` violated |

`OneGood` says that `config_read`, which takes the first record it likes, never has two
to choose from. `SavedReadable`: when no save runs and none is due, a restart finds the
configuration in use (`InUse`: the fields as a start of the firmware sees them). It is what makes the order in `config_poll` right (the timer is cleared
before the save: a change during the save starts it again, and the record that the
change made inconsistent is replaced). `WritesBlank`: the space search tests one
word, and yet all the words it hands out are erased. `RegisterSpec` is the
refinement. `EventuallySaved`: once changes and power losses stop, the
configuration in use gets stored.

All three excuse `torn`: when the interrupt switches the bank between the CRC of a record
and the end of its copy, the record is bad, and nothing has started the
timer. The old record is invalid by then, so until the next change of another field the
board has no configuration stored. The code does that, and no property here can say
it does not; with any other field the save is repeated.

`Persists` is a finding. The old record is invalidated before the new one is
written, so a power loss during a save loses the whole configuration, and so does
one in the second after a save whose record a change of the interrupt made
inconsistent.

### Bounds

Two fields of two values, so that a record can mix an old and a new field; an area of
two pages with a record each, as the real area holds a whole number of records per
page (256 of 2048 bytes): the third save finds the area full, and a half-written magic
shifts the records so that the last one does not fit. Changes and power losses are not
bounded. One of the two fields is the current bank, the other the power-on bank.

`supply` says where the power of a board may fail. `config_store` checks boards that fail in the
middle of a word and boards that fail in the middle of the area's erase. A board
that does both is left out because there `WritesBlank` is false: two losses in the middle of a
magic and one between two page erases leave a page of old records behind a
shifted free space, and the search hands it out. That needs three power losses, each
within some microseconds or milliseconds of a save.

### Fairness

`FairSpec` has weak fairness of the main loop, which never ends (`fw/main.c` line 95)
and calls `config_poll` each time. Only `EventuallySaved` uses it.

### What is proved

`ConfigStore_proofs`, for every number of fields and values, every page and area size,
any number of changes and power losses, on the boards `SoundBoards` names: a
page holds a whole number of records (256 of 2048 bytes in `fw/config.h`), and no
board fails both in the middle of a word and in the middle of an erase (see
Bounds for what happens to one that does both).

`Invariance` is `SoundBoards => (Spec => []IInv)`; from it `TypeCorrect`, `OneGoodRecord`
(`OneGood`), `SavedIsReadable` (`SavedReadable`), `WriteFindsBlank` (`WritesBlank`) and
`StoreIsRegister` (`RegisterSpec`, the refinement of `ConfigRegister`). `OneGood` and the
others say nothing of records that are only half there, so `IInv` adds:

* `Layout`: behind every magic there is room for a whole record with words of that
  record only (`Slots`). Boards whose erase is whole have a front, below
  which everything is in some record and above which everything is erased
  (`FrontInv`); on boards whose words are whole, all records are aligned instead (`AlignedInv`).
  This is what lets the search test one word for the whole record.
* `RecordsInv`: at most one record is marked valid, complete or not, and the scan
  that invalidates has dealt with all before `addr`.
* `WriteInv`: what the record in work already holds, and that it is the
  configuration's as long as the timer has not been started again; `SnapshotInv`: so is its CRC.

Only model-checked: `EventuallySaved`.

## Command scanner

`MagicScan` is `fw/msg.c` from the captured bus address to the command: the capture buffer
that DMA fills (`Capture`), `process_addresses` and `fast_magic_search` in the
interrupt (`Search`, then one action per phase: `MatchMagic`, `LengthPhase`,
`CommandPhase`, `DataPhase`, `CrcPhase`, `Execute`, `Clobber`), `tim5_isr`
(`Enter`, `CaughtUp`), `msg_poll` (`Poll`), the two log commands of the console that touch the
same state (`LogStats`, `LogFull`), and `send_cmd_core` on the Amiga's side (`Begin`,
`Send`, `ReadRom` while it waits, `GiveUp`). The DMA goes on between any two steps.

| Run | Question | Result |
|---|---|---|
| `magic_scan` | Two commands at any place of the buffer, among ROM reads, with one disturbance: is each executed once, whole, and answered if nothing came in its way, and does the interrupt come back? | holds |

* `ExecutesSent`: the length and the data executed are those of a command that was sent to its
  end, none twice, none in another order. The command code is in a static of its own (`cmd`),
  read before the data, while the CRC is taken over the ring at the end: it is
  the right one (`own`) unless the DMA overtook the scanner, or the capture began anew, in
  between (`lapped`). Then a code that was never sent with these data may be executed, which
  the model shows and the property allows. A ring that was overrun, restarted by a reply, or holds a
  command cut off by a reset gives the scanner any mixture of old and new words.
* `CleanAnswered`: a command that began when the scanner had only noise before it,
  and whose words were neither overrun nor overwritten, is answered; so the search by
  pairs of words, the end of the ring, and the interrupt's early return miss nothing.
* `GateReopens`: the interrupt that disabled itself is enabled again.

The exceptions are what the code does: a mismatching word is not looked at again
as a possible first word (a command that follows one stray magic word is lost);
`ks_reply` restarts the capture before the magic of the answered command is clobbered,
so the clobbering can hit a word of the next command; `prom log stats` clears
`consumer_wrap`, and if the interrupt is off by then and `msg_poll` has not seen the
wrap, it stays off until something restarts the capture, although two
comments (`fw/msg.c` lines 2096 and 2371) leave it to `msg_poll`.

Abstractions: words of the bus are noise, a word of the magic, or a word of a command;
the CRC is perfect, so its words belong to one command; an interrupted command that
swallows foreign words has any legal length; every command has a reply (`KS_CMD_NULL`, which
has none, is sent by no program).

Bounds: the magic has two words and the ring six, exactly one command, so that a
command starts at every place and wraps at every word; the counters are
modulo 3, so they overflow. While the interrupt is on, the DMA is one word ahead
(`MaxAhead`); while it is off, it overruns the ring without a bound. `MaxTrouble`
allows one stray magic word, cut command or log command before the second command.

Fairness: the interrupt runs to its end (weak); the main loop comes by (strong, since
it is disabled while the interrupt runs); the Amiga finishes a command it has begun and,
waiting, reads the ROM (`send_cmd_core` polls it). `CleanAnswered` and `GateReopens`
use it.

Proved (`MagicScan_proofs`), for every even ring size, magic, commands and counters, and
any number of overruns, cut commands and log commands (`MagicScanAssumption`):
`TypeCorrect`, and `ExecutesWhatWasSent` for `ExecutesSent`. The types say nothing of the words in the
ring, which keeps those of old commands; `IInv` adds that every word is one that was
sent, and the last word of a command only if the command was sent to its end (`WordsInv`), and
that up to some place `h`, beyond which the scanner cannot get, all words are of commands later
than those executed (`FreshInv`): `h` is where the DMA is, or the whole ring once
the DMA has gone round, and 0 again when `ks_reply` restarts the capture.
A last word that fits then proves that its command is complete, and new. `Lengths`, the
lengths a cut command may seem to have, is a constant so that this holds for any.
Only model-checked: `CleanAnswered`, `GateReopens`.

## USB link

`UsbLink` is a command of the host and its reply: `send_ks_cmd_core`, `send_ll_bin` with
`tx_rb` (`Put`), `recv_ks_reply_core` (`Receive`, `GiveUp`), the writer and
reader threads with `reopen_dev` (`Close`, `Reopen`), and on the board `msg_usb_service`
(`Parse`, `TimeOut`, `Console`) and `usb_msg_reply` (`SendPiece`, `RepeatData`). Both
parsers are the same automaton (`Reads`).

| Run | Question | Result |
|---|---|---|
| `usb_link` | Three commands with three faults: bytes lost on either side, text among the reply, a piece dropped or sent twice, a device that closes. Does the host take a reply for another, and does a later call suffer? | holds |

* `OwnReply`: the reply that `recv_ks_reply_core` accepts answers this command. Replies
  carry no number; what separates them is that whatever is left of an old
  exchange is used up before the new one is answered. The one exception is
  `late`: a command that was still queued for a closed device when the host
  gave up on it is sent when the device is back, and from then on each reply may be
  taken for that of the next command. Nothing in the code resynchronises.
* `Recovers`: a call that finds the line quiet, and meets no fault, gets its answer:
  neither parser is left in the middle of something.

Abstractions: the line carries tokens (half a magic, the header, the data, the CRC), of
which any interval can be lost; a header that is read from something else gives any
length, which the firmware refuses if it is more than its buffer holds, and waits for
otherwise (`Long` stands for either); every command has a reply, since the host does not
send `KS_CMD_NULL`. Time passes only when nobody can act (`Busy`): with the line up, the
firmware and the host take their steps well within the 200 ms of the parser. A board
that takes longer than 500 ms to answer is outside the model. Two ticks for 500 ms and
one for 200 ms keep their order. `TxSize` holds one command and a half, so a
closed device lets the third fill it up. No fairness: both are safety properties.

Proved (`UsbLink_proofs`), for any sequence of commands (each with or without data, and so its
reply), size of `tx_rb`, number of faults, and time-outs of which the firmware's is the shorter:
`RepliesOwn` (`OwnReply`), `Recovery` (`Recovers`), `Alone`, and the action properties `QuietGiveUp`,
`ExecutesOwn` and `ExecutesOnce`, from `Invariance`. The last two say that the firmware executes a
command at most once, and only while the host waits for it: what a command leaves
behind is never executed late (again with the exception of `late`). That `FwTicks < HostTicks` is the 200 ms of `msg_usb_service` against the 500 ms
of `send_ks_cmd`; a host that gives up at once takes wrong replies (a mutant TLC catches). `Inv` adds to the types:

* `TimeInv`: while the device is open the host is never kept from sending, and a wait of the
  host is a wait of the parser too: in the middle of a command it has waited as long. So when the host
  gives up, the parser has started anew (`QuietGiveUp`). This ties `OwnReply` to the
  time-outs: a parser that still held a magic would take the next command for the rest of its own.
* `MarkInv`: the second half of a magic is called the mark. Whoever has passed a mark takes what
  follows for a command or a reply; so it is enough that what follows it is the present
  command's. A mark of a reply is only on its way when no mark of a command is, on either side
  of the firmware's parser (`CmdSpent`); after it come only tokens of that reply and text.
  It is closed under what the line does to a queue, since losing an interval or adding text makes no
  mark (`Part`, `WithoutPart`). It does not hold after a command stayed behind in a closed device, hence `late`.
* `CleanInv`: in a call that found the line quiet, either the command is split in order over the
  parser, `tx` and the writer (`Asking`), or the reply over the reader, `rx` and the pieces
  still to be sent (`Answering`), and nothing else is on the way. Time does not pass while a part of
  the command is left, so the parser's time-out cannot cut it.

## File session

`FileSession` composes the client library on the Amiga (`amiga/sm_file.c`,
`sm_msg.c`), the two queues, and the server in `sw/hostsmash.c`. The program makes a call
(`sm_fopen`, `sm_fread`, ... , one action each); the library sends its message or messages
(`SendOne`; `SendRefused` when the ring has no room), polls, discards what has
another tag (`Discard`), accepts its answer (`Answer`, `AnswerMore` for a read in several
messages) or gives up (`TimeOut`; `GiveUp` when the message it discarded was the 50th). The server takes a message (`Take`), collects
the rest of a write (`Collect`), answers (`SendReply`) and tries again when the ring is full
(`Again`). The faults: a reply of the firmware to `MSG_SEND` or `MSG_RECEIVE` that
is lost, after which the command is repeated or the message is gone (`SendTwice`,
`ReceiveLost`, `SendReplyFails`), a full disk, a restart of the server (its handles go,
and it flushes the rings when it is back) or of the program (its tags begin again), and
the expiry of the service state.

| Run | Question | Result |
|---|---|---|
| `file_session` | Three calls of any kind and one fault, with any time-out: whose answer is it, what was done, do both sides go on? | holds |
| `file_write_lost` | Is what `sm_fwrite` reported as written in the file? | `OkMeansWritten` violated |

`ReplyIsMine`, `ReadsFollow`, `HeldHandlesOpen`, `OkMeansDone`, `ErrorMeansNotDone` relate
what the program was told to what happened on the other computer. (A read that
`ReadsFollow` calls complete may also stand past the end of the file, when another handle
has truncated it.) Each names, with
`Without`, the faults under which it does not hold, and each such fault is one
the code does not handle: a repeated `MSG_SEND` carries out an operation twice, a long
reply that the ring refuses is dropped (`hostsmash.c` line 3945), a
new program reuses the tags of the one before. `CallReturns` and `ServerReturns` are
liveness.

`ErrorMeansNotDone` is about an answer of the server. A call that the library gives up has
not failed in this sense: after `KM_STATUS_NODATA`, and after the `KM_STATUS_FAIL` that
`host_recv_msg` returns for 50 messages discarded (`GAVEUP` here, because the program
cannot tell it from the server's), the operation may have been done, or may be done later. A
read of more than 50 messages that was abandoned is enough for a delete that returns
`KM_STATUS_FAIL` and is carried out.

The violation is a finding: `hostsmash.c` tests an unsigned `rc < 0`, and a write whose second message does not
arrive in time is answered with OK. It happens without any fault, when the program
pauses between its two messages.

Abstractions: the rings are FIFO queues with bounded room (`MsgQueue`, which
`MsgBuffers` implements); a message is small or large (2000 bytes, `Big`), and a data item
is the contents of one large message. The 20 retries, the polls and the 50 discards of the
code are choices: any of them may be the last. One volume; directories and links are left out. The
service state expires only while the server is down, since it renews it every 4 seconds.
A tag has 16 bits; the theorems are for up to 65536 calls (`TagAssumption`), within
which none comes again. `HM_FLAG_SEEK0` is left out, which only directory reads set,
and so is `HM_MODE_APPEND`, which no program sets.

Bounds: files of up to three items and reads of two need two messages; a write
in a small and a large message; the ring takes two large messages and a half.
Three calls let the answers of two that timed out arrive during the third. One fault
(`MaxTrouble`).

Fairness: the library's and the server's loops go on (weak); when the program calls is
left open.

Proved (`FileSession_proofs`), for every menu of requests, number of calls and faults, file and ring
sizes: `TypeCorrect`, `AnswerIsMine` (`ReplyIsMine`), `HeldIsOpen` (`HeldHandlesOpen`),
`OkIsDone` (`OkMeansDone`), `ErrorIsNotDone` (`ErrorMeansNotDone`), all from
`Invariance`, and `ReadsAreRight` (`ReadsFollow`). A call that times out leaves its messages
and answers behind, so the argument is about everything on its way (`Commands`, `Answers`), of
whichever call:

* `TagInv`: a tag stands for one call until a new program starts; so an answer with the tag of the
  call in progress belongs to it.
* `HandleInv`: a close on its way is for a handle the program does not hold, and the handle an answer
  brings is not closed by anything on its way.
* `LeadsInv`: while the first message of a request is on its way, or its data is collected, the request
  has had no effect and no answer, and that message is in one place. The messages that follow the
  first one have no handle: taken for requests, they are rejected.
* `PartInv`, `SingleInv`: the two requests of a write without padding bear the same tag. What
  tells their answers apart is that the first one is a single message with a single
  answer, after which nothing of it is left.
* `TellsInv`: an answer says what was done, and so does what the program was told.

The last four hold while nothing was sent twice, refused for want of room, or
begun anew. `ReadsAreRight` needs more, `FollowInv`, which holds as long as nothing at all was
lost on the server either:

* `OrderInv`: the messages of the last call come last, and once it was carried out what is left on
  its way is never carried out. So the file does not change under a result.
* `DataInv`: what is on its way for the call in progress is what it asked for.
* `PosInv`: where a handle stands in the server against the position the program expects, as far as the
  call in progress was carried out; nothing else that moves the handle is on its way.
* `ReadInv`: every message of the answer to a read has its place, counted from the end of
  what is in the server and the buffer, and carries the item that belongs there. What the
  library has taken is all of the answer so far, or fewer messages than it waits for will ever
  complete, because one of them was lost.

Only model-checked: `CallReturns`, `ServerReturns`.

## AmigaDOS handler

`FsHandler` is the file system that shows the host's volumes: `amiga/fs_vol.c` (list of
volumes, their nodes in the DOS list, reference counts), `fs_packet.c` (locks and
files), `fs_hand.c` (main loop). The loop is cut at each point where something else can
come in: `Wake*`, `Refresh*` and `Scan*` (looking through the host's volumes, one at
a time), `Drain`, the packets, `Check`, `Exit`. Programs send packets for a
volume, or for a lock or file they hold; volumes come and go; the server ends and starts
again; Control-C ends the handler.

| Run | Question | Result |
|---|---|---|
| `fs_handler` | Two programs use a volume that comes and goes, also while the handler is shutting down: is what they hold still there, are counts and handles right, do packets and the handler end? | holds |

`UseCounts` compares `vl_use_count` with the locks in existence on every error path.
`HeldAlive`: a lock, its volume node and the message port survive the disappearance
of the volume as long as someone has them. `HandlesOwned`: apart from those that a call without
an answer leaves open, no handle of the host leaks without an allocation failing.
A close that is not carried out and an open that is carried out after its time-out leak one:
the code looks at no result of a close (`fs_packet.c` lines 629 and 790, `fs_vol.c`
line 387, `fs_hand.c` line 101). The model has both (`Closed`, `Unopened`), marks the handle
(`host.lost`), and the property is about all the others. `LockPacketsAnswered` and `ShutdownEnds` are liveness.

Abstractions: a file call succeeds, fails or gets no answer (see `FileSession`), and one without an
answer is carried out before the next or not at all; the node of a lock that is freed exists
(`fs_packet.c` line 236 looks at no NULL); packets that change none
of this state are one action; finding a volume in the DOS list and sending the packet
is one step; the host's changes come while the handler waits or scans. One volume and two
programs with two packets and one; two events or failures together (three were checked
once as well, in five minutes, without lost handles). A lost handle counts for two events
(`LostCost`), so TLC does not combine it with another one; a scan that ends early counts for two as well. `CHECK_DEADLOCK` is off because the handler ends. The
proofs have no bound.

Fairness: the handler's task runs (weak), and the DOS list is not kept locked by
others for ever, so that `AttemptLockDosList` succeeds if tried again and again (strong).

Proved (`FsHandler_proofs`), for every finite set of volumes, every set of programs, and any number
of packets, failures and restarts: `TypeCorrect`, `UseCountsLocks` (`UseCounts`), `WhatIsHeldIsAlive`
(`HeldAlive`), `NoHandleIsLost` (`HandlesOwned`), all from `Invariance`. The three properties need one
another (a volume is freed when its count says so) and these:

* `NodesInv`: a node is one volume's, and the list of a node holds exactly the locks
  that point to it. Locks outlive the node's place in the volume list, so the count of a volume that
  went and came back is over two nodes.
* `AbsentInv`: a volume that is not in the list has no lock and no packet on its port.
* `OwnersInv`: a lock has one owner, and is in one packet when it is given back;
  otherwise two releases could both pass the checks.
* `HandlesInv`: the host gives a handle once while it is up.

Only model-checked: `LockPacketsAnswered`, `ShutdownEnds`.

## Banks and reset

`BankSwitch` has the bank table and its commands from both sides (`fw/msg.c`,
`fw/config.c`), the override of the address lines (`ee_address_override`, `ee_set_bank`,
`ee_enable`, `ee_disable` of `fw/m29f160xt.c`), `kbrst_poll` and `kbrst_amiga` of `fw/kbrst.c`
with their timers, keys and power as the environment, and the flash operations of
`amiga/smash.c`, which show themselves another bank while they work (`SmashStart`,
`SmashAccess`, `SmashEnd`). The Amiga's commands are one step, as they run in the
interrupt. The console's `ee_set_bank` is cut in three (`ConsolePin`, `ConsoleLast`,
`ConsoleRecord`): the interrupt may set another bank in between.

| Run | Question | Result |
|---|---|---|
| `bank_switch` | Three commands of the console and of the Amiga with keys and power at any time: which bank does the Amiga boot from, which one is written, are long resets real, does every reset end? | holds |

* `TypeOK` includes the form of the merge table: each bank is at its place in an
  aligned block of 1, 2, 4 or 8.
* `BootsCurrent`: at the end of a reset the forced lines are exactly those of the current bank
  and its block, none more and none less.
  Excepted are three faults of the code: the interrupted `ee_set_bank`, which leaves lines of
  two banks and a `last` that calls them one bank's (`Mixed`); a block of four or eight
  banks, for which `bi_merge` holds 3 or 7 where `ee_set_bank` tests for 2 or 3
  (`WideBlock`: at 3 no line is forced, which is right for eight banks; at 7 no case
  matches and the lines of the bank before stay forced); and flash read by the console during the reset, which
  drops the override although a comment says it is restored (`rom.read`).
* `WritesItsBank`: a flash write or erase reaches the bank meant. Excused are a console
  that changes the banks meanwhile and the erase whose `SETTEMP` failed, an error that
  `erase_flash_block` overwrites.
* `LongResetOnce`: a long reset is taken after the whole time, once per reset.
* `ResetEnds`: a reset driven by the board, and not held by command, ends.

Two more things the model shows and no property forbids: each flash
operation of smash ends with a full `ee_set_bank`, so it forgets a bank chosen for the
next reset (`fw/msg.c` line 1427, against "in effect at next reset" in
`fw/smash_cmd.h` line 64); and after the console has read flash, no line is forced until
the bank changes or smash uses it.

Abstractions: ticks keep only the order 400 ms < 2000 ms < 2500 ms; the main loop polls at least
once a tick and keys do not change twice between two polls; a program on the Amiga starts after
the poll has seen the end of the reset; the board has the reset line connected (without
it `kbrst_poll` returns at once, `kbrst.c` lines 65-68); bank names are left out. Bounds: banks 0 and
3, ranges <<0,1>>, <<1,2>> (not aligned) and <<0,7>>, one long reset sequence,
three commands. Fairness: the main loop goes round, and time passes.

Proved (`BankSwitch_proofs`), for every set of banks, ranges and sequences a command can name, all
reset lengths in the order above, and any number of commands: `TypeCorrect` (with
it the form of the merge table for all sequences of `MERGE` commands), `LongResetIsReal`
(`LongResetOnce`), `SmashWritesItsBank` (`WritesItsBank`) and the action property
`AmigaBootsCurrent` (`BootsCurrent`). `IInv` adds to the types `TimerInv` (the armed timer is not
ahead of the time the line has been low, and is disarmed by the first poll after it rises),
`BootInv` (while the line is low and was seen so, `last` is that of the current bank unless the console is in
the middle of `ee_set_bank`) and `SmashInv` (smash runs only on a running Amiga, and
while nobody came in between the forced lines are its bank's). Only model-checked: `ResetEnds`.

## Not modelled

* Bus and pin timing: the DMA of a reply to the data bus, the command sequences of the flash
  chips, ADC, LEDs, pin tests. They have no states that a model of this kind
  would tell apart.
* `timer_tick_get`, the real-time clock, NVRAM, `TESTPATT`, `LOOPBACK`, `ID`: single
  reads or assignments, or (the timer) a race of registers below the grain of the models.
* Directory scans, links, dates and protection bits of the file service; the bits of
  `MSG_STATE` that only say what a program offers.
* The console's line editor, printf, the terminal of `hostsmash`, its transfer of ROM
  images; `smashftp`, `romswitch`, the display and the tests of `smash`, and the recovery
  ROM: interactive programs that use the parts above one call at a time.

What is proved of each part, and what is left to TLC, is said with it. Liveness and the
properties that need fairness are beyond the prover everywhere.
