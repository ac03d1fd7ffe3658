------------------------------ MODULE UsbLink -------------------------------
(***************************************************************************)
(* A command of the USB host and its reply: send_ks_cmd of sw/hostsmash.c, *)
(* its writer and reader threads, the USB serial line, and the parser of   *)
(* the firmware, msg_usb_service (fw/msg.c).                               *)
(*                                                                         *)
(* A reply does not say which command it answers. The host waits 500 ms    *)
(* for it and goes on; the firmware forgets an unfinished command after    *)
(* 200 ms without a byte.                                                  *)
(*                                                                         *)
(* The line carries tokens: the two halves of the magic, and the header,   *)
(* the data and the CRC of a command or of a reply. The CRC is perfect: a  *)
(* token belongs to one command. Time passes, in ticks, when nobody can    *)
(* take a step: while the line is up, the steps take less than a tick.     *)
(***************************************************************************)
EXTENDS Integers, Sequences

CONSTANTS
    CmdData, RepData,   \* per command: data tokens of it and of its reply
    TxSize,             \* tokens that fit in tx_rb
    FwTicks, HostTicks, \* 200 ms and 500 ms
    MaxTrouble          \* bound: losses, texts and interruptions of the line

ASSUME LinkAssumption ==
    /\ CmdData \in Seq({0, 1}) /\ RepData \in Seq({0, 1})
    /\ Len(CmdData) = Len(RepData) /\ TxSize \in Nat \ {0} /\ MaxTrouble \in Nat
    /\ FwTicks \in Nat \ {0} /\ HostTicks \in Nat /\ FwTicks < HostTicks

VARIABLES
    host,       \* send_ks_cmd: the command, what is still to be put in tx_rb,
                \* the reply so far, and the ticks waited
    result,     \* of the last call: the command whose reply it took, or a code
    tx, rx,     \* what is on the way to the firmware, and to the host
    fw,         \* the parser, or the pieces of the reply still to be sent
    up,         \* the host has the device open
    paused,     \* the line was down during the present command
    late,       \* the host has given up on a command when the line was down
    clean,      \* nothing was on the way when the call began, nothing since
    trouble

vars == <<host, result, tx, rx, fw, up, paused, late, clean, trouble>>
-----------------------------------------------------------------------------
Magic(i) == <<"magic", i>>
Noise == <<"noise", 0, 0>>      \* output of a printf, or a part of a token
CrcError == 0                   \* the command of a KS_STATUS_CRC reply
Nothing == -1                   \* the result when there was no valid reply
Commands == DOMAIN CmdData

Data(kind, k) == IF kind = "cmd" THEN CmdData[k]
                 ELSE IF k = CrcError THEN 1 ELSE RepData[k]
Body(kind, k) == [i \in 1 .. Data(kind, k) + 2 |-> <<kind, k, i>>]
Command(k) == <<Magic(0), Magic(1)>> \o Body("cmd", k)
\* usb_msg_reply: each piece is a puts_binary of its own.
Pieces(k) == <<<<Magic(0), Magic(1)>>>> \o [i \in DOMAIN Body("reply", k) |-> <<Body("reply", k)[i]>>]

Active == host.pc \in {"send", "recv"}
Troubled == /\ trouble < MaxTrouble /\ trouble' = trouble + 1
            /\ clean' = FALSE
-----------------------------------------------------------------------------
\* The two parsers: "place" tokens have been read since the magic began, "len"
\* is the length that the header gives, "got" is what followed the magic.
Start == [place |-> 0, len |-> 0, got |-> <<>>]
Long == 9           \* a length that takes more than one command or reply
Complete(s) == s.place = s.len + 4

IsHeader(t) == t # Noise /\ t[1] # "magic" /\ t[3] = 1
Lengths(t) == IF IsHeader(t) THEN {Data(t[1], t[2])} ELSE {0, 1, Long}
Reads(s, t) ==
    IF s.place < 2
    THEN {IF t = Magic(s.place) THEN [s EXCEPT !.place = @ + 1] ELSE Start}
    ELSE IF s.place = 2
    THEN {[place |-> 3, len |-> n, got |-> <<t>>] : n \in Lengths(t)}
    ELSE {[s EXCEPT !.place = @ + 1, !.got = Append(@, t)]}
-----------------------------------------------------------------------------
\* The host

Begin ==
    /\ host.pc = "idle" /\ host.k < Len(CmdData)
    /\ host' = [pc |-> "send", k |-> host.k + 1, out |-> Command(host.k + 1),
                reply |-> Start, t |-> 0]
    /\ clean' = (tx = <<>> /\ rx = <<>> /\ fw.pc = "parse" /\ up /\ ~late)
    /\ paused' = ~up
    /\ UNCHANGED <<result, tx, rx, fw, up, late, trouble>>

\* send_ll_bin, tx_rb_put
Put ==
    /\ host.pc = "send" /\ host.out # <<>> /\ Len(tx) < TxSize
    /\ tx' = Append(tx, Head(host.out))
    /\ host' = [host EXCEPT !.out = Tail(@), !.t = 0]
    /\ UNCHANGED <<result, rx, fw, up, paused, late, clean, trouble>>

AllPut ==
    /\ host.pc = "send" /\ host.out = <<>>
    /\ host' = [host EXCEPT !.pc = "recv", !.t = 0]
    /\ UNCHANGED <<result, tx, rx, fw, up, paused, late, clean, trouble>>

\* What the callers do with a failure: run_message_mode ends if it was the
\* poll of MSG_INFO, and otherwise goes on.
Returns(got, next) ==
    /\ result' = [k |-> host.k, got |-> got]
    /\ host' = [host EXCEPT !.pc = next, !.out = <<>>, !.reply = Start, !.t = 0]

\* Faulty: the polls of the empty ring are counted without waiting.
ExpiredAtOnce(t) == TRUE
Expired(t) == t >= HostTicks

\* "Send timeout", "Receive timeout"
GiveUp ==
    /\ \/ host.pc = "send" /\ host.out # <<>> /\ Len(tx) >= TxSize
       \/ host.pc = "recv" /\ rx = <<>>
    /\ Expired(host.t)
    /\ late' = (late \/ paused)
    /\ \E next \in {"idle", "done"} : Returns(Nothing, next)
    /\ UNCHANGED <<tx, rx, fw, up, paused, clean, trouble>>

\* recv_ks_reply_core. A valid reply may be too long for the caller's buffer
\* if it answers something else.
Receive ==
    /\ host.pc = "recv" /\ rx # <<>> /\ rx' = Tail(rx)
    /\ \E s \in Reads(host.reply, Head(rx)) :
        IF ~Complete(s)
        THEN host' = [host EXCEPT !.reply = s] /\ UNCHANGED result
        ELSE \/ \E k \in Commands \cup {CrcError} :
                    s.got = Body("reply", k) /\ Returns(k, "idle")
             \/ /\ \A k \in {host.k, CrcError} : s.got # Body("reply", k)
                /\ \E next \in {"idle", "done"} : Returns(Nothing, next)
    /\ UNCHANGED <<tx, fw, up, paused, late, clean, trouble>>
-----------------------------------------------------------------------------
\* The firmware

\* The command that has been received, or a wrong CRC.
Received(s, k) == IF k = CrcError THEN \A c \in Commands : s.got # Body("cmd", c)
                  ELSE s.got = Body("cmd", k)

\* msg_usb_service. A token that is not part of a magic can begin with a
\* control-C or an end of line, which ends the service. A wrong length is
\* refused when it is more than usb_msg_buffer can hold, and believed otherwise.
\* Every command has a reply: the host does not send KS_CMD_NULL, to which
\* execute_usb_cmd gives none.
Parse ==
    /\ fw.pc = "parse" /\ up /\ tx # <<>> /\ tx' = Tail(tx)
    /\ \/ /\ fw.in.place = 0 /\ Head(tx)[1] # "magic"
          /\ fw' = [fw EXCEPT !.pc = "console"]
       \/ \E s \in Reads(fw.in, Head(tx)) :
          \/ /\ s.place = 3 /\ s.len = Long
             /\ fw' = [fw EXCEPT !.in = Start, !.t = 0]
          \/ ~Complete(s) /\ fw' = [fw EXCEPT !.in = s, !.t = 0]
          \/ /\ Complete(s)
             /\ \E k \in Commands \cup {CrcError} :
                    Received(s, k) /\ fw' = [fw EXCEPT !.pc = "reply", !.out = Pieces(k)]
    /\ UNCHANGED <<host, result, rx, up, paused, late, clean, trouble>>

\* The console takes what follows as the keys of a user.
Console ==
    /\ fw.pc = "console" /\ up /\ tx # <<>> /\ tx' = Tail(tx)
    /\ UNCHANGED <<host, result, rx, fw, up, paused, late, clean, trouble>>

\* Faulty: what has been read is kept.
KeepsPlace(s) == s
Forgets(s) == Start
\* "Timeout will clobber received data and reset"
TimeOut ==
    /\ fw.pc = "parse" /\ fw.t >= FwTicks
    /\ fw' = [fw EXCEPT !.in = Forgets(@), !.t = 0]
    /\ UNCHANGED <<host, result, tx, rx, up, paused, late, clean, trouble>>

\* puts_binary: without a host that reads, the piece is dropped after 50 ms.
SendPiece ==
    /\ fw.pc = "reply" /\ fw.out # <<>>
    /\ fw' = [fw EXCEPT !.out = Tail(@)]
    /\ \/ rx' = (IF up THEN rx \o Head(fw.out) ELSE rx) /\ UNCHANGED <<clean, trouble>>
       \/ up /\ rx' = rx /\ Troubled
    /\ UNCHANGED <<host, result, tx, up, paused, late>>

\* After a time-out in the middle of a long piece its beginning is sent again.
RepeatData ==
    /\ fw.pc = "reply" /\ fw.out # <<>> /\ up
    /\ \E k \in Commands : Data("reply", k) = 1 /\ Head(fw.out) = <<<<"reply", k, 2>>>>
    /\ rx' = Append(rx, Noise) /\ Troubled
    /\ UNCHANGED <<host, result, tx, fw, up, paused, late>>

Replied ==
    /\ fw.pc = "reply" /\ fw.out = <<>>
    /\ fw' = [fw EXCEPT !.pc = "parse", !.in = Start, !.t = 0]
    /\ UNCHANGED <<host, result, tx, rx, up, paused, late, clean, trouble>>
-----------------------------------------------------------------------------
\* The line, and time

Unchanged == UNCHANGED <<result, paused, late>>
\* A printf of the firmware, from an interrupt or the main loop.
Output == /\ up /\ Troubled /\ rx' = Append(rx, Noise)
          /\ UNCHANGED <<host, tx, fw, up>> /\ Unchanged

Without(q, i, j) == SubSeq(q, 1, i - 1) \o SubSeq(q, j + 1, Len(q))
\* "sent only %ld of %u", a full cons_in_rb, the byte that th_serial_writer
\* drops at a time while the device is closed, what the kernel held.
LoseCommand == /\ tx # <<>> /\ Troubled
               /\ \E i, j \in DOMAIN tx : i <= j /\ tx' = Without(tx, i, j)
               /\ UNCHANGED <<host, rx, fw, up>> /\ Unchanged
LoseReply == /\ rx # <<>> /\ Troubled
             /\ \E i, j \in DOMAIN rx : i <= j /\ rx' = Without(rx, i, j)
             /\ UNCHANGED <<host, tx, fw, up>> /\ Unchanged

\* reopen_dev; the writer keeps what it has and tries again.
Close == /\ up /\ Troubled /\ up' = FALSE /\ paused' = TRUE
         /\ UNCHANGED <<host, result, tx, rx, fw, late>>
Reopen == /\ ~up /\ up' = TRUE
          /\ UNCHANGED <<host, result, tx, rx, fw, paused, late, clean, trouble>>

FwStep == Parse \/ Console \/ TimeOut \/ SendPiece \/ Replied
HostStep == Put \/ AllPut \/ GiveUp \/ Receive

Busy == \/ fw.pc = "reply"
        \/ up /\ tx # <<>>
        \/ fw.pc = "parse" /\ fw.t >= FwTicks
        \/ host.pc = "send" /\ (host.out = <<>> \/ Len(tx) < TxSize)
        \/ host.pc = "recv" /\ rx # <<>>
        \/ host.t >= HostTicks
Tick ==
    /\ ~Busy
    /\ host' = [host EXCEPT !.t = IF Active THEN @ + 1 ELSE @]
    /\ fw' = [fw EXCEPT !.t = IF @ < FwTicks /\ fw.pc = "parse" /\ fw.in.place > 0
                              THEN @ + 1 ELSE @]
    /\ UNCHANGED <<result, tx, rx, up, paused, late, clean, trouble>>

Init ==
    /\ host = [pc |-> "idle", k |-> 0, out |-> <<>>, reply |-> Start, t |-> 0]
    /\ result = [k |-> 0, got |-> Nothing] /\ tx = <<>> /\ rx = <<>>
    /\ fw = [pc |-> "parse", in |-> Start, out |-> <<>>, t |-> 0]
    /\ up = TRUE /\ paused = FALSE /\ late = FALSE /\ clean = FALSE /\ trouble = 0

Next == Begin \/ HostStep \/ FwStep \/ RepeatData \/ Output \/ LoseCommand
          \/ LoseReply \/ Close \/ Reopen \/ Tick
Spec == Init /\ [][Next]_vars
-----------------------------------------------------------------------------
\* A reply that the host takes answers the command that it has sent: what is
\* left of damaged, repeated or incomplete replies and commands is never taken for
\* it. Excepted is a host that went on although its command was still queued for
\* a closed device: from then on every reply may be that of the command before.
OwnReply == late \/ result.got \in {result.k, CrcError, Nothing}

\* A call is not harmed by what happened before it: when it finds the line quiet, it
\* gets its answer, although the call before may have stopped in
\* the middle of a command or of a reply.
Recovers == clean /\ ~Active => result.got = result.k

=============================================================================
