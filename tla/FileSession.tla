---------------------------- MODULE FileSession ----------------------------
(***************************************************************************)
(* The remote file service, end to end: an Amiga program that uses the     *)
(* client library (amiga/sm_msg.c and sm_file.c), the two message buffers  *)
(* of Kicksmash, and the file server on the USB host (sw/hostsmash.c).     *)
(*                                                                         *)
(* The buffers are what MsgQueue says they are, queues of whole messages,  *)
(* with the room of the real ones: RingSize, in units of a small message.  *)
(* A message with file data (SEND_MSG_MAX = 2000 bytes) takes Big units.   *)
(* A data item of a file stands for one such message's worth of bytes, so  *)
(* a read or a write of n items takes n messages.                          *)
(*                                                                         *)
(* Time and the number of tries are not modelled: a poll that finds        *)
(* nothing may be the last one, and any message that is discarded may be   *)
(* the last of the 50.                                                     *)
(*                                                                         *)
(* Left out: a read or a write that goes back to the start of the file     *)
(* first (HM_FLAG_SEEK0, which only the reads of directories in            *)
(* amiga/fs_packet.c set), and HM_MODE_APPEND, which no program here sets. *)
(*                                                                         *)
(* What goes wrong: a command is executed but its reply is lost, on either *)
(* side, and the command is repeated; the disk is full; the file server is *)
(* restarted; the Amiga program ends and another one is started.           *)
(***************************************************************************)
EXTENDS Integers, Sequences, FiniteSets, SequencesExt

CONSTANTS
    Names,          \* file names in the default volume
    Menu,           \* the requests the program may make, see Request below
    FirstFile,      \* the file that exists at first
    FileLength,     \* its length in data items
    Big, RingSize,
    MaxCalls,       \* bound: calls made by the program
    MaxTrouble      \* bound: steps of the environment that do harm

ASSUME SizeAssumption ==
    Big \in Nat \ {0} /\ RingSize \in Nat /\ Big <= RingSize
\* op: the operation; name, to: file names; mode: bits of the open mode; n:
\* data items to read; parts: data items per message of a write, <<n>> with a
\* padded header and <<1, n>> without, where the first chunk has 32 bytes.
ASSUME MenuAssumption ==
    \A q \in Menu : /\ q.name \in Names /\ q.to \in Names /\ q.n \in Nat
                    /\ q.mode \subseteq {"read", "write", "create", "trunc"}
                    /\ q.parts \in Seq(Nat \ {0}) /\ Len(q.parts) <= 2
                    /\ q.op = "write" => Len(q.parts) # 0
                    /\ Len(q.parts) = 2 => q.parts[1] = 1
ASSUME FileAssumption == FirstFile \in Names /\ FileLength \in Nat
ASSUME BoundAssumption == MaxCalls \in Nat /\ MaxTrouble \in Nat
\* A tag has 16 bits: within the bound none of them comes again, and so the
\* model counts them without an end.
ASSUME TagAssumption == MaxCalls <= 65536

VARIABLES
    client,     \* the call in progress in the client library
    tag,        \* the static counter of host_tag_alloc
    active,     \* sm_file_active
    held,       \* the handles the program holds: the file each one was
                \* opened on, and the file position the program expects
    calls,      \* number of calls made so far
    result,     \* the outcome of the last call
    svc,        \* the file service bits of the application state
    atou, utoa, \* the message buffers
    host,       \* the file server: what it does, and the message in work
    table,      \* handle_list_head: handle -> open file
    unique,     \* handle_unique
    dir,        \* the directory of the volume: name -> file, 0 if none
    content,    \* the data items of every file ever created
    effects,    \* how often each message of each call took effect, up to twice
    trouble,    \* number of steps of the environment that did harm
    events      \* what has gone wrong so far

clientVars == <<client, tag, active, held, calls, result>>
diskVars == <<table, unique, dir, content, effects>>
vars == <<clientVars, svc, atou, utoa, host, diskVars, trouble, events>>
-----------------------------------------------------------------------------
\* Values

Root == 0               \* the parent handle 0xffffffff: handle_default
VolumeHandle == 1       \* the handle of the volume itself
NoParent == -1          \* hm_handle = 0: no parent directory, no handle
Garbage == -2           \* file data read as a handle or as a length
Unknown == -1           \* a file position the program cannot know
Junk == <<-1, 0, 0>>    \* a message header taken for file data

Checked == {"open", "close", "read", "write", "path"}   \* calls that ask for service
HostErrors == {"FAIL", "INVALID", "NOEXIST", "EXIST"}
Success == {"OK", "EOF"}

NoCall == [pc |-> "idle", op |-> "none", id |-> 0, tag |-> 0, h |-> Root,
           name |-> FirstFile, to |-> FirstFile, mode |-> {}, n |-> 0,
           parts |-> <<>>, part |-> 1, todo |-> <<>>, want |-> 0, got |-> <<>>]
NoResult == [op |-> "none", id |-> 0, parts |-> 0, status |-> "OK",
             data |-> <<>>, n |-> 0, ino |-> 0, exp |-> Unknown, mine |-> TRUE]
Idle == [pc |-> "idle", job |-> <<>>, out |-> <<>>, retry |-> 0, buf |-> <<>>]

Size(m) == IF m.data = <<>> THEN 1 ELSE Big
Used(q) == FoldLeft(LAMBDA n, m : n + Size(m), 0, q)
Fits(m, q) == Used(q) + Size(m) <= RingSize

Happened(e) == events' = events \cup {e}
Trouble == trouble < MaxTrouble /\ trouble' = trouble + 1
-----------------------------------------------------------------------------
\* Client library: the messages of a call

\* Faulty: host_tag_alloc does not advance the counter.
FixedTag(t) == t
NextTag(t) == t + 1

Request(c, isLead, data, total) ==
    [lead |-> isLead, op |-> c.op, tag |-> c.tag, id |-> <<c.id, c.part>>,
     h |-> IF isLead THEN c.h ELSE Garbage, name |-> c.name, to |-> c.to,
     mode |-> c.mode, n |-> c.n, data |-> data, total |-> total]

\* host_send_msg: the messages of the request; each one after the first
\* repeats the message header only.
Messages(c) ==
    IF c.op # "write" THEN <<Request(c, TRUE, <<>>, 0)>>
    ELSE [i \in 1 .. c.parts[c.part] |->
            Request(c, i = 1, <<<<c.id, c.part, i>>>>, c.parts[c.part])]

Call(op, h) == \E q \in Menu :
    LET c == [NoCall EXCEPT !.pc = "send", !.op = op, !.id = calls + 1,
                !.tag = tag, !.h = h, !.name = q.name, !.to = q.to,
                !.mode = q.mode, !.n = q.n, !.parts = q.parts]
    IN /\ client.pc = "idle" /\ q.op = op /\ calls < MaxCalls
       /\ calls' = calls + 1
       /\ IF op \in Checked /\ ~active /\ ~svc
          THEN /\ result' = [NoResult EXCEPT !.op = op, !.id = calls + 1,
                                             !.status = "UNAVAIL"]
               /\ UNCHANGED <<client, tag, active>>
          ELSE /\ client' = [c EXCEPT !.todo = Messages(c)]
               /\ active' = (active \/ op \in Checked)
               /\ tag' = NextTag(tag)
               /\ result' = NoResult
       /\ UNCHANGED <<held, svc, atou, utoa, host, diskVars, trouble, events>>

sm_fopen == Call("open", Root)
sm_fclose == \E h \in DOMAIN held : Call("close", h)
sm_fread == \E h \in DOMAIN held : Call("read", h)
sm_fwrite == \E h \in DOMAIN held : Call("write", h)
sm_fseek == \E h \in DOMAIN held : Call("seek", h)     \* to the file's start
sm_fdelete == Call("delete", Root)
sm_frename == Call("rename", Root)
sm_fcreate == Call("create", Root)
sm_fset == Call("set", Root)    \* sm_fsetdate, sm_fsetown, sm_fsetprotect
sm_fpath == \E h \in DOMAIN held : Call("path", h)

\* The program's view of its handles when a call ends.
Dropping(h) == [k \in DOMAIN held \ {h} |-> held[k]]
Expect(h, p) == [k \in DOMAIN held |->
                    IF k = h THEN [held[k] EXCEPT !.exp = p] ELSE held[k]]
Advance(h, n) == Expect(h, IF held[h].exp = Unknown THEN Unknown
                           ELSE held[h].exp + n)
Written(c) == c.parts[1] + IF Len(c.parts) = 2 THEN c.parts[2] ELSE 0

\* The call returns: status, data read, handle and file opened, and whether
\* the reply answers the message that was waiting.
Return(status, data, h, ino, mine) ==
    LET c == client
        known == c.h \in DOMAIN held
    IN /\ client' = NoCall
       /\ result' = [op |-> c.op, id |-> c.id, parts |-> Len(c.parts),
                     status |-> status, data |-> data, n |-> c.n,
                     ino |-> IF known THEN held[c.h].ino ELSE ino,
                     exp |-> IF known THEN held[c.h].exp ELSE Unknown,
                     mine |-> mine]
       /\ held' = CASE c.op = "open" /\ status = "OK" ->
                         [k \in DOMAIN held \cup {h} |->
                            IF k = h THEN [ino |-> ino, exp |-> 0] ELSE held[k]]
                    [] c.op = "close" -> Dropping(c.h)
                    [] c.op = "read" ->
                         IF status \in Success THEN Advance(c.h, Len(data))
                         ELSE Expect(c.h, Unknown)
                    [] c.op = "write" ->
                         IF status = "OK" THEN Advance(c.h, Written(c))
                         ELSE Expect(c.h, Unknown)
                    [] c.op = "seek" ->
                         Expect(c.h, IF status = "OK" THEN 0 ELSE Unknown)
                    [] OTHER -> held
       /\ active' = IF status = "NODATA" /\ c.op \in Checked \ {"path"} THEN svc
                    ELSE active
       /\ UNCHANGED <<tag, calls>>

Fail(status) == Return(status, <<>>, NoParent, 0, TRUE)
-----------------------------------------------------------------------------
\* Client library: sending

Sent == IF Len(client.todo) = 1
        THEN [client EXCEPT !.todo = <<>>, !.pc = "wait"]
        ELSE [client EXCEPT !.todo = Tail(@)]

\* MSG_SEND accepted.
SendOne ==
    /\ client.pc = "send" /\ Fits(Head(client.todo), atou)
    /\ atou' = Append(atou, Head(client.todo))
    /\ client' = Sent
    /\ UNCHANGED <<tag, active, held, calls, result, svc, utoa, host, diskVars,
                   trouble, events>>

\* MSG_SEND accepted, its reply lost, and send_cmd_retry sends it again.
SendTwice ==
    LET m == Head(client.todo)
    IN /\ client.pc = "send" /\ Fits(m, Append(atou, m))
       /\ Trouble /\ Happened("repeated")
       /\ atou' = atou \o <<m, m>>
       /\ client' = Sent
       /\ UNCHANGED <<tag, active, held, calls, result, svc, utoa, host,
                      diskVars>>

\* No room: the first message fails at once, the others after 20 tries.
SendRefused ==
    /\ client.pc = "send" /\ ~Fits(Head(client.todo), atou)
    /\ Fail("BADLEN")
    /\ UNCHANGED <<svc, atou, utoa, host, diskVars, trouble, events>>
-----------------------------------------------------------------------------
\* Client library: receiving

\* Faulty: no timeout once the first message of a reply was received.
WaitsForFirst(c) == c.pc = "wait"
Waits(c) == c.pc \in {"wait", "more"}

\* Faulty: the tag of the message received is not compared.
AnyReply(r, c) == TRUE
Wanted(r, c) == r.tag = c.tag

\* host_recv_msg: a message for somebody else is discarded.
Discard ==
    /\ Waits(client) /\ utoa # <<>>
    /\ ~Wanted(Head(utoa), client)
    /\ utoa' = Tail(utoa)
    /\ UNCHANGED <<clientVars, svc, atou, host, diskVars, trouble, events>>

\* host_recv_msg: the message discarded was the last it would look at. What
\* the program gets is KM_STATUS_FAIL, here "GAVEUP": the program cannot tell
\* it from the "FAIL" of the server, the properties can.
GiveUp ==
    /\ Waits(client) /\ utoa # <<>>
    /\ ~Wanted(Head(utoa), client)
    /\ utoa' = Tail(utoa)
    /\ Fail("GAVEUP")
    /\ UNCHANGED <<svc, atou, host, diskVars, trouble, events>>

\* The reply to MSG_RECEIVE is lost on its way to the Amiga, and with it the
\* message: the command that is sent again finds the next one.
ReceiveLost ==
    /\ Waits(client) /\ utoa # <<>>
    /\ Trouble
    /\ utoa' = Tail(utoa)
    /\ UNCHANGED <<clientVars, svc, atou, host, diskVars, events>>

\* recv_msg finds no message for 500 ms.
TimeOut ==
    /\ Waits(client) /\ utoa = <<>>
    /\ Fail("NODATA")
    /\ UNCHANGED <<svc, atou, utoa, host, diskVars, trouble, events>>

\* The first message of the reply: host_msg in each sm_f* function.
Answer ==
    LET r == Head(utoa)
        c == client
        mine == r.id = <<c.id, c.part>>
        more(want, got) ==
            /\ client' = [c EXCEPT !.pc = "more", !.want = want, !.got = got]
            /\ UNCHANGED <<tag, active, held, calls, result>>
    IN /\ c.pc = "wait" /\ utoa # <<>> /\ Wanted(r, c)
       /\ utoa' = Tail(utoa)
       /\ CASE c.op = "read" /\ r.status \in Success /\ ~r.lead ->
                 more(Garbage, <<Junk>>)
            [] c.op = "read" /\ r.status \in Success /\ r.lead
                 /\ r.total # Len(r.data) -> more(r.total, r.data)
            [] c.op = "write" /\ r.status = "OK" /\ c.part < Len(c.parts) ->
                 LET d == [c EXCEPT !.part = @ + 1, !.pc = "send"]
                 IN /\ client' = [d EXCEPT !.todo = Messages(d)]
                    /\ UNCHANGED <<tag, active, held, calls, result>>
            [] OTHER -> Return(r.status, r.data, r.h, r.ino, mine)
       /\ UNCHANGED <<svc, atou, host, diskVars, trouble, events>>

\* The further messages of a read: host_recv_msg_cont cuts the message header
\* off and takes the rest for data.
AnswerMore ==
    LET r == Head(utoa)
        got == client.got \o (IF r.lead THEN <<Junk>> ELSE r.data)
    IN /\ client.pc = "more" /\ utoa # <<>> /\ Wanted(r, client)
       /\ utoa' = Tail(utoa)
       /\ IF r.status \notin Success THEN Fail(r.status)
          ELSE IF Len(got) = client.want
          THEN Return("OK", got, NoParent, 0, r.id = <<client.id, client.part>>)
          ELSE /\ client' = [client EXCEPT !.got = got]
               /\ UNCHANGED <<tag, active, held, calls, result>>
       /\ UNCHANGED <<svc, atou, host, diskVars, trouble, events>>

\* The program ends, or the Amiga is reset; the next program starts with the
\* tag counter at its initial value.
Reboot ==
    /\ Trouble /\ Happened("reboot")
    /\ client' = NoCall /\ tag' = 0 /\ active' = FALSE /\ held' = <<>>
    /\ result' = NoResult
    /\ UNCHANGED <<calls, svc, atou, utoa, host, diskVars>>
-----------------------------------------------------------------------------
\* File server: what an operation does.  Each operator takes the message m,
\* changes the disk and the handle table, and gives the reply in host'.

\* send_msg: the first message holds the first item, the others the message
\* header and one item each.
\* Faulty: the body is advanced before the first message was cut from it.
ChunksSkip(m, status, h, ino, data) ==
    [i \in 1 .. IF data = <<>> THEN 1 ELSE Len(data) |->
        [lead |-> i = 1, tag |-> m.tag, id |-> m.id, status |-> status,
         h |-> h, ino |-> ino, total |-> Len(data),
         data |-> IF data = <<>> THEN <<>>
                  ELSE <<data[IF i < Len(data) THEN i + 1 ELSE i]>>]]
Chunks(m, status, h, ino, data) ==
    [i \in 1 .. IF data = <<>> THEN 1 ELSE Len(data) |->
        [lead |-> i = 1, tag |-> m.tag, id |-> m.id, status |-> status,
         h |-> h, ino |-> ino, total |-> Len(data),
         data |-> IF data = <<>> THEN <<>> ELSE <<data[i]>>]]

\* The message is kept as the handler left it: process_msg may pass the same
\* buffer to the handler once more.
Reply(m, retry, status, h, ino, data) ==
    host' = [pc |-> "reply", job |-> m, retry |-> retry, buf |-> <<>>,
             out |-> Chunks(m, status, h, ino, data)]
Answered(m, retry, status) == Reply(m, retry, status, m.h, 0, <<>>)
Rejected(m, retry, status) ==      \* the goto reply_*_fail with hm_handle = 0
    Answered([m EXCEPT !.h = NoParent], retry, status)

Effect(m) == effects' = [effects EXCEPT ![m.id] = IF @ < 2 THEN @ + 1 ELSE 2]
NewFile == Len(content) + 1

NextHandle == unique + 1

HandleNew(f, mode, type) ==
    /\ unique' = NextHandle
    /\ table' = [h \in DOMAIN table \cup {NextHandle} |->
                    IF h = NextHandle
                    THEN [ino |-> f, pos |-> 0, mode |-> mode, type |-> type]
                    ELSE table[h]]

\* A parent other than the root of the volume comes from the second run of
\* this function on the same message: no parent, or the file just opened.
do_fopen(m, retry) ==
    LET f == dir[m.name]
        created == f = 0 /\ "create" \in m.mode
        type == IF "read" \in m.mode /\ f # 0 THEN "file" ELSE "unknown"
        opened == [m EXCEPT !.h = NextHandle, !.mode = {}]
    IN IF m.h # Root
       THEN /\ Rejected(m, retry, IF m.h = NoParent THEN "NOEXIST" ELSE "FAIL")
            /\ UNCHANGED diskVars
       ELSE IF f = 0 /\ ~created
       THEN Rejected(m, retry, "NOEXIST") /\ UNCHANGED diskVars
       ELSE LET g == IF created THEN NewFile ELSE f
            IN /\ HandleNew(g, m.mode, type)
               /\ dir' = [dir EXCEPT ![m.name] = g]
               /\ content' = IF created THEN Append(content, <<>>)
                             ELSE IF "trunc" \in m.mode
                             THEN [content EXCEPT ![g] = <<>>]
                             ELSE content
               /\ Effect(m)
               /\ Reply(opened, retry, "OK", NextHandle, g, <<>>)

\* Faulty: handle_free unlinks the head of the list, the newest handle.
CloseNewest(m, retry) ==
    IF m.h \notin DOMAIN table
    THEN Answered(m, retry, "FAIL") /\ UNCHANGED diskVars
    ELSE /\ table' = [h \in DOMAIN table \
                        {CHOOSE k \in DOMAIN table :
                            \A j \in DOMAIN table : j <= k} |-> table[h]]
         /\ Effect(m) /\ Answered(m, retry, "OK")
         /\ UNCHANGED <<unique, dir, content>>
do_fclose(m, retry) ==
    IF m.h \notin DOMAIN table
    THEN Answered(m, retry, "FAIL") /\ UNCHANGED diskVars
    ELSE /\ table' = [h \in DOMAIN table \ {m.h} |-> table[h]]
         /\ Effect(m) /\ Answered(m, retry, "OK")
         /\ UNCHANGED <<unique, dir, content>>

do_fread(m, retry) ==
    IF m.h \notin DOMAIN table
    THEN Answered(m, retry, "FAIL") /\ UNCHANGED diskVars
    ELSE IF "read" \notin table[m.h].mode
    THEN Answered(m, retry, "INVALID") /\ UNCHANGED diskVars
    ELSE LET p == table[m.h].pos
             all == content[table[m.h].ino]
             last == IF p + m.n <= Len(all) THEN p + m.n ELSE Len(all)
             data == SubSeq(all, p + 1, last)
         IN /\ table' = [table EXCEPT ![m.h].pos = p + Len(data)]
            /\ Effect(m)
            /\ Reply(m, retry, IF Len(data) < m.n THEN "EOF" ELSE "OK",
                     m.h, 0, data)
            /\ UNCHANGED <<unique, dir, content>>

\* write(2) at the position of the handle.
Overwrite(all, p, data) ==
    [i \in 1 .. IF Len(all) > p + Len(data) THEN Len(all) ELSE p + Len(data) |->
        IF i > p /\ i <= p + Len(data) THEN data[i - p]
        ELSE IF i <= Len(all) THEN all[i] ELSE Junk]

WriteOut(m, data) ==
    LET t == table[m.h]
    IN /\ content' = [content EXCEPT ![t.ino] = Overwrite(@, t.pos, data)]
       /\ table' = [table EXCEPT ![m.h].pos = t.pos + Len(data)]
       /\ Effect(m)
       /\ UNCHANGED <<unique, dir>>

\* A message whose length says that more is to come is collected first.
do_fwrite(m, retry) ==
    IF m.h \notin DOMAIN table
    THEN Answered(m, retry, "FAIL") /\ UNCHANGED diskVars
    ELSE IF "write" \notin table[m.h].mode
    THEN Answered(m, retry, "INVALID") /\ UNCHANGED diskVars
    ELSE IF Len(m.data) < m.total
    THEN /\ host' = [pc |-> "collect", job |-> m, retry |-> retry,
                     out |-> <<>>, buf |-> m.data]
         /\ UNCHANGED diskVars
    ELSE WriteOut(m, m.data) /\ Answered(m, retry, "OK")

\* The type of a file opened for write, or just created, is not known.
do_fseek(m, retry) ==
    IF m.h \notin DOMAIN table
    THEN Answered(m, retry, "FAIL") /\ UNCHANGED diskVars
    ELSE IF table[m.h].type # "file"
    THEN Answered(m, retry, "INVALID") /\ UNCHANGED diskVars
    ELSE /\ table' = [table EXCEPT ![m.h].pos = 0]
         /\ Effect(m) /\ Answered(m, retry, "OK")
         /\ UNCHANGED <<unique, dir, content>>

do_fdelete(m, retry) ==
    IF m.h # Root \/ dir[m.name] = 0
    THEN Rejected(m, retry, "FAIL") /\ UNCHANGED diskVars
    ELSE /\ dir' = [dir EXCEPT ![m.name] = 0]
         /\ Effect(m) /\ Answered(m, retry, "OK")
         /\ UNCHANGED <<table, unique, content>>

do_frename(m, retry) ==
    IF m.h # Root
    THEN Rejected(m, retry, "FAIL") /\ UNCHANGED diskVars
    ELSE IF dir[m.name] = 0
    THEN Rejected(m, retry, "NOEXIST") /\ UNCHANGED diskVars
    ELSE /\ dir' = IF m.name = m.to THEN dir
                   ELSE [dir EXCEPT ![m.to] = dir[m.name], ![m.name] = 0]
         /\ Effect(m) /\ Answered(m, retry, "OK")
         /\ UNCHANGED <<table, unique, content>>

do_fcreate(m, retry) ==
    IF m.h # Root
    THEN Rejected(m, retry, "FAIL") /\ UNCHANGED diskVars
    ELSE IF dir[m.name] # 0
    THEN Rejected(m, retry, "EXIST") /\ UNCHANGED diskVars
    ELSE /\ dir' = [dir EXCEPT ![m.name] = NewFile]
         /\ content' = Append(content, <<>>)
         /\ Effect(m) /\ Answered(m, retry, "OK")
         /\ UNCHANGED <<table, unique>>

\* The date, owner or protection of a file: no property tells them apart.
do_fset(m, retry) ==
    IF m.h # Root
    THEN Rejected(m, retry, "FAIL") /\ UNCHANGED diskVars
    ELSE IF dir[m.name] = 0
    THEN Rejected(m, retry, "NOEXIST") /\ UNCHANGED diskVars
    ELSE /\ Effect(m) /\ Answered(m, retry, "OK")
         /\ UNCHANGED <<table, unique, dir, content>>

\* A handle that is not open has the path of the volume directory.
do_fpath(m, retry) ==
    Effect(m) /\ Answered(m, retry, "OK")
    /\ UNCHANGED <<table, unique, dir, content>>

\* process_msg: the handler for the operation of the message.
Process(m, retry) ==
    \/ m.op = "open" /\ do_fopen(m, retry)
    \/ m.op = "close" /\ do_fclose(m, retry)
    \/ m.op = "read" /\ do_fread(m, retry)
    \/ m.op = "write" /\ do_fwrite(m, retry)
    \/ m.op = "seek" /\ do_fseek(m, retry)
    \/ m.op = "delete" /\ do_fdelete(m, retry)
    \/ m.op = "rename" /\ do_frename(m, retry)
    \/ m.op = "create" /\ do_fcreate(m, retry)
    \/ m.op = "set" /\ do_fset(m, retry)
    \/ m.op = "path" /\ do_fpath(m, retry)
-----------------------------------------------------------------------------
\* File server: its loop

\* handle_atou_messages receives a message and processes it.
Take ==
    /\ host.pc = "idle" /\ atou # <<>>
    /\ atou' = Tail(atou)
    /\ Process(Head(atou), 1)
    /\ UNCHANGED <<clientVars, svc, utoa, trouble, events>>

\* sm_fwrite collects the rest of the data.  The first message of a request
\* that bears the same tag is taken for data.
Collect ==
    LET m == Head(atou)
        buf == host.buf \o (IF m.lead THEN <<Junk>> ELSE m.data)
    IN /\ host.pc = "collect" /\ atou # <<>> /\ m.tag = host.job.tag
       /\ atou' = Tail(atou)
       /\ IF Len(buf) < host.job.total
          THEN host' = [host EXCEPT !.buf = buf] /\ UNCHANGED diskVars
          ELSE WriteOut(host.job, buf) /\ Answered(host.job, host.retry, "OK")
       /\ UNCHANGED <<clientVars, svc, utoa, trouble, events>>

\* What is collected is dropped: 20 polls found nothing, or a message of
\* another tag came, which is lost.  The variable that holds the error is
\* unsigned and not 0, so the reply is KM_STATUS_OK.
CollectFails ==
    /\ host.pc = "collect"
    /\ \/ atou = <<>> /\ UNCHANGED atou
       \/ /\ atou # <<>> /\ Head(atou).tag # host.job.tag
          /\ atou' = Tail(atou)
    /\ Answered(host.job, host.retry, "OK") /\ Happened("dropped")
    /\ UNCHANGED <<clientVars, svc, utoa, diskVars, trouble>>

\* write(2) fails; the test of its result is never true.
DiskFull ==
    /\ \/ /\ host.pc = "idle" /\ atou # <<>> /\ Head(atou).op = "write"
          /\ LET m == Head(atou)
             IN /\ m.h \in DOMAIN table /\ "write" \in table[m.h].mode
                /\ Len(m.data) = m.total
                /\ Answered(m, 1, "OK")
       \/ /\ host.pc = "collect" /\ atou # <<>>
          /\ Head(atou).tag = host.job.tag
          /\ Len(host.buf) + 1 = host.job.total
          /\ Answered(host.job, host.retry, "OK")
    /\ atou' = Tail(atou)
    /\ Trouble /\ Happened("dropped")
    /\ UNCHANGED <<clientVars, svc, utoa, diskVars>>

\* The end of a pass of process_msg: the status of the last message sent
\* decides whether the handler is run once more.
\* Faulty: the number of passes is not limited.
RunAgainAlways(sent) ==
    host' = IF sent THEN Idle ELSE [host EXCEPT !.pc = "again", !.out = <<>>]
RunAgain(sent) ==
    host' = IF sent \/ host.retry = 0 THEN Idle
            ELSE [host EXCEPT !.pc = "again", !.out = <<>>]

\* MSG_SEND of one message of the reply; when the buffer has no room for it
\* the message is lost, and only the status of the last one is looked at.
SendReply ==
    LET r == Head(host.out)
        room == Fits(r, utoa)
    IN /\ host.pc = "reply"
       /\ utoa' = IF room THEN Append(utoa, r) ELSE utoa
       /\ events' = IF room THEN events ELSE events \cup {"refused"}
       /\ IF Len(host.out) > 1 THEN host' = [host EXCEPT !.out = Tail(@)]
          ELSE RunAgain(room)
       /\ UNCHANGED <<clientVars, svc, atou, diskVars, trouble>>

\* The USB transfer fails, before or after MSG_SEND was executed: send_msg
\* stops, and the handler is run once more.
SendReplyFails ==
    /\ host.pc = "reply"
    /\ Trouble /\ Happened("repeated")
    /\ \/ UNCHANGED utoa
       \/ Fits(Head(host.out), utoa) /\ utoa' = Append(utoa, Head(host.out))
    /\ RunAgain(FALSE)
    /\ UNCHANGED <<clientVars, svc, atou, diskVars>>

Again ==
    /\ host.pc = "again"
    /\ Process(host.job, 0)
    /\ UNCHANGED <<clientVars, svc, atou, utoa, trouble, events>>

\* hostsmash ends; all its handles are gone.
Stop ==
    /\ host.pc # "down" /\ Trouble /\ Happened("restart")
    /\ host' = [Idle EXCEPT !.pc = "down"]
    /\ table' = <<>>
    /\ UNCHANGED <<clientVars, svc, atou, utoa, unique, dir, content, effects>>

\* No MSG_STATE for 10 seconds.
Expire ==
    /\ host.pc = "down" /\ svc /\ svc' = FALSE
    /\ UNCHANGED <<clientVars, atou, utoa, host, diskVars, trouble, events>>

\* run_message_mode: the volumes are added, the service bits are set, and
\* then the messages of the Amiga are flushed.
VolumeTable == [h \in {VolumeHandle} |->
                  [ino |-> 0, pos |-> 0, mode |-> {}, type |-> "volume"]]
Start ==
    /\ host.pc = "down"
    /\ table' = VolumeTable /\ unique' = VolumeHandle
    /\ svc' = TRUE /\ host' = [Idle EXCEPT !.pc = "flush"]
    /\ UNCHANGED <<clientVars, atou, utoa, dir, content, effects, trouble, events>>
Flush ==
    /\ host.pc = "flush"
    /\ atou' = <<>> /\ host' = Idle
    /\ UNCHANGED <<clientVars, svc, utoa, diskVars, trouble, events>>
-----------------------------------------------------------------------------
Init ==
    /\ client = NoCall /\ tag = 0 /\ active = FALSE /\ held = <<>>
    /\ calls = 0 /\ result = NoResult
    /\ svc = TRUE /\ atou = <<>> /\ utoa = <<>>      \* after Start and Flush
    /\ host = Idle /\ table = VolumeTable /\ unique = VolumeHandle
    /\ dir = [f \in Names |-> IF f = FirstFile THEN 1 ELSE 0]
    /\ content = <<[i \in 1 .. FileLength |-> <<0, 0, i>>]>>
    /\ effects = [id \in (1 .. MaxCalls) \X {1, 2} |-> 0]
    /\ trouble = 0 /\ events = {}

Program == sm_fopen \/ sm_fclose \/ sm_fread \/ sm_fwrite \/ sm_fseek
           \/ sm_fdelete \/ sm_frename \/ sm_fcreate \/ sm_fset \/ sm_fpath
Library == SendOne \/ SendRefused \/ Discard \/ GiveUp \/ TimeOut \/ Answer
           \/ AnswerMore
Server == Take \/ Collect \/ CollectFails \/ SendReply \/ Again \/ Start \/ Flush
Environment == SendTwice \/ ReceiveLost \/ SendReplyFails \/ DiskFull
               \/ Stop \/ Expire \/ Reboot

Next == Program \/ Library \/ Server \/ Environment

Spec == Init /\ [][Next]_vars

\* Library and server are loops that go on while there is work; when the
\* program makes its next call, and what goes wrong, is left open.
FairSpec == Spec /\ WF_vars(Library) /\ WF_vars(Server)
-----------------------------------------------------------------------------
\* Properties

Without(bad) == events \cap bad = {}

\* A call ends with the answer to its own last message, also when answers of
\* earlier calls that timed out are still in the buffer or an answer is lost.
\* Not so once a command was repeated or refused (the two messages of one
\* sm_fwrite share a tag), or a new program has started its tags again.
ReplyIsMine == Without({"repeated", "refused", "reboot"}) => result.mine

\* A read that succeeds gives the bytes that follow those of the last
\* successful operation on the handle: all that was asked for, or up to the
\* end of the file, or past it when another handle has truncated the file.
ReadsFollow ==
    (result.op = "read" /\ result.status \in Success /\ result.exp # Unknown
        /\ Without({"repeated", "refused", "dropped", "restart", "reboot"})) =>
      LET all == content[result.ino]
          end == result.exp + Len(result.data)
      IN /\ result.data = SubSeq(all, result.exp + 1, end)
         /\ Len(result.data) = result.n \/ end >= Len(all)

\* A handle that the program holds is open in the server, on the file the
\* program opened; only a restart of the server breaks this.
HeldHandlesOpen ==
    Without({"restart", "reboot"}) =>
        \A h \in DOMAIN held :
            \/ h \in DOMAIN table /\ table[h].ino = held[h].ino
            \/ client.op = "close" /\ client.h = h

\* A call that returns success was carried out, every message of it once.
OkMeansDone ==
    (result.op # "none" /\ result.status \in Success
        /\ Without({"repeated", "refused", "dropped", "reboot"})) =>
      \A p \in 1 .. IF result.op = "write" THEN result.parts ELSE 1 :
        effects[<<result.id, p>>] = 1

\* A call that the server rejects has done nothing, unless the server lost
\* its first answer and ran the operation a second time. It is not so for the
\* failures that the library itself finds: after "NODATA" and "GAVEUP" the
\* operation may have been done, or may still be done.
ErrorMeansNotDone ==
    (result.status \in HostErrors /\ result.op # "write"
        /\ Without({"repeated", "refused", "reboot"})) =>
      effects[<<result.id, 1>>] = 0

\* Every call of the library returns.
CallReturns == client.pc # "idle" ~> client.pc = "idle"

\* The server always gets back to its poll, also when nobody takes the
\* replies out of the full buffer or a client stops in the middle of a write.
ServerReturns == host.pc # "idle" ~> host.pc = "idle"

\* KM_STATUS_OK is "Success" (host_cmd.h): what was written is in the file.
OkMeansWritten ==
    (result.op = "write" /\ result.status = "OK") =>
        \A p \in 1 .. result.parts : effects[<<result.id, p>>] > 0
=============================================================================
