------------------------------ MODULE MsgQueue ------------------------------
(***************************************************************************)
(* What the message buffers promise to the two programs that talk through  *)
(* Kicksmash: each buffer is a FIFO queue of whole messages.  A message is *)
(* delivered once, in the order of acceptance, and the only other way out  *)
(* of the queue is a flush, which discards the oldest messages.            *)
(*                                                                         *)
(* A message is its acceptance number in its buffer.                       *)
(***************************************************************************)
EXTENDS Naturals, Sequences

CONSTANT Buffers

VARIABLES
    queue,      \* messages accepted and not yet delivered or flushed
    accepted,   \* number of messages accepted so far
    out         \* the message delivered last, 0 before the first

vars == <<queue, accepted, out>>

Init ==
    /\ queue = [r \in Buffers |-> <<>>]
    /\ accepted = [r \in Buffers |-> 0]
    /\ out = [r \in Buffers |-> 0]

Put(r) ==
    /\ accepted' = [accepted EXCEPT ![r] = @ + 1]
    /\ queue' = [queue EXCEPT ![r] = Append(@, accepted[r] + 1)]
    /\ UNCHANGED out

Get(r) ==
    /\ queue[r] # <<>>
    /\ out' = [out EXCEPT ![r] = Head(queue[r])]
    /\ queue' = [queue EXCEPT ![r] = Tail(@)]
    /\ UNCHANGED accepted

\* A flush discards what had been accepted when it read the producer index.
Flush(r) ==
    /\ \E n \in 1 .. Len(queue[r]) :
         queue' = [queue EXCEPT ![r] = SubSeq(@, n + 1, Len(@))]
    /\ UNCHANGED <<accepted, out>>

Next == \E r \in Buffers : Put(r) \/ Get(r) \/ Flush(r)

Spec == Init /\ [][Next]_vars
=============================================================================
