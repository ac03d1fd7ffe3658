-------------------------------- MODULE Ring --------------------------------
(***************************************************************************)
(* Index arithmetic and framing of the two message rings of fw/msg.c,      *)
(* msg_atou[] and msg_utoa[].  The unit is the 16-bit word: every length   *)
(* that reaches a ring is a multiple of it (KS_HDR_AND_CRC_LEN, the        *)
(* rounding of the callers, the "len + 1 & ~1" of atou_add and utoa_add).  *)
(*                                                                         *)
(* A word of a ring is abstracted to what the framing can tell apart: the  *)
(* message it belongs to, its position in that message and the message's   *)
(* raw length, which is what the length word of the header carries.        *)
(***************************************************************************)
EXTENDS Naturals

CONSTANTS
    Size,       \* words in a ring (0x800 in the firmware)
    HdrLen,     \* words of magic, length, command and CRC (8)
    MagicLen    \* words of magic in front of the length word (4)

ASSUME RingAssumption ==
    /\ Size \in Nat
    /\ HdrLen \in Nat
    /\ MagicLen \in Nat
    /\ 0 < MagicLen
    /\ MagicLen < HdrLen
    /\ HdrLen < Size

Index == 0 .. Size - 1

\* Faulty: the index one past the end is taken for one inside.
WrapLate(x) == IF x > Size THEN x - Size ELSE x

\* x & (sizeof (ring) - 1), for a sum x of an index and a length.
Wrap(x) == IF x >= Size THEN x - Size ELSE x

\* SPACE_INUSE_*: the words from index c up to index p.
Inuse(p, c) == IF p >= c THEN p - c ELSE p + Size - c

\* Faulty: every word may be used.
AvailAll(p, c) == Size - Inuse(p, c)

\* SPACE_AVAIL_*: one word is never used, so that full differs from empty.
Avail(p, c) == Size - 1 - Inuse(p, c)

\* Raw length of a message of n payload words: (len + 16 + 3) & ~3 bytes.
RawLen(n) == HdrLen + n + (n % 2)

-----------------------------------------------------------------------------
(* Contents.                                                               *)

Word(id, n, k) == [id |-> id, len |-> n, off |-> k]

\* The word of a ring nothing was ever written to: it matches no magic.
Blank == [id |-> 0, len |-> 0, off |-> Size]

WordType == [id : Nat, len : Index, off : 0 .. Size]

\* Faulty: only the memcpy() up to the end of the ring.
CopyToEnd(b, p, id, n) ==
    [i \in Index |-> IF i >= p /\ i - p < n THEN Word(id, n, i - p) ELSE b[i]]

\* The one or two memcpy() of atou_add and utoa_add: the n words of
\* message id, from index p on, around the end of the ring if need be.
Copy(b, p, id, n) ==
    [i \in Index |-> IF Inuse(i, p) < n THEN Word(id, n, Inuse(i, p)) ELSE b[i]]

\* The magic comparison of *_next_msg_len at index c.
MagicAt(b, c) == \A k \in 0 .. MagicLen - 1 : b[Wrap(c + k)].off = k

\* *_next_msg_len finds a message at index c.
HasMessage(b, p, c) == Inuse(p, c) >= HdrLen /\ MagicAt(b, c)

\* The length *_next_msg_len returns for the message at index c.
LenAt(b, c) == b[Wrap(c + MagicLen)].len

\* n words from index c on are message id, whole.
MessageAt(b, c, id, n) == \A k \in 0 .. n - 1 : b[Wrap(c + k)] = Word(id, n, k)

\* What a receiver gets when n words are sent from index c: the message, or
\* 0 when they are not exactly one message.
Delivered(b, c, n) == IF MessageAt(b, c, b[c].id, n) THEN b[c].id ELSE 0
=============================================================================
