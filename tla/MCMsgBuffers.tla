---------------------------- MODULE MCMsgBuffers ----------------------------
(***************************************************************************)
(* Values of the constants of MsgBuffers for TLC.  Headers have 4 words, 2 *)
(* of them magic; a ring of 12 words holds two of the messages of 4 and 6  *)
(* words (the odd payload is rounded up), so that it fills, and the third  *)
(* message wraps.                                                          *)
(***************************************************************************)
EXTENDS MsgBuffers

MCPayloads == {0, 1}

\* The lock of both rings that the Amiga's loopback test takes.
LoopbackLocks == {{<<"usb", "atou">>, <<"usb", "utoa">>}}

\* Each side locks the other out of one ring.
AmigaTakesAtou == {{<<"usb", "atou">>}}
UsbTakesAtou   == {{<<"amiga", "atou">>}}
NoLocks == {}
=============================================================================
