----------------------------- MODULE MCConfigStore -----------------------------
(* Small constants for ConfigStore. *)
EXTENDS ConfigStore

MCDefault == [f \in 1 .. NFields |-> 0]

Always == {"idle", "crc", "scan", "space", "write"}

\* Failures in the middle of a word or outside a save; or at every step of a
\* save, in the middle of the erase included, but not within a word.
HalfOrErase == {{"idle", "half"}, Always \cup {"erase"}}

\* Both on the same board.
Anywhere == {Always \cup {"half", "erase"}}
===============================================================================
