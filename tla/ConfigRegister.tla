---------------------------- MODULE ConfigRegister ----------------------------
(***************************************************************************)
(* What fw/config.c promises of the board's configuration: a copy in RAM   *)
(* that commands change, and a register that survives a power loss.  A     *)
(* save takes a snapshot and may forget the register before it stores the  *)
(* snapshot; outside a save the register does not change, and what a       *)
(* restart finds is the last snapshot stored, or nothing: never an older   *)
(* configuration and never a mixture of two.  What it does not promise is  *)
(* a field, the current bank, whose changes do not make the copy dirty:    *)
(* one that comes during a save may leave nothing stored.                  *)
(***************************************************************************)
CONSTANTS Contents, Default,
          PowerOn, Current    \* the fields of the bank at power-on and now

VARIABLES config,    \* the configuration in RAM
          dirty,     \* it changed since the last save began
          torn,      \* the current bank changed since the last snapshot,
                     \* before its save ended
          stored,    \* {} or {the configuration a restart finds}
          saving,    \* a save is under way
          snapshot   \* the configuration it is storing

rvars == <<saving, snapshot, dirty, torn, config, stored>>

Init == /\ config = Default /\ dirty = TRUE /\ torn = FALSE
        /\ stored = {} /\ saving = FALSE /\ snapshot = Default

Change == /\ dirty' = TRUE /\ config' \in Contents
          /\ UNCHANGED <<saving, snapshot, torn, stored>>

ChangeBank == /\ config' \in Contents
              /\ config' = [config EXCEPT ![Current] = config'[Current]]
              /\ torn' = (torn \/ saving)
              /\ UNCHANGED <<saving, snapshot, dirty, stored>>

Begin == /\ ~saving /\ saving' = TRUE
         /\ dirty /\ dirty' = FALSE
         /\ UNCHANGED <<config, torn, snapshot, stored>>

Snapshot == /\ saving /\ snapshot' = config /\ torn' = FALSE
            /\ UNCHANGED <<saving, config, dirty, stored>>

Forget == /\ saving
          /\ UNCHANGED <<saving, config, dirty, torn, snapshot>>
          /\ stored' = {}

\* A save ends with the snapshot stored, unless the configuration changed
\* meanwhile: then another save follows.
Finish == /\ saving /\ saving' = FALSE
          /\ UNCHANGED <<config, dirty, torn, snapshot>>
          /\ stored' \in {{snapshot}, {}}
          /\ stored' = {} => dirty \/ torn

\* After a cold start the current bank is that for power-on.
Started(c) == {c, [c EXCEPT ![Current] = c[PowerOn]]}

Restart == /\ saving' = FALSE
           /\ config' \in (IF stored = {} THEN {Default}
                          ELSE UNION {Started(c) : c \in stored})
           /\ snapshot' = config' /\ torn' = FALSE
           /\ UNCHANGED stored
           /\ dirty' = (stored = {})

Next == Begin \/ Change \/ ChangeBank \/ Snapshot \/ Forget \/ Finish \/ Restart

Spec == Init /\ [][Next]_rvars
===============================================================================
