--------------------------- MODULE DurableRegister ---------------------------
(***************************************************************************)
(* What a JSON-backed store promises: the state file always holds one      *)
(* complete version of the state, an acknowledged update is in the file,   *)
(* and a restart resumes from the file.  A version is the number of the    *)
(* update that produced it, and includes the updates before it.            *)
(***************************************************************************)
EXTENDS Naturals

CONSTANT MaxUpdates  \* bound on the updates of one history

VARIABLES mem,    \* version in memory
          stored, \* version in the file
          acked   \* latest version whose caller was told it is saved

vars == <<mem, stored, acked>>

Init == mem = 0 /\ stored = 0 /\ acked = 0

Update == mem < MaxUpdates /\ mem' = mem + 1 /\ UNCHANGED <<stored, acked>>

Commit == stored' = mem /\ acked' = mem /\ UNCHANGED mem

Crash == mem' = stored /\ UNCHANGED <<stored, acked>>

Next == Update \/ Commit \/ Crash

Spec == Init /\ [][Next]_vars
=============================================================================
