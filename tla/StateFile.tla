------------------------------ MODULE StateFile ------------------------------
(***************************************************************************)
(* How a store replaces its JSON file: write path.tmp, rename it to path.  *)
(* The same code is in admin.Store.save and rulecatalog.Store.saveLocked,  *)
(* both called with the store's mutex held, and in aghmanaged.persistState, *)
(* called after Manager.mu is released (MutexHeld = FALSE), so that several    *)
(* goroutines can be between any two of its system calls.                   *)
(*                                                                         *)
(* The state is abstracted to its version (see DurableRegister).  Files are *)
(* inodes, because path.tmp is one name for all writers: opening it again   *)
(* truncates the inode another writer is filling, and renaming it moves     *)
(* whatever inode has the name at that moment.                              *)
(***************************************************************************)
EXTENDS Naturals

CONSTANTS Writer,       \* goroutines that save
          Inode,
          None, Torn, Empty,
          MutexHeld,       \* the store's mutex is held over the save
          EmptyIsFresh, \* loading an empty file starts afresh (else: an error)
          MaxUpdates    \* bound on the updates of one history

ASSUME FlagAssumption == MutexHeld \in BOOLEAN /\ EmptyIsFresh \in BOOLEAN
ASSUME BoundAssumption == MaxUpdates \in Nat
ASSUME TokenAssumption ==
  /\ None \notin Inode
  /\ Torn \notin Nat /\ Empty \notin Nat

Version == 0 .. MaxUpdates

VARIABLES mem,     \* version in memory
          writer,  \* what each goroutine is doing
          path,    \* inode named path, or None
          tmp,     \* inode named path.tmp, or None
          data,    \* contents of the inodes
          by,      \* who has written to an inode since it was last truncated
          up,      \* the process is running (it exits when the file does not parse)
          acked    \* latest version whose save was reported successful

vars == <<mem, writer, path, tmp, data, by, up, acked>>

Idle == [pc |-> "idle"]
WriterState ==
  {Idle} \cup [pc : {"open", "rename"}, val : Version]
         \cup [pc : {"write", "writing"}, val : Version, inode : Inode]

TypeOK ==
  /\ mem \in Version /\ acked \in Version
  /\ writer \in [Writer -> WriterState]
  /\ path \in Inode \cup {None}
  /\ tmp \in Inode \cup {None}
  /\ data \in [Inode -> Version \cup {Torn, Empty}]
  /\ by \in [Inode -> SUBSET Writer]
  /\ up \in BOOLEAN

Init ==
  /\ mem = 0 /\ acked = 0
  /\ writer = [w \in Writer |-> Idle]
  /\ path = None /\ tmp = None
  /\ data = [i \in Inode |-> Empty]
  /\ by = [i \in Inode |-> {}]
  /\ up = TRUE

-----------------------------------------------------------------------------
\* Mutant: the mutex is released before the save.
Update_Unlocked(w) ==
  /\ up /\ writer[w].pc = "idle"
  /\ mem < MaxUpdates
  /\ mem' = mem + 1
  /\ writer' = [writer EXCEPT ![w] = [pc |-> "open", val |-> mem + 1]]
  /\ UNCHANGED <<path, tmp, data, by, up, acked>>

\* A store operation changes the memory and goes on to save that version.
Update(w) ==
  /\ up /\ writer[w].pc = "idle"
  /\ MutexHeld => \A v \in Writer : writer[v].pc = "idle"
  /\ mem < MaxUpdates
  /\ mem' = mem + 1
  /\ writer' = [writer EXCEPT ![w] = [pc |-> "open", val |-> mem + 1]]
  /\ UNCHANGED <<path, tmp, data, by, up, acked>>

\* An inode with no name that no goroutine has open.
Unused == {i \in Inode : /\ i # path /\ i # tmp
                         /\ \A w \in Writer : writer[w].pc \in {"write", "writing"}
                                                => writer[w].inode # i}

\* os.WriteFile opens path.tmp with O_CREATE and O_TRUNC.
OpenTmp(w, i) ==
  /\ writer[w].pc = "open"
  /\ IF tmp = None THEN i \in Unused ELSE i = tmp
  /\ tmp' = i
  /\ data' = [data EXCEPT ![i] = Empty]
  /\ by' = [by EXCEPT ![i] = {}]
  /\ writer' = [writer EXCEPT ![w] = [pc |-> "write", val |-> writer[w].val, inode |-> i]]
  /\ UNCHANGED <<mem, path, up, acked>>

WriteBegin(w) ==
  /\ writer[w].pc = "write"
  /\ data' = [data EXCEPT ![writer[w].inode] = Torn]
  /\ by' = [by EXCEPT ![writer[w].inode] = @ \cup {w}]
  /\ writer' = [writer EXCEPT ![w].pc = "writing"]
  /\ UNCHANGED <<mem, path, tmp, up, acked>>

\* Alone on the inode since its truncation, the writer leaves its version there;
\* otherwise its bytes may also be mixed with another writer's or follow a hole.
WriteEnd(w, d) ==
  /\ writer[w].pc = "writing"
  /\ LET i == writer[w].inode
     IN /\ d \in IF by[i] = {w} THEN {writer[w].val} ELSE {writer[w].val, Torn}
        /\ data' = [data EXCEPT ![i] = d]
  /\ writer' = [writer EXCEPT ![w] = [pc |-> "rename", val |-> writer[w].val]]
  /\ UNCHANGED <<mem, path, tmp, by, up, acked>>

\* os.Rename: path.tmp replaces path, and the caller is told so.
Rename(w) ==
  /\ writer[w].pc = "rename"
  /\ tmp # None
  /\ path' = tmp
  /\ tmp' = None
  /\ acked' = IF writer[w].val > acked THEN writer[w].val ELSE acked
  /\ writer' = [writer EXCEPT ![w] = Idle]
  /\ UNCHANGED <<mem, data, by, up>>

\* An error of any of the system calls (another writer's rename leaves no path.tmp
\* to rename, for one); the memory keeps the change, the caller gets the error.
SaveError(w) ==
  /\ writer[w].pc # "idle"
  /\ writer' = [writer EXCEPT ![w] = Idle]
  /\ UNCHANGED <<mem, path, tmp, data, by, up, acked>>

\* What path holds.
stored == IF path = None THEN 0 ELSE data[path]

\* The process dies at any point and the store is opened again: a file that does
\* not parse is an error and the process does not start.
Crash ==
  /\ up
  /\ writer' = [w \in Writer |-> Idle]
  /\ mem' = IF stored \in Version THEN stored ELSE 0
  /\ up' = (stored \in Version \/ (stored = Empty /\ EmptyIsFresh))
  /\ UNCHANGED <<path, tmp, data, by, acked>>

Next ==
  \/ \E w \in Writer :
       \/ Update(w)
       \/ \E i \in Inode : OpenTmp(w, i)
       \/ WriteBegin(w)
       \/ \E d \in Version \cup {Torn} : WriteEnd(w, d)
       \/ Rename(w)
       \/ SaveError(w)
  \/ Crash

Spec == Init /\ [][Next]_vars

-----------------------------------------------------------------------------
(* Properties.                                                             *)

\* An update whose save was acknowledged is in the file, whole, whenever the
\* process may die: no later save, retry or leftover path.tmp takes it away.
AckedDurable == stored \in Version /\ stored >= acked

\* The store is a durable register: with the mutex held over the save, every step
\* of the file replacement, a crash between any two of them included, is a step of
\* DurableRegister or invisible to it.
Register == INSTANCE DurableRegister
              WITH mem <- mem, stored <- stored, acked <- acked,
                   MaxUpdates <- MaxUpdates
RegisterSpec == Register!Spec

=============================================================================
