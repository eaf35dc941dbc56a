------------------------------ MODULE ConfigReload ------------------------------
(***************************************************************************)
(* The configuration that is in force: the editors of the file, and the      *)
(* reload that Server.Run does for each SIGHUP, which the admin server sends *)
(* and the administrator may send by hand.  The rest of what a reload        *)
(* validates, catalog and rules, is taken to be sound here; Intercept has    *)
(* it.  A process that cannot start because of its file is left out.         *)
(***************************************************************************)
EXTENDS Naturals, ConfigEditors

VARIABLES hup,     \* signals in the channel hup
          reload,  \* the text that a reload has read and not yet stored
          inForce, \* the text that the last successful reload has read
          changed  \* ghost: the file has changed since a reload was asked for

reloadVars == <<editorsVars, hup, reload, inForce, changed>>

NoReload == [pc |-> "idle"]

ReloadTypeOK ==
  /\ EditorsTypeOK
  /\ hup \in 0..1 /\ reload \in {NoReload} \cup [pc : {"store"}, text : Whole]
  /\ inForce \in Whole /\ changed \in BOOLEAN

ReloadInit ==
  /\ EditorsInit
  /\ hup = 0 /\ reload = NoReload /\ inForce = file /\ changed = FALSE

-----------------------------------------------------------------------------
Edit ==
  /\ \E e \in Editor : EditorStep(e)
  /\ changed' = (changed \/ file' # file)
  /\ UNCHANGED <<hup, reload, inForce>>

\* mutant: the channel has no buffer, so that a signal during a reload is lost
AskReload_Unbuffered ==
  /\ hup' = IF reload = NoReload THEN 1 ELSE hup
  /\ changed' = FALSE
  /\ UNCHANGED <<editorsVars, reload, inForce>>

\* handleReload sends SIGHUP; signal.Notify drops one that the channel, whose capacity
\* is 1, has no room for.
AskReload ==
  /\ hup' = 1
  /\ changed' = FALSE
  /\ UNCHANGED <<editorsVars, reload, inForce>>

\* mutant: a file that does not load is not told from one that does
ReloadReads_Unchecked ==
  /\ hup = 1 /\ reload = NoReload
  /\ hup' = 0
  /\ reload' = [pc |-> "store", text |-> file]
  /\ UNCHANGED <<editorsVars, inForce, changed>>

\* The select loop of Run takes a signal and calls reload, one at a time: config.Load, and
\* if the file does not load nothing more.
ReloadReads ==
  /\ hup = 1 /\ reload = NoReload
  /\ hup' = 0
  /\ reload' = IF file = Torn THEN NoReload ELSE [pc |-> "store", text |-> file]
  /\ UNCHANGED <<editorsVars, inForce, changed>>

\* The rest is read and validated, then all is swapped.
ReloadStores ==
  /\ reload # NoReload
  /\ inForce' = reload.text /\ reload' = NoReload
  /\ UNCHANGED <<editorsVars, hup, changed>>

Restart ==
  /\ file # Torn /\ EditorsCrash
  /\ hup' = 0 /\ reload' = NoReload /\ inForce' = file
  /\ UNCHANGED changed

ReloadNext == Edit \/ AskReload \/ ReloadReads \/ ReloadStores \/ Restart

ReloadSpec == ReloadInit /\ [][ReloadNext]_reloadVars

-----------------------------------------------------------------------------
\* A reload that was asked for after the last change of the file is not lost, also when it
\* was asked for during another one: once it is over, the file is what is in force.
ReloadApplied ==
  ~changed /\ hup = 0 /\ reload = NoReload => inForce = file \/ file = Torn
=============================================================================
