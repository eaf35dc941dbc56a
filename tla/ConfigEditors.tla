----------------------------- MODULE ConfigEditors -----------------------------
(***************************************************************************)
(* Editors of the configuration file at the same time.  The handlers hold no *)
(* lock: they read the file, try the patched text in path.check, a file they *)
(* all share, and write the file in place.  What a patch does to the lines   *)
(* is in ConfigFile; here a text is the value of each section, and is Torn   *)
(* when it does not load.  A system call is one step: a read gets a whole    *)
(* text and a write puts one.  Requests that are refused before anything is  *)
(* written are left out, and a PUT of a text without settings.               *)
(***************************************************************************)
CONSTANTS Editor,   \* requests that edit
          Section,  \* sections of the file
          Patched,  \* those that the two patching handlers edit
          Value

ASSUME EditorsAssumption ==
  /\ Patched \subseteq Section /\ Patched # Section
  /\ "default" \notin Value /\ "torn" \notin Value

VARIABLES file,       \* the text of the file
          check,      \* path.check
          checkOpen,  \* who has it open for writing
          edit,       \* what each request is doing
          want,       \* ghost: the file at the last quiet moment, with the edits acknowledged since
          lastAck,    \* ghost: the last of these edits, or no change
          overlap,    \* ghost: two edits were under way at a time since
          failed      \* ghost: a write failed after the truncation since

fileVars == <<file, check, checkOpen, edit>>
ghostVars == <<want, lastAck, overlap, failed>>
editorsVars == <<fileVars, ghostVars>>

Whole == [Section -> Value \cup {"default"}]
Empty == [s \in Section |-> "default"]
Torn == [s \in Section |-> "torn"]
Text == Whole \cup {Torn}

\* what an edit sets: one section, or in a PUT all of them
Change == Whole \cup UNION {[{s} -> Value] : s \in Patched}
NoChange == [s \in {} |-> "default"]

Edited(text, change) ==
  IF DOMAIN change = Section THEN change
  ELSE IF text = Torn THEN Torn
  ELSE [s \in Section |-> IF s \in DOMAIN change THEN change[s] ELSE text[s]]

NoEdit == [pc |-> "idle"]
EditRec ==
  {NoEdit}
  \cup [pc : {"load", "opencheck", "writecheck", "loadcheck", "truncate", "write"},
        change : Change, text : Text]
  \cup [pc : {"remove"}, change : Change, text : Text, loads : BOOLEAN]

Quiet == \A e \in Editor : edit[e] = NoEdit

EditorsTypeOK ==
  /\ file \in Text
  /\ check \in [there : BOOLEAN, text : Text] /\ checkOpen \in SUBSET Editor
  /\ edit \in [Editor -> EditRec]
  /\ want \in Text /\ lastAck \in Change \cup {NoChange}
  /\ overlap \in BOOLEAN /\ failed \in BOOLEAN

EditorsInit ==
  /\ file \in Whole
  /\ check = [there |-> FALSE, text |-> Empty] /\ checkOpen = {}
  /\ edit = [e \in Editor |-> NoEdit]
  /\ want = file /\ lastAck = NoChange
  /\ overlap = FALSE /\ failed = FALSE

-----------------------------------------------------------------------------
(* One edit.                                                                *)

\* The ghosts at the begin of an edit: the first one after a quiet moment counts anew.
Begins ==
  /\ overlap' = ~Quiet
  /\ IF Quiet THEN want' = file /\ lastAck' = NoChange /\ failed' = FALSE
     ELSE UNCHANGED <<want, lastAck, failed>>

Proceeds(e, r) == edit' = [edit EXCEPT ![e] = r]

\* os.WriteFile after its truncation: what another one wrote meanwhile may reach behind
\* the end of this text.
Over(old, text) == IF old = Empty THEN {text} ELSE {text, Torn}

\* update...ConfigFile: os.ReadFile, for the text that is patched,
PatchBegins(e, s, v) ==
  /\ edit[e] = NoEdit
  /\ Proceeds(e, [pc |-> "load", change |-> [x \in {s} |-> v], text |-> file])
  /\ Begins
  /\ UNCHANGED <<file, check, checkOpen>>

\* mutant: the text is the one of the section alone
LoadFile_Section(e) ==
  /\ edit[e].pc = "load"
  /\ Proceeds(e, IF file = Torn THEN NoEdit
                 ELSE [edit[e] EXCEPT !.pc = "opencheck", !.text = Edited(Empty, edit[e].change)])
  /\ UNCHANGED <<file, check, checkOpen, ghostVars>>

\* then config.Load, for what is checked.
LoadFile(e) ==
  /\ edit[e].pc = "load"
  /\ Proceeds(e, IF file = Torn THEN NoEdit
                 ELSE [edit[e] EXCEPT !.pc = "opencheck", !.text = Edited(@, edit[e].change)])
  /\ UNCHANGED <<file, check, checkOpen, ghostVars>>

\* os.WriteFile of path.check, in its two calls; what was removed in between is written
\* to no purpose.
OpenCheck(e) ==
  /\ edit[e].pc = "opencheck"
  /\ check' = [there |-> TRUE, text |-> Empty]
  /\ checkOpen' = {e} \cup (IF check.there THEN checkOpen ELSE {})
  /\ Proceeds(e, [edit[e] EXCEPT !.pc = "writecheck"])
  /\ UNCHANGED <<file, ghostVars>>

WriteCheck(e) ==
  /\ edit[e].pc = "writecheck"
  /\ IF check.there /\ e \in checkOpen
     THEN \E text \in Over(check.text, edit[e].text) : check' = [check EXCEPT !.text = text]
     ELSE UNCHANGED check
  /\ checkOpen' = checkOpen \ {e}
  /\ Proceeds(e, [edit[e] EXCEPT !.pc = "loadcheck"])
  /\ UNCHANGED <<file, ghostVars>>

\* config.Load of path.check; a file that is not there loads as the defaults.
LoadCheck(e) ==
  /\ edit[e].pc = "loadcheck"
  /\ Proceeds(e, [pc |-> "remove", change |-> edit[e].change, text |-> edit[e].text,
                  loads |-> ~check.there \/ check.text # Torn])
  /\ UNCHANGED <<file, check, checkOpen, ghostVars>>

RemoveCheck(e) ==
  /\ edit[e].pc = "remove"
  /\ check' = [there |-> FALSE, text |-> Empty]
  /\ Proceeds(e, IF edit[e].loads
                 THEN [pc |-> "truncate", change |-> edit[e].change, text |-> edit[e].text]
                 ELSE NoEdit)
  /\ UNCHANGED <<file, checkOpen, ghostVars>>

\* handleConfigPut validates its text in a file of its own.
PutBegins(e) ==
  /\ edit[e] = NoEdit
  /\ \E text \in Whole \ {Empty} : Proceeds(e, [pc |-> "truncate", change |-> text, text |-> text])
  /\ Begins
  /\ UNCHANGED <<file, check, checkOpen>>

\* os.WriteFile of the file itself, in its two calls; the edit is acknowledged, or the
\* write fails.
Truncate(e) ==
  /\ edit[e].pc = "truncate"
  /\ file' = Empty
  /\ Proceeds(e, [edit[e] EXCEPT !.pc = "write"])
  /\ UNCHANGED <<check, checkOpen, ghostVars>>

WriteFile(e) ==
  /\ edit[e].pc = "write"
  /\ file' \in Over(file, edit[e].text)
  /\ want' = Edited(want, edit[e].change) /\ lastAck' = edit[e].change
  /\ Proceeds(e, NoEdit)
  /\ UNCHANGED <<check, checkOpen, overlap, failed>>

WriteFails(e) ==
  /\ edit[e].pc = "write"
  /\ failed' = TRUE
  /\ Proceeds(e, NoEdit)
  /\ UNCHANGED <<file, check, checkOpen, want, lastAck, overlap>>

-----------------------------------------------------------------------------
\* The process dies; path.check stays behind.
EditorsCrash ==
  /\ edit' = [e \in Editor |-> NoEdit] /\ checkOpen' = {}
  /\ failed' = (failed \/ \E e \in Editor : edit[e].pc = "write")
  /\ UNCHANGED <<file, check, want, lastAck, overlap>>

EditorStep(e) ==
  \/ \E s \in Patched, v \in Value : PatchBegins(e, s, v)
  \/ LoadFile(e) \/ OpenCheck(e) \/ WriteCheck(e) \/ LoadCheck(e) \/ RemoveCheck(e)
  \/ PutBegins(e) \/ Truncate(e) \/ WriteFile(e) \/ WriteFails(e)

EditorsNext == (\E e \in Editor : EditorStep(e)) \/ EditorsCrash

EditorsSpec == EditorsInit /\ [][EditorsNext]_editorsVars

-----------------------------------------------------------------------------
\* What edits without a lock can promise. When none is under way and none has failed, the
\* file has all that the last acknowledged one set, whoever it overlapped, unless two
\* writes have torn the file; and an edit that overlapped no other has kept all the rest.
EditsKept ==
  Quiet /\ ~failed =>
    /\ file # Torn => \A s \in DOMAIN lastAck : file[s] = lastAck[s]
    /\ ~overlap => file = want

\* What the tests of the handlers expect of an acknowledged edit: the file has it.
AckedKept == Quiet /\ ~failed => file = want
=============================================================================
