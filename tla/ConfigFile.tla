------------------------------ MODULE ConfigFile ------------------------------
(***************************************************************************)
(* The configuration file and its three editors in the admin server: PUT of *)
(* the whole text, and the two that patch the lines of one section, those of *)
(* the feed's target and those of the scheduler.  A patch is text surgery on *)
(* the lines; what a line means is up to the TOML parser, which also decides *)
(* whether the patched text may be written.                                  *)
(*                                                                         *)
(* A line is a section header, with or without a comment behind it, a key    *)
(* with its value, the first line of an array of several lines, or the rest  *)
(* of one.  Comments and blank lines are left out, as are the texts of the   *)
(* values: "bad" is a value that Check refuses, and a key that the file does *)
(* not have takes its default.  One edit is under way at a time.             *)
(***************************************************************************)
EXTENDS Naturals, Sequences, FiniteSets, SequencesExt

CONSTANTS Section, Key, Value, SectionKeys, ConfFiles

Header(sec) == [kind |-> "header", sec |-> sec, note |-> FALSE]
Noted(sec) == [kind |-> "header", sec |-> sec, note |-> TRUE]
Assign(key, val) == [kind |-> "key", key |-> key, val |-> val]
ArrayOpen(key, val) == [kind |-> "open", key |-> key, val |-> val]
ArrayRest == [kind |-> "rest"]

Line == {Header(s) : s \in Section} \cup {Noted(s) : s \in Section} \cup {ArrayRest}
        \cup {Assign(k, v) : k \in Key, v \in Value \cup {"bad"}}
        \cup {ArrayOpen(k, v) : k \in Key, v \in Value \cup {"bad"}}

ASSUME ConfigAssumption ==
  /\ SectionKeys \in [DOMAIN SectionKeys -> SUBSET Key] /\ DOMAIN SectionKeys \subseteq Section
  /\ \A s \in DOMAIN SectionKeys : IsFiniteSet(SectionKeys[s])
  /\ "default" \notin Value /\ "bad" \notin Value /\ "" \notin Section
  /\ ConfFiles \subseteq Seq(Line)

VARIABLES confFile,  \* the lines of the file
          confWant,  \* ghost: the settings that the last acknowledged edit asked for
          strayed    \* ghost: that edit was a patch that took a header for a line of its section

configVars == <<confFile, confWant, strayed>>

-----------------------------------------------------------------------------
\* What the parser (external) makes of the lines.
IsHeader(line) == line.kind = "header"
HasKey(line) == line.kind \in {"key", "open"}

\* the section of line i; the keys before the first header have none
SectionOf(lines, i) ==
  LET above == {j \in 1..i : IsHeader(lines[j])}
  IN  IF above = {} THEN "" ELSE lines[CHOOSE j \in above : \A k \in above : k <= j].sec

WellFormed(lines) ==
  /\ \A i, j \in DOMAIN lines : i # j =>
       /\ ~(IsHeader(lines[i]) /\ IsHeader(lines[j]) /\ lines[i].sec = lines[j].sec)
       /\ ~(HasKey(lines[i]) /\ HasKey(lines[j]) /\ lines[i].key = lines[j].key
            /\ SectionOf(lines, i) = SectionOf(lines, j))
  /\ \A i \in DOMAIN lines :
       /\ lines[i].kind = "open" => i < Len(lines) /\ lines[i + 1] = ArrayRest
       /\ lines[i] = ArrayRest => i > 1 /\ lines[i - 1].kind = "open"

Setting(lines, sec, key) ==
  LET at == {i \in DOMAIN lines : HasKey(lines[i]) /\ lines[i].key = key /\ SectionOf(lines, i) = sec}
  IN  IF at = {} THEN "default" ELSE lines[CHOOSE i \in at : TRUE].val

Settings(lines) == [s \in Section |-> [k \in Key |-> Setting(lines, s, k)]]

\* config.Load and Check
LoadsAndChecks(lines) ==
  /\ WellFormed(lines)
  /\ \A s \in DOMAIN SectionKeys : \A k \in SectionKeys[s] : Settings(lines)[s][k] # "bad"

-----------------------------------------------------------------------------
\* tomlSection: the header itself, and the next header or the end; a header with a
\* comment behind it is neither.
SectionStart(lines, sec) == {i \in DOMAIN lines : lines[i] = Header(sec)}
SectionEnd(lines, start) ==
  LET after == {i \in start + 1..Len(lines) : lines[i] \in {Header(s) : s \in Section}}
  IN  IF after = {} THEN Len(lines) + 1 ELSE CHOOSE i \in after : \A j \in after : i <= j

\* A header with a comment behind it follows in what tomlSection takes for the section:
\* the patch looks for its keys, and adds them, in the next section of the parser too.
NoteInside(lines, sec) ==
  \E start \in SectionStart(lines, sec) : \E i \in start + 1..SectionEnd(lines, start) - 1 :
    lines[i] \in {Noted(s) : s \in Section}

\* the lines of an edit, in the order the code writes them
KeyLines(keys, vals) == SetToSeq({Assign(k, vals[k]) : k \in keys})

\* mutant: the section ends with the file
PatchToEnd(lines, sec, vals) ==
  LET keys == SectionKeys[sec]
      start == CHOOSE i \in SectionStart(lines, sec) : TRUE
      seen == {lines[i].key : i \in {j \in start + 1..Len(lines) : HasKey(lines[j])}}
      new(i) == IF i > start /\ HasKey(lines[i]) /\ lines[i].key \in keys
                THEN Assign(lines[i].key, vals[lines[i].key]) ELSE lines[i]
  IN  IF SectionStart(lines, sec) = {}
      THEN lines \o <<Header(sec)>> \o KeyLines(keys, vals)
      ELSE [i \in DOMAIN lines |-> new(i)] \o KeyLines(keys \ seen, vals)

\* patchAGHManagedTargetConfig, patchAGHManagedSchedulerConfig: the lines of the
\* section that set one of the keys are replaced, the keys without a line are added
\* behind its last line, and a section that is not there is added to the file.
Patched(lines, sec, vals) ==
  LET keys == SectionKeys[sec]
      start == CHOOSE i \in SectionStart(lines, sec) : TRUE
      end == SectionEnd(lines, start)
      inside == start + 1..end - 1
      seen == {lines[i].key : i \in {j \in inside : HasKey(lines[j])}}
      new(i) == IF i \in inside /\ HasKey(lines[i]) /\ lines[i].key \in keys
                THEN Assign(lines[i].key, vals[lines[i].key]) ELSE lines[i]
  IN  IF SectionStart(lines, sec) = {}
      THEN lines \o <<Header(sec)>> \o KeyLines(keys, vals)
      ELSE [i \in 1..end - 1 |-> new(i)] \o KeyLines(keys \ seen, vals)
             \o SubSeq(lines, end, Len(lines))

-----------------------------------------------------------------------------
Wants == [Section -> [Key -> Value \cup {"default", "bad"}]]

ConfigTypeOK ==
  /\ confFile \in Seq(Line)
  /\ confWant \in Wants
  /\ strayed \in BOOLEAN

ConfigInit ==
  /\ confFile \in {f \in ConfFiles : LoadsAndChecks(f)}
  /\ confWant = Settings(confFile) /\ strayed = FALSE

\* os.WriteFile truncates the file and writes it, and then the edit is acknowledged; or
\* the write fails, or the process dies, after the truncation: the file is empty, and a
\* load of it is the defaults.
Writes(lines, want, misread) ==
  \/ confFile' = lines /\ confWant' = want /\ strayed' = misread
  \/ confFile' = <<>> /\ confWant' = Settings(<<>>) /\ strayed' = FALSE

Edited(sec, vals) ==
  [Settings(confFile) EXCEPT
     ![sec] = [k \in Key |-> IF k \in SectionKeys[sec] THEN vals[k] ELSE @[k]]]

\* updateAGHManaged...ConfigFile reads and loads the file, checks the new settings, and
\* loads and checks the patched text from a file of its own; anything else is refused.
Patch(sec, vals) ==
  /\ WellFormed(confFile) /\ \A k \in SectionKeys[sec] : vals[k] # "bad"
  /\ LoadsAndChecks(Patched(confFile, sec, vals))
  /\ Writes(Patched(confFile, sec, vals), Edited(sec, vals), NoteInside(confFile, sec))

\* handleConfigPut
PutConfig(lines) ==
  /\ LoadsAndChecks(lines)
  /\ Writes(lines, Settings(lines), FALSE)

ConfigNext ==
  \/ \E sec \in DOMAIN SectionKeys :
       \E vals \in [SectionKeys[sec] -> Value \cup {"bad"}] : Patch(sec, vals)
  \/ \E lines \in ConfFiles : PutConfig(lines)

ConfigSpec == ConfigInit /\ [][ConfigNext]_configVars

-----------------------------------------------------------------------------
\* After any sequence of edits the file loads, and to the parser it says what the last of
\* them asked for: the keys of an edit have its values, and every other setting of every
\* section is the one it was.  One kind of patch is excepted from the second part: where a
\* header with a comment behind it follows in the section, tomlSection reads on, and the
\* patch may change the keys of another section, or find its own there and leave them out.
PatchCorrect ==
  /\ LoadsAndChecks(confFile)
  /\ ~strayed => Settings(confFile) = confWant

=============================================================================
