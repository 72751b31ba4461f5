---------------------------- MODULE ModelManager ----------------------------
(***************************************************************************)
(* The model manager (internal/model/config.go): the snapshot of           *)
(* models.toml that turns take, its load at the start and its reload by    *)
(* the goroutine that polls the file's modification time; and the people   *)
(* and programs that change the file meanwhile.                            *)
(*                                                                         *)
(* A file is saved in place, in two writes between which it is empty, or   *)
(* renamed over the old one with a modification time of its own.  A tick   *)
(* of the clock is the resolution of modification times.                   *)
(***************************************************************************)
EXTENDS Integers

CONSTANTS
    Setting,        \* base URL, model name and key variable of a provider
    Blank,          \* a value that is absent or blank
    DefaultOllama, DefaultOpenAI,   \* the built-in settings
    NoFile,         \* there is no such file
    BadText,        \* its text is not TOML
    Text,           \* the configurations that get saved
    MaxSaves,       \* bound: how often the file is changed
    MaxReadFaults,  \* bound: how often it cannot be read
    MaxTime         \* bound: the clock stops here

RawConfig == [provider : {"ollama", "openai", "unknown", Blank},
              ollama : Setting \cup {Blank}, openai : Setting \cup {Blank}]

EmptyText == [provider |-> Blank, ollama |-> Blank, openai |-> Blank]

ASSUME ManagerAssumption ==
    /\ {DefaultOllama, DefaultOpenAI} \subseteq Setting
    /\ Text \subseteq RawConfig
    /\ {NoFile, BadText} \cap RawConfig = {}
    /\ MaxSaves \in Nat /\ MaxReadFaults \in Nat /\ MaxTime \in Nat

VARIABLES
    now,            \* the clock of the file system
    file,           \* models.toml: its text and its modification time
    saving,         \* what an editor has yet to write into the emptied file
    watch,          \* Manager.watch
    current,        \* Manager.current
    version,        \* Manager.version
    at,             \* where Start and watchLoop stand
    raw,            \* the configuration reload has read
    lastMod,        \* the modification time watchLoop has noted, 0 for none
    saves, readFaults,  \* how often the file was changed, and could not be read
    peak,           \* history: the latest modification time there has been
    fresh           \* history: the last change of the file set a later time than
                    \* all before, and no reload of that time failed to read it

editor  == <<now, file, saving, saves, peak>>
snapshot == <<current, version>>
managerVars == <<editor, watch, snapshot, at, raw, lastMod, readFaults, fresh>>

Place == {"new", "boot", "bootRead", "watching", "noted", "read", "off"}

\* Start has returned.
Started == at \notin {"new", "boot", "bootRead"}

-----------------------------------------------------------------------------
(* From a text to a model *)

\* normalizeRaw and resolve, of what the text has laid over the defaults.
OrDefault_AsIs(value, default) == value
OrDefault(value, default) == IF value = Blank THEN default ELSE value

Resolve(text) ==
    IF text.provider = "openai"
    THEN [provider |-> "openai", setting |-> OrDefault(text.openai, DefaultOpenAI)]
    ELSE [provider |-> "ollama", setting |-> OrDefault(text.ollama, DefaultOllama)]

Model == [provider : {"ollama", "openai"}, setting : Setting]
DefaultModel == [provider |-> "ollama", setting |-> DefaultOllama]

\* The empty text is a TOML document, too: it resolves to the defaults.
Parses(text) == text \notin {NoFile, BadText}

-----------------------------------------------------------------------------
(* Start, reload and watchLoop *)

ManagerInit ==
    /\ now = 1 /\ saving = NoFile
    /\ file \in [text : Text \cup {NoFile, BadText}, mtime : {1}]
    /\ watch \in BOOLEAN
    /\ current = [version |-> 0, model |-> DefaultModel] /\ version = 1
    /\ at = "new" /\ raw = EmptyText /\ lastMod = 0
    /\ saves \in 0..MaxSaves /\ readFaults = 0
    /\ peak = 1 /\ fresh = TRUE

Goto(from, to) == at = from /\ at' = to

AfterBoot == IF watch THEN "watching" ELSE "off"

Start ==
    /\ Goto("new", "boot")
    /\ UNCHANGED <<editor, snapshot, raw, lastMod, readFaults, fresh>>

\* reload, called by Start and by watchLoop: read the file ...
Read ==
    /\ Parses(file.text)
    /\ Goto("boot", "bootRead") \/ Goto("noted", "read")
    /\ raw' = file.text
    /\ UNCHANGED <<editor, watch, snapshot, lastMod, readFaults, fresh>>

\* ... or keep the previous snapshot, because it is missing or is no TOML ...
Keep ==
    /\ ~Parses(file.text)
    /\ Goto("boot", AfterBoot) \/ Goto("noted", "watching")
    /\ UNCHANGED <<editor, watch, snapshot, raw, lastMod, readFaults, fresh>>

\* ... or because reading fails ...
ReadFails ==
    /\ readFaults < MaxReadFaults /\ readFaults' = readFaults + 1
    /\ Goto("boot", AfterBoot) \/ Goto("noted", "watching")
    /\ fresh' = (fresh /\ at = "boot")
    /\ UNCHANGED <<editor, watch, snapshot, raw, lastMod>>

\* ... and publish what was read, as a whole and under a version of its own.
NextVersion_Kept == version
NextVersion == version + 1

Publish ==
    /\ Goto("bootRead", AfterBoot) \/ Goto("read", "watching")
    /\ current' = [version |-> version, model |-> Resolve(raw)]
    /\ version' = NextVersion
    /\ UNCHANGED <<editor, watch, raw, lastMod, readFaults, fresh>>

\* A tick of watchLoop that finds a later modification time notes it before the
\* reload; a tick that finds none changes nothing.
Noted_ClockTime == now
Noted == file.mtime

Stat ==
    /\ Goto("watching", "noted")
    /\ file.text # NoFile /\ file.mtime > lastMod
    /\ lastMod' = Noted
    /\ UNCHANGED <<editor, watch, snapshot, raw, readFaults, fresh>>

\* Stop, and the end of the process.
Stop ==
    /\ at' = "off"
    /\ UNCHANGED <<editor, watch, snapshot, raw, lastMod, readFaults, fresh>>

Reloads == Read \/ Keep \/ Publish

-----------------------------------------------------------------------------
(* The file *)

Becomes(text, mtime) ==
    /\ file' = [text |-> text, mtime |-> mtime]
    /\ fresh' = (mtime > peak)
    /\ peak' = IF mtime > peak THEN mtime ELSE peak
    /\ UNCHANGED <<now, watch, snapshot, at, raw, lastMod, readFaults>>

Save == saves < MaxSaves /\ saves' = saves + 1 /\ saving = NoFile

Truncate(text) == Save /\ Becomes(EmptyText, now) /\ saving' = text
Fill == saving # NoFile /\ Becomes(saving, now) /\ saving' = NoFile /\ UNCHANGED saves
Replace(text) == Save /\ (\E m \in 1..now : Becomes(text, m)) /\ UNCHANGED saving
Remove == Save /\ Becomes(NoFile, 0) /\ UNCHANGED saving

\* Without a change to come the clock is of no interest.
Tick ==
    /\ saves < MaxSaves \/ saving # NoFile
    /\ now < MaxTime /\ now' = now + 1
    /\ UNCHANGED <<file, saving, saves, peak, watch, snapshot, at, raw, lastMod,
                   readFaults, fresh>>

Edits ==
    \/ \E text \in Text \cup {BadText} : Truncate(text) \/ Replace(text)
    \/ Fill \/ Remove \/ Tick

-----------------------------------------------------------------------------
(* Properties *)

\* Types of the file, of the snapshot and of the reload's locals.
ManagerTypeOK ==
    /\ now \in Nat /\ watch \in BOOLEAN
    /\ file \in [text : RawConfig \cup {NoFile, BadText}, mtime : Nat]
    /\ saving \in Text \cup {BadText, NoFile}
    /\ current \in [version : Nat, model : Model] /\ version \in Nat
    /\ at \in Place /\ raw \in RawConfig /\ lastMod \in Nat
    /\ saves \in Nat /\ readFaults \in Nat
    /\ peak \in Nat /\ fresh \in BOOLEAN

\* While it watches, the manager ends up with the model of a file that parses and whose
\* last change has a later time than all before, although it notes that time before
\* it reads and reads while the file is being written.
CatchesUp ==
    <>[](watch /\ at # "off" /\ Started /\ fresh /\ Parses(file.text)
            => current.model = Resolve(file.text))

\* The promise of the manager to the turns.
Snapshots == INSTANCE ModelSnapshots

ImplementsModelSnapshots == Snapshots!Spec

=============================================================================
