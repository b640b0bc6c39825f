------------------------------- MODULE Settings -------------------------------
(***************************************************************************)
(* config.json (internal/config).  A command reads the whole file, changes *)
(* one setting and writes the whole file: to config.json.tmp, which every  *)
(* command shares, and then over config.json by renaming it.  A command    *)
(* that still has the temporary file open writes wherever it is by then.   *)
(***************************************************************************)
CONSTANTS
  Commands,
  Keys,      \* settings: an account's alias, its client, a domain's client, a value
  Values,
  Unset,
  NoFile, TornFile  \* two more contents of a file

Configs == [Keys -> Values \cup {Unset}]

ASSUME SettingsAssumption ==
  /\ Unset \notin Values
  /\ NoFile # TornFile /\ {NoFile, TornFile} \cap Configs = {}

VARIABLES
  config,     \* what config.json holds
  tmp,        \* what config.json.tmp holds
  does,       \* what each command does next
  change,     \* the setting it changes and to what; <<>> when idle
  cfg,        \* the settings it has read and changed
  file,       \* where the file it opened is: "tmp", "config", or "gone"
  overlapped  \* observer: the commands at work that have met another

settingsLocals == <<does, change, cfg, file, overlapped>>
settingsVars == <<config, tmp, settingsLocals>>

NoSettings == [k \in Keys |-> Unset]

SettingsInit ==
  /\ config = NoFile /\ tmp = NoFile
  /\ does = [p \in Commands |-> "idle"]
  /\ change = [p \in Commands |-> <<>>]
  /\ cfg = [p \in Commands |-> NoSettings]
  /\ file = [p \in Commands |-> "gone"]
  /\ overlapped = {}
------------------------------------------------------------------------------
Proceed(p, step) == does' = [does EXCEPT ![p] = step]

Content(f) == IF f = NoFile THEN NoSettings ELSE f

Update(s, k, v) == [s EXCEPT ![k] = v]

AtWork == {p \in Commands : does[p] # "idle"}

\* ReadConfig, which fails on a torn file, and the change of one setting.  A
\* setting that is not there is not removed.
Change(p, k, v) ==
  /\ does[p] = "idle"
  /\ config # TornFile
  /\ v = Unset => Content(config)[k] # Unset
  /\ Proceed(p, "open")
  /\ change' = [change EXCEPT ![p] = <<k, v>>]
  /\ cfg' = [cfg EXCEPT ![p] = Update(Content(config), k, v)]
  /\ overlapped' = IF AtWork = {} THEN overlapped ELSE overlapped \cup AtWork \cup {p}
  /\ UNCHANGED <<config, tmp, file>>

\* Mutant of OpenTmp: config.json itself is opened.
OpenConfig(p) ==
  /\ does[p] = "open"
  /\ config' = TornFile
  /\ file' = [file EXCEPT ![p] = "config"]
  /\ Proceed(p, "write")
  /\ UNCHANGED <<tmp, change, cfg, overlapped>>

OpenTmp(p) ==
  /\ does[p] = "open"
  /\ tmp' = TornFile
  /\ file' = [file EXCEPT ![p] = "tmp"]
  /\ Proceed(p, "write")
  /\ UNCHANGED <<config, change, cfg, overlapped>>

\* Over what another wrote there meanwhile, the end of which may stay.
Written(p, was, is) == is = cfg[p] \/ (is = TornFile /\ was # TornFile)

\* Mutant of WriteTmp: the file is not closed.
WriteTmpUnclosed(p) ==
  /\ does[p] = "write"
  /\ IF file[p] = "tmp" THEN Written(p, tmp, tmp') ELSE UNCHANGED tmp
  /\ IF file[p] = "config" THEN Written(p, config, config') ELSE UNCHANGED config
  /\ Proceed(p, "rename")
  /\ UNCHANGED <<file, change, cfg, overlapped>>

WriteTmp(p) ==
  /\ does[p] = "write"
  /\ IF file[p] = "tmp" THEN Written(p, tmp, tmp') ELSE UNCHANGED tmp
  /\ IF file[p] = "config" THEN Written(p, config, config') ELSE UNCHANGED config
  /\ Proceed(p, "rename")
  /\ file' = [file EXCEPT ![p] = "gone"]
  /\ UNCHANGED <<change, cfg, overlapped>>

Finish(p) ==
  /\ Proceed(p, "idle")
  /\ change' = [change EXCEPT ![p] = <<>>]
  /\ cfg' = [cfg EXCEPT ![p] = NoSettings]
  /\ overlapped' = overlapped \ {p}

RenameTmp(p) ==
  /\ does[p] = "rename"
  /\ tmp # NoFile
  /\ config' = tmp
  /\ tmp' = NoFile
  /\ file' = [q \in Commands |-> IF file[q] = "tmp" THEN "config" ELSE "gone"]
  /\ Finish(p)

\* A step fails, among them the renaming of what another has renamed, or the
\* command is killed.  The temporary file stays.
Abandon(p) ==
  /\ does[p] # "idle"
  /\ file' = [file EXCEPT ![p] = "gone"]
  /\ Finish(p)
  /\ UNCHANGED <<config, tmp>>

\* No command can repair a torn file: the user removes it.
Repair ==
  /\ config = TornFile
  /\ config' = NoFile
  /\ file' = [q \in Commands |-> IF file[q] = "tmp" THEN "tmp" ELSE "gone"]
  /\ UNCHANGED <<tmp, does, change, cfg, overlapped>>

SettingsNext ==
  \/ \E p \in Commands :
       \/ \E k \in Keys, v \in Values \cup {Unset} : Change(p, k, v)
       \/ OpenTmp(p) \/ WriteTmp(p) \/ RenameTmp(p) \/ Abandon(p)
  \/ Repair

SettingsSpec == SettingsInit /\ [][SettingsNext]_settingsVars

------------------------------------------------------------------------------
SettingsTypeOK ==
  /\ config \in Configs \cup {NoFile, TornFile}
  /\ tmp \in Configs \cup {NoFile, TornFile}
  /\ does \in [Commands -> {"idle", "open", "write", "rename"}]
  /\ change \in [Commands -> {<<>>} \cup (Keys \X (Values \cup {Unset}))]
  /\ cfg \in [Commands -> Configs]
  /\ file \in [Commands -> {"tmp", "config", "gone"}]
  /\ overlapped \subseteq AtWork
  /\ \A p \in Commands : file[p] # "gone" => does[p] = "write"

\* A command that met no other changes config.json once, at the end, by its own
\* setting alone: a reader never finds a part of a file, nor a command killed
\* half way, and what killed commands left in the temporary file never comes back.
UpdatesStand ==
  [][\A p \in Commands \ overlapped :
       does'[p] # does[p] /\ config' # config =>
         /\ does[p] = "rename"
         /\ config' = Update(Content(config), change[p][1], change[p][2])]_settingsVars
==============================================================================
