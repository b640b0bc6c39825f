------------------------------- MODULE Pipeline -------------------------------
(***************************************************************************)
(* `signal-flow pipeline run`: harvest every source, synthesize, notify,   *)
(* log (internal/pipeline/pipeline.go, runlog.go).  Processes started by   *)
(* the timer and by hand share only the run log, a file each appends one   *)
(* line to and pipeline_status reads.  What is harvested and synthesized   *)
(* is the business of the injected functions; here only whether they fail  *)
(* and how much they report.                                               *)
(***************************************************************************)
EXTENDS Integers, Sequences, FiniteSets

CONSTANTS
  Processes,
  Sources,      \* Pipeline.Sources
  Configs,      \* how runs may be configured
  MaxFound,     \* bound: signals one harvest reports
  MaxRuns       \* bound: runs started

\* Whether Pipeline has FailFast set, a Notifier and a RunLogPath.
Config == [failFast : BOOLEAN, hasNotifier : BOOLEAN, hasRunLog : BOOLEAN]

ASSUME PipelineAssumption ==
  /\ Configs \subseteq Config
  /\ IsFiniteSet(Sources)
  /\ Sources \cap {"synthesize", "notify"} = {}
  /\ MaxFound \in Nat /\ MaxRuns \in Nat

RunIds == 1 .. MaxRuns

VARIABLES
  started,   \* runs started so far; they are numbered
  config,    \* how each run is configured
  at,        \* the call each process makes next
  run,       \* the run it makes; 0 for none
  left,      \* sources it has not harvested yet
  found,     \* totalSignals
  status,    \* PipelineRun.Status
  notify,    \* PipelineRun.NotifyStatus
  file,      \* the run log: what each write left of a record
  \* Observers, per run.
  failures,  \* phases that failed
  distilled, \* signals Synthesize reported
  delivered, \* the digests that reached the channel
  fate       \* whether it was killed, or WriteRunLog failed

locals == <<at, run, left, found, status, notify>>
observers == <<failures, distilled, delivered, fate>>
vars == <<started, config, locals, file, observers>>

Unstarted == [failFast |-> TRUE, hasNotifier |-> TRUE, hasRunLog |-> TRUE]

\* A write leaves a whole line, one without its newline, or a part of one.
Pieces == {"line", "unended", "part"}

Entry == [run : RunIds, status : {"ok", "partial", "error"},
          notify : {"", "sent", "error", "skipped"}, piece : Pieces]

Init ==
  /\ started = 0
  /\ at = [p \in Processes |-> "idle"]
  /\ run = [p \in Processes |-> 0]
  /\ config = [n \in RunIds |-> Unstarted]
  /\ left = [p \in Processes |-> {}]
  /\ found = [p \in Processes |-> 0]
  /\ status = [p \in Processes |-> "ok"]
  /\ notify = [p \in Processes |-> ""]
  /\ file = <<>>
  /\ failures = [n \in RunIds |-> {}]
  /\ distilled = [n \in RunIds |-> 0]
  /\ delivered = {}
  /\ fate = [n \in RunIds |-> "fine"]

------------------------------------------------------------------------------
Goto(p, step) == at' = [at EXCEPT ![p] = step]

SetStatus(p, s) == status' = [status EXCEPT ![p] = s]

SetNotify(p, s) == notify' = [notify EXCEPT ![p] = s]

Failed(p, phase) == failures' = [failures EXCEPT ![run[p]] = @ \cup {phase}]

Start(p, c) ==
  /\ at[p] = "idle"
  /\ started < MaxRuns
  /\ started' = started + 1
  /\ run' = [run EXCEPT ![p] = started + 1]
  /\ config' = [config EXCEPT ![started + 1] = c]
  /\ Goto(p, "harvest")
  /\ left' = [left EXCEPT ![p] = Sources]
  /\ UNCHANGED <<found, status, notify, file, observers>>

\* Phase 1 takes the sources in the order of the configuration.
NextSource(p, s) ==
  /\ at[p] = "harvest"
  /\ s \in left[p]
  /\ left' = [left EXCEPT ![p] = @ \ {s}]
  /\ UNCHANGED <<started, config, run, notify, file, distilled, delivered, fate>>

Harvest(p, s, n) ==
  /\ NextSource(p, s)
  /\ found' = [found EXCEPT ![p] = @ + n]
  /\ UNCHANGED <<at, status, failures>>

\* Mutant of HarvestFails: FailFast is not looked at.
HarvestFailsSlowly(p, s) ==
  /\ NextSource(p, s)
  /\ Failed(p, s)
  /\ UNCHANGED <<at, status, found>>

HarvestFails(p, s) ==
  /\ NextSource(p, s)
  /\ Failed(p, s)
  /\ IF config[run[p]].failFast THEN SetStatus(p, "error") /\ Goto(p, "log")
                 ELSE UNCHANGED <<status, at>>
  /\ UNCHANGED found

\* Mutant of Harvested: harvest again until there is something.
HarvestedAgain(p) ==
  /\ at[p] = "harvest"
  /\ left[p] = {}
  /\ IF found[p] > 0
     THEN Goto(p, "synthesize") /\ UNCHANGED left
     ELSE left' = [left EXCEPT ![p] = Sources] /\ UNCHANGED at
  /\ UNCHANGED <<started, config, run, found, status, notify, file, observers>>

\* What Run concludes from the harvests.
Harvested(p) ==
  /\ at[p] = "harvest"
  /\ left[p] = {}
  /\ LET errors == failures[run[p]] IN
       IF errors = Sources /\ Sources # {}
       THEN /\ SetStatus(p, "error")
            /\ Goto(p, "log")
            /\ UNCHANGED notify
       ELSE /\ SetStatus(p, IF errors # {} THEN "partial" ELSE "ok")
            /\ IF found[p] > 0
               THEN Goto(p, "synthesize") /\ UNCHANGED notify
               ELSE Goto(p, "log") /\ SetNotify(p, "skipped")
  /\ UNCHANGED <<started, config, run, left, found, file, observers>>

Synthesized(p) ==
  /\ at[p] = "synthesize"
  /\ Goto(p, IF config[run[p]].hasNotifier THEN "notify" ELSE "log")
  /\ UNCHANGED <<started, config, run, left, found, notify, file, delivered, fate>>

Synthesize(p, n) ==
  /\ Synthesized(p)
  /\ distilled' = [distilled EXCEPT ![run[p]] = n]
  /\ UNCHANGED <<status, failures>>

\* Mutant of SynthesizeFails: a status of its own.
SynthesizeFailsAlone(p) ==
  /\ Synthesized(p)
  /\ SetStatus(p, "failed")
  /\ Failed(p, "synthesize")
  /\ UNCHANGED distilled

SynthesizeFails(p) ==
  /\ Synthesized(p)
  /\ SetStatus(p, "partial")
  /\ Failed(p, "synthesize")
  /\ UNCHANGED distilled

Notified(p) ==
  /\ at[p] = "notify"
  /\ Goto(p, "log")
  /\ UNCHANGED <<started, config, run, left, found, file, distilled, fate>>

Notify(p) ==
  /\ Notified(p)
  /\ SetNotify(p, "sent")
  /\ delivered' = delivered \cup {run[p]}
  /\ UNCHANGED <<status, failures>>

\* Mutants of NotifyFails: the status stays; the notification counts as sent.
NotifyFailsUnseen(p) ==
  /\ Notified(p)
  /\ SetNotify(p, "error")
  /\ Failed(p, "notify")
  /\ UNCHANGED <<status, delivered>>

NotifyFailsAsSent(p) ==
  /\ Notified(p)
  /\ SetNotify(p, "sent")
  /\ Failed(p, "notify")
  /\ UNCHANGED <<status, delivered>>

\* The webhook answers with an error, or too late: the digest may be out.
NotifyFails(p) ==
  /\ Notified(p)
  /\ SetNotify(p, "error")
  /\ SetStatus(p, IF status[p] = "ok" THEN "partial" ELSE status[p])
  /\ Failed(p, "notify")
  /\ delivered' \in {delivered, delivered \cup {run[p]}}

------------------------------------------------------------------------------
(***************************************************************************)
(* The run log.                                                            *)
(***************************************************************************)
Write(p, piece) ==
  file' = Append(file, [run |-> run[p], status |-> status[p],
                        notify |-> notify[p], piece |-> piece])

\* The process ends, and with it the locals of Run.
Return(p) ==
  /\ Goto(p, "idle")
  /\ left' = [left EXCEPT ![p] = {}]
  /\ found' = [found EXCEPT ![p] = 0]
  /\ SetStatus(p, "ok")
  /\ SetNotify(p, "")
  /\ run' = [run EXCEPT ![p] = 0]
  /\ UNCHANGED <<started, config, failures, distilled, delivered>>

\* Mutant of Log: the early returns of Run leave without it.
LogAtTheEndOnly(p) ==
  /\ at[p] = "log"
  /\ IF config[run[p]].hasRunLog /\ status[p] # "error"
     THEN Write(p, "line")
     ELSE UNCHANGED file
  /\ UNCHANGED fate
  /\ Return(p)

\* writeLog.  O_APPEND makes one write of a whole line one step.
Log(p) ==
  /\ at[p] = "log"
  /\ IF config[run[p]].hasRunLog THEN Write(p, "line") ELSE UNCHANGED file
  /\ UNCHANGED fate
  /\ Return(p)

\* A full disk, or a crash of the machine, cuts the write short: it goes straight
\* to the log, and to no .tmp before.
LogFails(p) ==
  /\ at[p] = "log"
  /\ config[run[p]].hasRunLog
  /\ Write(p, "part") \/ Write(p, "unended") \/ UNCHANGED file
  /\ fate' = [fate EXCEPT ![run[p]] = "unlogged"]
  /\ Return(p)

\* The process is killed: its run is nowhere to be seen.
Kill(p) ==
  /\ at[p] # "idle"
  /\ fate' = [fate EXCEPT ![run[p]] = "killed"]
  /\ Return(p)
  /\ UNCHANGED file

\* ReadRunLog's verdict on the file: a record is appended to whatever an
\* unended write left, and one line that is not one record fails the reading.
IsReadable(f) ==
  \A i \in 1 .. Len(f) :
    f[i].piece # "part" /\ (i < Len(f) => f[i].piece = "line")

------------------------------------------------------------------------------
Run(p) ==
  \/ \E s \in Sources : HarvestFails(p, s) \/ \E n \in 0 .. MaxFound : Harvest(p, s, n)
  \/ Harvested(p)
  \/ \E n \in 0 .. found[p] : Synthesize(p, n)
  \/ SynthesizeFails(p)
  \/ Notify(p)
  \/ NotifyFails(p)
  \/ Log(p)
  \/ LogFails(p)

Next ==
  \E p \in Processes : (\E c \in Configs : Start(p, c)) \/ Run(p) \/ Kill(p)

Spec == Init /\ [][Next]_vars

\* Every injected function returns.
FairSpec == Spec /\ \A p \in Processes : WF_vars(Run(p))

------------------------------------------------------------------------------
TypeOK ==
  /\ started \in 0 .. MaxRuns
  /\ at \in [Processes -> {"idle", "harvest", "synthesize", "notify", "log"}]
  /\ run \in [Processes -> 0 .. MaxRuns]
  /\ config \in [RunIds -> Config]
  /\ left \in [Processes -> SUBSET Sources]
  /\ found \in [Processes -> Nat]
  /\ status \in [Processes -> {"ok", "partial", "error"}]
  /\ notify \in [Processes -> {"", "sent", "error", "skipped"}]
  /\ file \in Seq(Entry)
  /\ failures \in [RunIds -> SUBSET (Sources \cup {"synthesize", "notify"})]
  /\ distilled \in [RunIds -> Nat]
  /\ delivered \subseteq RunIds
  /\ fate \in [RunIds -> {"fine", "killed", "unlogged"}]

Records == {file[i] : i \in 1 .. Len(file)}

\* What a run stops for.
Fatal(n) ==
  \/ config[n].failFast /\ failures[n] \cap Sources # {}
  \/ Sources # {} /\ Sources \subseteq failures[n]

StatusFits(s, n) ==
  /\ s = "ok" <=> failures[n] = {}
  /\ s = "error" <=> Fatal(n)

NotifyFits(s, n) ==
  /\ s = "sent" => n \in delivered
  /\ s \in {"", "skipped"} => n \notin delivered

\* The status of a logged run tells what went wrong in it, in whichever phases
\* it did: nothing, something, or what the run stopped for.
StatusIsHonest == \A e \in Records : StatusFits(e.status, e.run)

\* A run that stops for its harvests spends no LLM calls and sends no digest, in
\* every order of failing and working sources.
StoppedRunsAreQuiet ==
  \A n \in RunIds : Fatal(n) => distilled[n] = 0 /\ n \notin delivered

\* What a record says was sent was sent, and what it says was skipped was not.
NotificationIsHonest == \A e \in Records : NotifyFits(e.notify, e.run)

\* A run that is over has one whole line in the run log, whichever of its three
\* returns it took, unless it was killed or its own write failed; and nothing but a
\* failed write makes the log unreadable, not the appends of other processes and not
\* a kill.  (A failed write does: the write is not the atomic one of its comment.)
IsOver(n) == n <= started /\ \A p \in Processes : run[p] # n

Lines(n) == {i \in 1 .. Len(file) : file[i].run = n /\ file[i].piece = "line"}

RecordsKept ==
  /\ \A n \in RunIds :
       IsOver(n) /\ config[n].hasRunLog /\ fate[n] = "fine" => Cardinality(Lines(n)) = 1
  /\ (\A n \in RunIds : fate[n] # "unlogged") => IsReadable(file)

\* What makes the records honest by induction: each process has a run of its own;
\* nothing is known of runs to come, and nothing more happens to logged ones; and
\* a run knows at each phase what has failed so far.
RunsApart ==
  /\ \A p \in Processes : (at[p] = "idle" <=> run[p] = 0) /\ run[p] <= started
  /\ \A p, q \in Processes : run[p] # 0 /\ run[p] = run[q] => p = q

FreshRuns ==
  \A n \in RunIds :
    n > started => failures[n] = {} /\ distilled[n] = 0 /\ n \notin delivered

RecordedAreOver ==
  \A e \in Records : e.run <= started /\ \A p \in Processes : run[p] # e.run

InHarvest(p) ==
  /\ status[p] = "ok" /\ notify[p] = ""
  /\ failures[run[p]] \subseteq Sources \ left[p]
  /\ config[run[p]].failFast => failures[run[p]] = {}
  /\ distilled[run[p]] = 0 /\ run[p] \notin delivered

PastHarvest(p) ==
  /\ ~ Fatal(run[p])
  /\ StatusFits(status[p], run[p])
  /\ notify[p] = "" /\ run[p] \notin delivered

PhaseKnown(p) ==
  /\ at[p] = "idle" => status[p] = "ok" /\ notify[p] = ""
  /\ at[p] = "harvest" => InHarvest(p)
  /\ at[p] = "synthesize" => PastHarvest(p) /\ distilled[run[p]] = 0
  /\ at[p] = "notify" => PastHarvest(p)
  /\ at[p] = "log" => StatusFits(status[p], run[p]) /\ NotifyFits(notify[p], run[p])

PhasesKnown == \A p \in Processes : PhaseKnown(p)

InductiveInvariant ==
  /\ TypeOK
  /\ StatusIsHonest
  /\ StoppedRunsAreQuiet
  /\ NotificationIsHonest
  /\ RunsApart
  /\ FreshRuns
  /\ RecordedAreOver
  /\ PhasesKnown

\* A run ends, whatever fails in it.
RunsEnd == \A p \in Processes : at[p] # "idle" ~> at[p] = "idle"
==============================================================================
