---------------------------- MODULE PipelineProofs ----------------------------
(***************************************************************************)
(* Proofs about Pipeline, for any sets of processes and sources, however   *)
(* runs are configured: what the run log says is true, and a run that      *)
(* stopped for its harvests did nothing more.                              *)
(***************************************************************************)
EXTENDS Pipeline, FiniteSetTheorems, TLAPS

\* The bounds as numbers.
LEMMA Bounds ==
  MaxRuns \in Nat /\ 0 \in 0 .. MaxRuns /\ RunIds \subseteq Nat \ {0}
  BY PipelineAssumption DEF PipelineAssumption, RunIds

LEMMA StartedNumber == TypeOK => started \in Nat /\ 0 <= started
<1>1. MaxRuns \in Nat
  BY Bounds
<1>2. TypeOK => started \in 0 .. MaxRuns
  BY DEF TypeOK
<1> QED
  BY <1>1, <1>2

\* What a write leaves in the file.
LEMMA AppendEntry ==
  ASSUME NEW f \in Seq(Entry), NEW x \in Entry
  PROVE  /\ Len(Append(f, x)) = Len(f) + 1
         /\ Append(f, x)[Len(f) + 1] = x
         /\ \A i \in 1 .. Len(f) : Append(f, x)[i] = f[i]
         /\ Len(f) \in Nat /\ Append(f, x) \in Seq(Entry)
  OBVIOUS

\* A write adds its entry to the records.
LEMMA AppendRecords ==
  ASSUME NEW f \in Seq(Entry), NEW x \in Entry
  PROVE  /\ Append(f, x) \in Seq(Entry)
         /\ {Append(f, x)[i] : i \in 1 .. Len(Append(f, x))}
              = {f[i] : i \in 1 .. Len(f)} \cup {x}
<1>1. /\ Len(Append(f, x)) = Len(f) + 1
      /\ Append(f, x)[Len(f) + 1] = x
      /\ \A i \in 1 .. Len(f) : Append(f, x)[i] = f[i]
      /\ Len(f) \in Nat /\ Append(f, x) \in Seq(Entry)
  BY AppendEntry
<1> DEFINE Old == {f[i] : i \in 1 .. Len(f)}
           New == {Append(f, x)[i] : i \in 1 .. Len(Append(f, x))}
<1>2. Old \subseteq New
  BY <1>1
<1>3. x \in New
  BY <1>1
<1>4. ASSUME NEW e \in New PROVE e \in Old \cup {x}
  <2>1. PICK i \in 1 .. Len(f) + 1 : e = Append(f, x)[i]
    BY <1>1
  <2>2. i \in 1 .. Len(f) \/ i = Len(f) + 1
    BY <1>1
  <2> QED BY <1>1, <2>1, <2>2
<1> QED
  BY <1>1, <1>2, <1>3, <1>4

\* A process that is not idle has a run, and nobody else has it.
LEMMA RunOfProcess ==
  ASSUME TypeOK, RunsApart, NEW p \in Processes, at[p] # "idle"
  PROVE  /\ run[p] \in RunIds /\ run[p] <= started
         /\ \A q \in Processes \ {p} : run[q] # run[p]
<1>1. run[p] \in 0 .. MaxRuns /\ run[p] # 0 /\ run[p] <= started
  BY DEF TypeOK, RunsApart
<1>2. run[p] \in RunIds
  BY <1>1, Bounds DEF RunIds
<1>3. \A q \in Processes \ {p} : run[q] # run[p]
  BY <1>1 DEF RunsApart
<1> QED
  BY <1>1, <1>2, <1>3

\* Whether a run had to stop depends on its own failures and configuration.
LEMMA FatalUnchanged ==
  ASSUME NEW n \in RunIds, config'[n] = config[n], failures'[n] = failures[n]
  PROVE  Fatal(n)' <=> Fatal(n)
  BY DEF Fatal

\* The initial state.
LEMMA PipelineInit == Init => InductiveInvariant
<1> SUFFICES ASSUME Init PROVE InductiveInvariant
  OBVIOUS
<1>1. TypeOK
  <2>1. Unstarted \in Config
    BY DEF Unstarted, Config
  <2>2. started \in 0 .. MaxRuns /\ run \in [Processes -> 0 .. MaxRuns]
    <3>1. 0 \in 0 .. MaxRuns
      BY Bounds
    <3> QED BY <3>1 DEF Init
  <2>3. config \in [RunIds -> Config]
    BY <2>1 DEF Init
  <2>4. file \in Seq(Entry)
    <3>1. file = <<>>
      BY DEF Init
    <3> QED BY <3>1
  <2> QED BY <2>2, <2>3, <2>4 DEF Init, TypeOK
<1>2. Records = {}
  <2>1. file = <<>>
    BY DEF Init
  <2> QED BY <2>1 DEF Records
<1>3. StatusIsHonest /\ NotificationIsHonest /\ RecordedAreOver
  BY <1>2 DEF StatusIsHonest, NotificationIsHonest, RecordedAreOver
<1>4. StoppedRunsAreQuiet
  BY DEF Init, StoppedRunsAreQuiet
<1>5. RunsApart
  <2>1. \A p \in Processes : at[p] = "idle" /\ run[p] = 0
    BY DEF Init
  <2>2. started = 0
    BY DEF Init
  <2> QED BY <2>1, <2>2 DEF RunsApart
<1>6. FreshRuns
  BY DEF Init, FreshRuns
<1>7. PhasesKnown
  BY DEF Init, PhasesKnown, PhaseKnown
<1> QED
  BY <1>1, <1>3, <1>4, <1>5, <1>6, <1>7 DEF InductiveInvariant

(***************************************************************************)
(* A step of a run that does not end it touches that run alone, so of the  *)
(* invariant only what is said about it remains to be shown.               *)
(***************************************************************************)
OwnStep(p) ==
  /\ UNCHANGED <<started, config, run, file>>
  /\ at'[p] # "idle"
  /\ \A q \in Processes \ {p} :
       /\ at'[q] = at[q] /\ status'[q] = status[q] /\ notify'[q] = notify[q]
       /\ left'[q] = left[q]
  /\ \A n \in RunIds \ {run[p]} :
       /\ failures'[n] = failures[n] /\ distilled'[n] = distilled[n]
       /\ n \in delivered' <=> n \in delivered

LEMMA OwnStepPreserves ==
  ASSUME InductiveInvariant, NEW p \in Processes, at[p] # "idle", OwnStep(p),
         TypeOK', PhaseKnown(p)',
         Fatal(run[p])' => distilled'[run[p]] = 0 /\ run[p] \notin delivered'
  PROVE  InductiveInvariant'
<1> USE DEF InductiveInvariant
<1>1. /\ run[p] \in RunIds /\ run[p] <= started
      /\ \A q \in Processes \ {p} : run[q] # run[p]
  BY RunOfProcess
<1>2. \A n \in RunIds \ {run[p]} : Fatal(n)' <=> Fatal(n)
  BY FatalUnchanged DEF OwnStep
<1>3. Records' = Records
  BY DEF OwnStep, Records
<1>4. ASSUME NEW e \in Records PROVE e.run \in RunIds \ {run[p]}
  <2>1. PICK i \in 1 .. Len(file) : e = file[i]
    BY DEF Records
  <2>2. file \in Seq(Entry)
    BY DEF TypeOK
  <2>3. e \in Entry
    BY <2>1, <2>2
  <2> QED BY <2>3 DEF Entry, RecordedAreOver
<1>5. StatusIsHonest' /\ NotificationIsHonest'
  BY <1>2, <1>3, <1>4
  DEF OwnStep, StatusIsHonest, NotificationIsHonest, StatusFits, NotifyFits
<1>6. StoppedRunsAreQuiet'
  BY <1>2 DEF OwnStep, StoppedRunsAreQuiet
<1>7. RunsApart'
  <2>1. \A q \in Processes : at'[q] = "idle" <=> at[q] = "idle"
    BY DEF OwnStep
  <2> QED BY <2>1 DEF OwnStep, RunsApart
<1>8. FreshRuns'
  <2>1. started \in Nat
    BY StartedNumber
  <2>2. run[p] \in Nat
    BY <1>1, Bounds
  <2> QED BY <1>1, <2>1, <2>2 DEF OwnStep, FreshRuns, RunIds
<1>9. RecordedAreOver'
  BY <1>3 DEF OwnStep, RecordedAreOver
<1>10. PhasesKnown'
  <2> SUFFICES ASSUME NEW q \in Processes \ {p} PROVE PhaseKnown(q)'
    BY DEF PhasesKnown
  <2>1. CASE at[q] = "idle"
    BY <2>1 DEF OwnStep, PhasesKnown, PhaseKnown
  <2>2. CASE at[q] # "idle"
    <3>1. run[q] \in RunIds \ {run[p]}
      BY <2>2, <1>1, RunOfProcess
    <3>2. Fatal(run[q])' <=> Fatal(run[q])
      <4>1. run' = run
        BY DEF OwnStep
      <4> QED BY <3>1, <1>2, <4>1
    <3>3. PhaseKnown(q)
      BY DEF PhasesKnown
    <3>4. /\ run'[q] = run[q] /\ config' = config
          /\ at'[q] = at[q] /\ status'[q] = status[q] /\ notify'[q] = notify[q]
          /\ left'[q] = left[q]
          /\ failures'[run[q]] = failures[run[q]]
          /\ distilled'[run[q]] = distilled[run[q]]
          /\ run[q] \in delivered' <=> run[q] \in delivered
      BY <3>1 DEF OwnStep
    <3>5. InHarvest(q) => InHarvest(q)'
      BY <3>4 DEF InHarvest
    <3>6. /\ StatusFits(status[q], run[q]) => StatusFits(status[q], run[q])'
          /\ NotifyFits(notify[q], run[q]) => NotifyFits(notify[q], run[q])'
      BY <3>2, <3>4 DEF StatusFits, NotifyFits
    <3>7. PastHarvest(q) => PastHarvest(q)'
      BY <3>2, <3>4, <3>6 DEF PastHarvest
    <3> QED BY <3>3, <3>4, <3>5, <3>6, <3>7 DEF PhaseKnown
  <2> QED BY <2>1, <2>2
<1> QED
  BY <1>5, <1>6, <1>7, <1>8, <1>9, <1>10

\* The later phases are no sources.
LEMMA PhaseIsNoSource == "synthesize" \notin Sources /\ "notify" \notin Sources
  BY PipelineAssumption DEF PipelineAssumption

\* What is known of the process that makes a step.
LEMMA Known ==
  ASSUME InductiveInvariant, NEW p \in Processes, at[p] # "idle"
  PROVE  TypeOK /\ PhaseKnown(p) /\ run[p] \in RunIds
  BY RunOfProcess DEF InductiveInvariant, PhasesKnown

\* A source reports signals.
LEMMA HarvestStep ==
  ASSUME InductiveInvariant, NEW p \in Processes, NEW s \in Sources,
         NEW n \in 0 .. MaxFound, Harvest(p, s, n)
  PROVE  InductiveInvariant'
<1> USE DEF Harvest, NextSource
<1>1. TypeOK /\ run[p] \in RunIds /\ InHarvest(p)
  BY Known DEF PhaseKnown
<1>2. TypeOK'
  <2>1. n \in Nat
    BY Bounds, PipelineAssumption DEF PipelineAssumption
  <2>2. left' \in [Processes -> SUBSET Sources]
    BY <1>1 DEF TypeOK
  <2>3. found' \in [Processes -> Nat]
    <3>1. found \in [Processes -> Nat]
      BY <1>1 DEF TypeOK
    <3> QED BY <2>1, <3>1
  <2> QED BY <1>1, <2>2, <2>3 DEF TypeOK
<1>3. OwnStep(p)
  BY <1>1 DEF OwnStep, TypeOK
<1>4. PhaseKnown(p)'
  <2>1. at'[p] = "harvest" /\ left'[p] = left[p] \ {s}
    BY <1>1 DEF TypeOK
  <2>2. InHarvest(p)'
    BY <1>1, <2>1 DEF InHarvest
  <2> QED BY <2>1, <2>2 DEF PhaseKnown
<1>5. distilled'[run[p]] = 0 /\ run[p] \notin delivered'
  BY <1>1 DEF InHarvest
<1> QED
  BY <1>2, <1>3, <1>4, <1>5, OwnStepPreserves

\* A source fails.
LEMMA HarvestFailsStep ==
  ASSUME InductiveInvariant, NEW p \in Processes, NEW s \in Sources,
         HarvestFails(p, s)
  PROVE  InductiveInvariant'
<1> USE DEF HarvestFails, NextSource, Failed, SetStatus, Goto
<1>1. TypeOK /\ run[p] \in RunIds /\ InHarvest(p)
  BY Known DEF PhaseKnown
<1>2. TypeOK'
  <2>1. left' \in [Processes -> SUBSET Sources]
    BY <1>1 DEF TypeOK
  <2>2. failures' \in [RunIds -> SUBSET (Sources \cup {"synthesize", "notify"})]
    BY <1>1 DEF TypeOK
  <2>3. at' \in [Processes -> {"idle", "harvest", "synthesize", "notify", "log"}]
    <3>1. at' = at \/ at' = [at EXCEPT ![p] = "log"]
      BY DEF HarvestFails, Goto
    <3> QED BY <1>1, <3>1 DEF TypeOK
  <2>4. status' \in [Processes -> {"ok", "partial", "error"}]
    BY <1>1 DEF TypeOK
  <2> QED BY <1>1, <2>1, <2>2, <2>3, <2>4 DEF TypeOK
<1>3. OwnStep(p)
  BY <1>1 DEF OwnStep, TypeOK
<1>4. distilled'[run[p]] = 0 /\ run[p] \notin delivered'
  BY <1>1 DEF InHarvest
<1>5. /\ run' = run /\ config' = config /\ notify'[p] = ""
      /\ left'[p] = left[p] \ {s} /\ s \in left[p]
      /\ failures'[run[p]] = failures[run[p]] \cup {s}
  BY <1>1 DEF TypeOK, InHarvest
<1>6. PhaseKnown(p)'
  <2>1. CASE config[run[p]].failFast
    <3>1. at'[p] = "log" /\ status'[p] = "error"
      BY <1>1, <2>1 DEF TypeOK
    <3>2. Fatal(run[p])'
      BY <1>5, <2>1 DEF Fatal
    <3>3. StatusFits(status[p], run[p])'
      BY <1>5, <3>1, <3>2 DEF StatusFits
    <3>4. NotifyFits(notify[p], run[p])'
      BY <1>4, <1>5 DEF NotifyFits
    <3> QED BY <3>1, <3>3, <3>4 DEF PhaseKnown
  <2>2. CASE ~ config[run[p]].failFast
    <3>1. at'[p] = "harvest" /\ status'[p] = "ok"
      BY <1>1, <2>2 DEF TypeOK, InHarvest
    <3>2. failures'[run[p]] \subseteq Sources \ left'[p]
      BY <1>1, <1>5 DEF InHarvest
    <3>3. InHarvest(p)'
      BY <1>4, <1>5, <2>2, <3>1, <3>2 DEF InHarvest
    <3> QED BY <3>1, <3>3 DEF PhaseKnown
  <2> QED BY <2>1, <2>2
<1> QED
  BY <1>2, <1>3, <1>4, <1>6, OwnStepPreserves

\* The harvests are over.
LEMMA HarvestedStep ==
  ASSUME InductiveInvariant, NEW p \in Processes, Harvested(p)
  PROVE  InductiveInvariant'
<1> USE DEF Harvested, SetStatus, SetNotify, Goto, observers
<1>1. TypeOK /\ run[p] \in RunIds /\ InHarvest(p)
  BY Known DEF PhaseKnown
<1>2. TypeOK'
  <2>1. at' \in [Processes -> {"idle", "harvest", "synthesize", "notify", "log"}]
    BY <1>1 DEF TypeOK
  <2>2. status' \in [Processes -> {"ok", "partial", "error"}]
    BY <1>1 DEF TypeOK
  <2>3. notify' \in [Processes -> {"", "sent", "error", "skipped"}]
    BY <1>1 DEF TypeOK
  <2> QED BY <1>1, <2>1, <2>2, <2>3 DEF TypeOK
<1>3. OwnStep(p)
  BY <1>1 DEF OwnStep, TypeOK
<1>4. /\ run' = run /\ config' = config /\ failures' = failures
      /\ distilled'[run[p]] = 0 /\ run[p] \notin delivered'
      /\ failures[run[p]] \subseteq Sources
      /\ config[run[p]].failFast => failures[run[p]] = {}
  BY <1>1 DEF InHarvest
<1>5. PhaseKnown(p)'
  <2>1. CASE failures[run[p]] = Sources /\ Sources # {}
    <3>1. at'[p] = "log" /\ status'[p] = "error" /\ notify'[p] = ""
      BY <1>1, <2>1 DEF TypeOK, InHarvest
    <3>2. Fatal(run[p])'
      BY <1>4, <2>1 DEF Fatal
    <3>3. StatusFits(status[p], run[p])'
      BY <1>4, <2>1, <3>1, <3>2 DEF StatusFits
    <3>4. NotifyFits(notify[p], run[p])'
      BY <1>4, <3>1 DEF NotifyFits
    <3> QED BY <3>1, <3>3, <3>4 DEF PhaseKnown
  <2>2. CASE ~ (failures[run[p]] = Sources /\ Sources # {})
    <3>1. status'[p] = IF failures[run[p]] # {} THEN "partial" ELSE "ok"
      BY <1>1, <2>2 DEF TypeOK
    <3>2. ~ Fatal(run[p])'
      BY <1>4, <2>2 DEF Fatal
    <3>3. StatusFits(status[p], run[p])'
      BY <1>4, <3>1, <3>2 DEF StatusFits
    <3>4. \/ at'[p] = "synthesize" /\ notify'[p] = ""
          \/ at'[p] = "log" /\ notify'[p] = "skipped"
      BY <1>1, <2>2 DEF TypeOK, InHarvest
    <3>5. NotifyFits(notify[p], run[p])'
      BY <1>4, <3>4 DEF NotifyFits
    <3>6. notify'[p] = "" => PastHarvest(p)'
      BY <1>4, <3>2, <3>3 DEF PastHarvest
    <3> QED BY <1>4, <3>3, <3>4, <3>5, <3>6 DEF PhaseKnown
  <2> QED BY <2>1, <2>2
<1> QED
  BY <1>2, <1>3, <1>4, <1>5, OwnStepPreserves

\* The synthesis succeeds.
LEMMA SynthesizeStep ==
  ASSUME InductiveInvariant, NEW p \in Processes, NEW n \in 0 .. found[p],
         Synthesize(p, n)
  PROVE  InductiveInvariant'
<1> USE DEF Synthesize, Synthesized, Goto
<1>1. TypeOK /\ run[p] \in RunIds /\ PastHarvest(p)
  BY Known DEF PhaseKnown
<1>2. /\ at' \in [Processes -> {"idle", "harvest", "synthesize", "notify", "log"}]
      /\ at'[p] \in {"notify", "log"}
  BY <1>1 DEF TypeOK
<1>3. TypeOK'
  <2>1. found[p] \in Nat
    BY <1>1 DEF TypeOK
  <2>2. n \in Nat
    BY <2>1
  <2>3. distilled' \in [RunIds -> Nat]
    BY <1>1, <2>2 DEF TypeOK
  <2> QED BY <1>1, <1>2, <2>3 DEF TypeOK
<1>4. OwnStep(p)
  BY <1>1, <1>2 DEF OwnStep, TypeOK
<1>5. ~ Fatal(run[p])' /\ PastHarvest(p)'
  BY <1>1 DEF PastHarvest, Fatal, StatusFits
<1>6. PhaseKnown(p)'
  <2>1. NotifyFits(notify[p], run[p])'
    BY <1>5 DEF NotifyFits, PastHarvest
  <2> QED BY <1>2, <1>5, <2>1 DEF PhaseKnown, PastHarvest
<1> QED
  BY <1>3, <1>4, <1>5, <1>6, OwnStepPreserves

\* The synthesis fails.
LEMMA SynthesizeFailsStep ==
  ASSUME InductiveInvariant, NEW p \in Processes, SynthesizeFails(p)
  PROVE  InductiveInvariant'
<1> USE DEF SynthesizeFails, Synthesized, Goto, SetStatus, Failed
<1>1. TypeOK /\ run[p] \in RunIds /\ PastHarvest(p)
  BY Known DEF PhaseKnown
<1>2. /\ at' \in [Processes -> {"idle", "harvest", "synthesize", "notify", "log"}]
      /\ at'[p] \in {"notify", "log"}
  BY <1>1 DEF TypeOK
<1>3. TypeOK'
  <2>1. status' \in [Processes -> {"ok", "partial", "error"}]
    BY <1>1 DEF TypeOK
  <2>2. failures' \in [RunIds -> SUBSET (Sources \cup {"synthesize", "notify"})]
    BY <1>1 DEF TypeOK
  <2> QED BY <1>1, <1>2, <2>1, <2>2 DEF TypeOK
<1>4. OwnStep(p)
  BY <1>1, <1>2 DEF OwnStep, TypeOK
<1>5. /\ run' = run /\ config' = config /\ notify' = notify /\ delivered' = delivered
      /\ status'[p] = "partial"
      /\ failures'[run[p]] = failures[run[p]] \cup {"synthesize"}
  BY <1>1 DEF TypeOK
<1>6. ~ Fatal(run[p])'
  BY <1>1, <1>5, PhaseIsNoSource DEF PastHarvest, Fatal
<1>7. PastHarvest(p)'
  BY <1>1, <1>5, <1>6 DEF PastHarvest, StatusFits
<1>8. PhaseKnown(p)'
  <2>1. NotifyFits(notify[p], run[p])'
    BY <1>7 DEF NotifyFits, PastHarvest
  <2> QED BY <1>2, <1>7, <2>1 DEF PhaseKnown, PastHarvest
<1> QED
  BY <1>3, <1>4, <1>6, <1>8, OwnStepPreserves

\* The digest is delivered.
LEMMA NotifyStep ==
  ASSUME InductiveInvariant, NEW p \in Processes, Notify(p)
  PROVE  InductiveInvariant'
<1> USE DEF Notify, Notified, Goto, SetNotify
<1>1. TypeOK /\ run[p] \in RunIds /\ PastHarvest(p)
  BY Known DEF PhaseKnown
<1>2. TypeOK' /\ at'[p] = "log" /\ notify'[p] = "sent"
  BY <1>1 DEF TypeOK
<1>3. OwnStep(p)
  <2>1. \A q \in Processes \ {p} : at'[q] = at[q] /\ notify'[q] = notify[q]
    BY <1>1 DEF TypeOK
  <2>2. \A n \in RunIds \ {run[p]} : n \in delivered' <=> n \in delivered
    OBVIOUS
  <2> QED BY <1>2, <2>1, <2>2 DEF OwnStep
<1>4. ~ Fatal(run[p])'
  BY <1>1 DEF PastHarvest, Fatal
<1>5. PhaseKnown(p)'
  <2>1. StatusFits(status[p], run[p])'
    BY <1>1, <1>4 DEF PastHarvest, StatusFits
  <2>2. NotifyFits(notify[p], run[p])'
    BY <1>2 DEF NotifyFits
  <2> QED BY <1>2, <2>1, <2>2 DEF PhaseKnown
<1> QED
  BY <1>2, <1>3, <1>4, <1>5, OwnStepPreserves

\* The delivery fails, or so it seems.
LEMMA NotifyFailsStep ==
  ASSUME InductiveInvariant, NEW p \in Processes, NotifyFails(p)
  PROVE  InductiveInvariant'
<1> USE DEF NotifyFails, Notified, Goto, SetNotify, SetStatus, Failed
<1>1. TypeOK /\ run[p] \in RunIds /\ PastHarvest(p)
  BY Known DEF PhaseKnown
<1>2. TypeOK'
  <2>1. status' \in [Processes -> {"ok", "partial", "error"}]
    BY <1>1 DEF TypeOK
  <2>2. failures' \in [RunIds -> SUBSET (Sources \cup {"synthesize", "notify"})]
    BY <1>1 DEF TypeOK
  <2>3. delivered' \subseteq RunIds
    BY <1>1 DEF TypeOK
  <2>4. /\ at' \in [Processes -> {"idle", "harvest", "synthesize", "notify", "log"}]
        /\ notify' \in [Processes -> {"", "sent", "error", "skipped"}]
    BY <1>1 DEF TypeOK
  <2> QED BY <1>1, <2>1, <2>2, <2>3, <2>4 DEF TypeOK
<1>3. OwnStep(p)
  BY <1>1 DEF OwnStep, TypeOK
<1>4. /\ run' = run /\ config' = config
      /\ at'[p] = "log" /\ notify'[p] = "error"
      /\ failures'[run[p]] = failures[run[p]] \cup {"notify"}
  BY <1>1 DEF TypeOK
<1>5. ~ Fatal(run[p])'
  BY <1>1, <1>4, PhaseIsNoSource DEF PastHarvest, Fatal
<1>6. PhaseKnown(p)'
  <2>1. status'[p] = "partial"
    <3>1. status[p] \in {"ok", "partial"}
      BY <1>1 DEF TypeOK, PastHarvest, StatusFits
    <3> QED BY <1>1, <3>1 DEF TypeOK
  <2>2. StatusFits(status[p], run[p])'
    BY <1>4, <1>5, <2>1 DEF StatusFits
  <2>3. NotifyFits(notify[p], run[p])'
    BY <1>4 DEF NotifyFits
  <2> QED BY <1>4, <2>2, <2>3 DEF PhaseKnown
<1> QED
  BY <1>2, <1>3, <1>5, <1>6, OwnStepPreserves

(***************************************************************************)
(* A process that ends leaves a record of its run, or none.                *)
(***************************************************************************)
Recorded(p) ==
  \E piece \in Pieces :
    file' = Append(file, [run |-> run[p], status |-> status[p],
                          notify |-> notify[p], piece |-> piece])

Fates == {"fine", "killed", "unlogged"}

LEMMA ReturnPreserves ==
  ASSUME InductiveInvariant, NEW p \in Processes, at[p] # "idle", Return(p),
         fate' \in [RunIds -> Fates],
         file' = file \/ (at[p] = "log" /\ Recorded(p))
  PROVE  InductiveInvariant'
<1>1. TypeOK /\ run[p] \in RunIds /\ PhaseKnown(p)
  BY Known
<1>2. /\ run[p] <= started
      /\ \A q \in Processes \ {p} : run[q] # run[p]
  BY <1>1, RunOfProcess DEF InductiveInvariant
<1>3. /\ at'[p] = "idle" /\ run'[p] = 0
      /\ status'[p] = "ok" /\ notify'[p] = ""
      /\ \A q \in Processes \ {p} :
           /\ at'[q] = at[q] /\ run'[q] = run[q] /\ left'[q] = left[q]
           /\ status'[q] = status[q] /\ notify'[q] = notify[q]
      /\ started' = started /\ config' = config /\ failures' = failures
      /\ distilled' = distilled /\ delivered' = delivered
  BY <1>1 DEF Return, Goto, SetStatus, SetNotify, TypeOK
<1>4. /\ file' \in Seq(Entry)
      /\ \A e \in Records' :
           \/ e \in Records
           \/ /\ at[p] = "log"
              /\ e.run = run[p] /\ e.status = status[p] /\ e.notify = notify[p]
  <2>1. file \in Seq(Entry)
    BY <1>1 DEF TypeOK
  <2>2. CASE file' = file
    BY <2>1, <2>2 DEF Records
  <2>3. CASE at[p] = "log" /\ Recorded(p)
    <3>1. PICK piece \in Pieces :
            file' = Append(file, [run |-> run[p], status |-> status[p],
                                  notify |-> notify[p], piece |-> piece])
      BY <2>3 DEF Recorded
    <3> DEFINE x == [run |-> run[p], status |-> status[p],
                     notify |-> notify[p], piece |-> piece]
    <3>2. /\ status[p] \in {"ok", "partial", "error"}
          /\ notify[p] \in {"", "sent", "error", "skipped"}
      BY <1>1 DEF TypeOK
    <3>3. x \in Entry
      BY <1>1, <3>2 DEF Entry
    <3>4. /\ x.run = run[p] /\ x.status = status[p] /\ x.notify = notify[p]
          /\ file' = Append(file, x)
      BY <3>1
    <3> HIDE DEF x
    <3>5. /\ Append(file, x) \in Seq(Entry)
          /\ {Append(file, x)[i] : i \in 1 .. Len(Append(file, x))}
               = {file[i] : i \in 1 .. Len(file)} \cup {x}
      BY <2>1, <3>3, AppendRecords
    <3>6. file' \in Seq(Entry) /\ Records' = Records \cup {x}
      BY <3>4, <3>5 DEF Records
    <3> QED BY <2>3, <3>4, <3>6
  <2> QED BY <2>2, <2>3
<1>5. TypeOK'
  <2>1. run' \in [Processes -> 0 .. MaxRuns]
    <3>1. run \in [Processes -> 0 .. MaxRuns]
      BY <1>1 DEF TypeOK
    <3> QED BY <3>1, Bounds DEF Return
  <2>2. /\ at' \in [Processes -> {"idle", "harvest", "synthesize", "notify", "log"}]
        /\ status' \in [Processes -> {"ok", "partial", "error"}]
        /\ notify' \in [Processes -> {"", "sent", "error", "skipped"}]
    BY <1>1 DEF Return, Goto, SetStatus, SetNotify, TypeOK
  <2>3. left' \in [Processes -> SUBSET Sources] /\ found' \in [Processes -> Nat]
    BY <1>1 DEF Return, TypeOK
  <2> QED BY <1>1, <1>3, <1>4, <2>1, <2>2, <2>3 DEF TypeOK, Fates
<1>6. \A n \in RunIds : Fatal(n)' <=> Fatal(n)
  BY <1>3, FatalUnchanged
<1>7. \A e \in Records : e.run \in RunIds
  <2> SUFFICES ASSUME NEW e \in Records PROVE e.run \in RunIds
    OBVIOUS
  <2>1. file \in Seq(Entry)
    BY <1>1 DEF TypeOK
  <2>2. PICK i \in 1 .. Len(file) : e = file[i]
    BY DEF Records
  <2>3. e \in Entry
    BY <2>1, <2>2
  <2> QED BY <2>3 DEF Entry
<1>8. StatusIsHonest'
  <2>1. \A e \in Records' : StatusFits(e.status, e.run)
    BY <1>1, <1>4 DEF PhaseKnown, InductiveInvariant, StatusIsHonest
  <2>2. \A e \in Records' : e.run \in RunIds
    BY <1>1, <1>4, <1>7
  <2> QED BY <1>3, <1>6, <2>1, <2>2 DEF StatusIsHonest, StatusFits
<1>9. NotificationIsHonest'
  <2>1. \A e \in Records' : NotifyFits(e.notify, e.run)
    BY <1>1, <1>4 DEF PhaseKnown, InductiveInvariant, NotificationIsHonest
  <2> QED BY <1>3, <2>1 DEF NotificationIsHonest, NotifyFits
<1>10. StoppedRunsAreQuiet'
  BY <1>3, <1>6 DEF InductiveInvariant, StoppedRunsAreQuiet
<1>11. RunsApart'
  <2>1. \A q \in Processes : at'[q] = "idle" <=> run'[q] = 0
    BY <1>3 DEF InductiveInvariant, RunsApart
  <2>2. \A q \in Processes : run'[q] <= started
    BY <1>1, <1>3, StartedNumber DEF InductiveInvariant, RunsApart
  <2>3. \A q, r \in Processes : run'[q] # 0 /\ run'[q] = run'[r] => q = r
    <3>1. \A q, r \in Processes : run[q] # 0 /\ run[q] = run[r] => q = r
      BY DEF InductiveInvariant, RunsApart
    <3>2. \A q \in Processes : run'[q] # 0 => q # p /\ run'[q] = run[q]
      BY <1>3
    <3> QED BY <3>1, <3>2
  <2> QED BY <1>3, <2>1, <2>2, <2>3 DEF RunsApart
<1>12. FreshRuns'
  BY <1>3 DEF InductiveInvariant, FreshRuns
<1>13. RecordedAreOver'
  <2> SUFFICES ASSUME NEW e \in Records', NEW q \in Processes
               PROVE  e.run <= started /\ run'[q] # e.run
    BY <1>3 DEF RecordedAreOver
  <2>1. run[p] # 0 /\ (e \in Records => e.run # 0)
    BY <1>1, <1>7, Bounds
  <2>2. CASE e \in Records
    BY <1>3, <2>1, <2>2 DEF InductiveInvariant, RecordedAreOver
  <2>3. CASE e.run = run[p]
    <3>1. e.run <= started
      BY <1>2, <2>3
    <3>2. run'[q] # run[p]
      <4>1. CASE q = p
        BY <1>3, <2>1, <4>1
      <4>2. CASE q # p
        BY <1>2, <1>3, <4>2
      <4> QED BY <4>1, <4>2
    <3> QED BY <2>3, <3>1, <3>2
  <2> QED BY <1>4, <2>2, <2>3
<1>14. PhasesKnown'
  <2> SUFFICES ASSUME NEW q \in Processes PROVE PhaseKnown(q)'
    BY DEF PhasesKnown
  <2>1. CASE q = p
    BY <1>3, <2>1 DEF PhaseKnown
  <2>2. CASE q # p /\ at[q] = "idle"
    BY <1>3, <2>2 DEF InductiveInvariant, PhasesKnown, PhaseKnown
  <2>3. CASE q # p /\ at[q] # "idle"
    <3>1. run[q] \in RunIds /\ PhaseKnown(q)
      BY <2>3, Known
    <3>2. /\ at'[q] = at[q] /\ run'[q] = run[q] /\ left'[q] = left[q]
          /\ status'[q] = status[q] /\ notify'[q] = notify[q]
      BY <1>3, <2>3
    <3>3. Fatal(run[q])' <=> Fatal(run[q])
      BY <1>3, <3>2 DEF Fatal
    <3>4. /\ StatusFits(status[q], run[q])' <=> StatusFits(status[q], run[q])
          /\ NotifyFits(notify[q], run[q])' <=> NotifyFits(notify[q], run[q])
      BY <1>3, <3>2, <3>3 DEF StatusFits, NotifyFits
    <3>5. InHarvest(q) => InHarvest(q)'
      BY <1>3, <3>2 DEF InHarvest
    <3>6. PastHarvest(q) => PastHarvest(q)'
      BY <1>3, <3>2, <3>3, <3>4 DEF PastHarvest
    <3> QED BY <1>3, <3>1, <3>2, <3>4, <3>5, <3>6 DEF PhaseKnown
  <2> QED BY <2>1, <2>2, <2>3
<1> QED
  BY <1>5, <1>8, <1>9, <1>10, <1>11, <1>12, <1>13, <1>14 DEF InductiveInvariant

\* The run is logged, or was not to be.
LEMMA LogStep ==
  ASSUME InductiveInvariant, NEW p \in Processes, Log(p)
  PROVE  InductiveInvariant'
<1>1. at[p] = "log" /\ Return(p)
  BY DEF Log
<1>2. TypeOK /\ run[p] \in RunIds
  BY <1>1, Known
<1>3. fate' \in [RunIds -> Fates]
  BY <1>2 DEF Log, TypeOK, Fates
<1>4. file' = file \/ Recorded(p)
  BY DEF Log, Write, Recorded, Pieces
<1> QED
  BY <1>1, <1>3, <1>4, ReturnPreserves

\* The write fails.
LEMMA LogFailsStep ==
  ASSUME InductiveInvariant, NEW p \in Processes, LogFails(p)
  PROVE  InductiveInvariant'
<1>1. at[p] = "log" /\ Return(p)
  BY DEF LogFails
<1>2. fate' \in [RunIds -> Fates]
  BY <1>1, Known DEF LogFails, TypeOK, Fates
<1>3. file' = file \/ Recorded(p)
  BY DEF LogFails, Write, Recorded, Pieces
<1> QED
  BY <1>1, <1>2, <1>3, ReturnPreserves

\* The process is killed.
LEMMA KillStep ==
  ASSUME InductiveInvariant, NEW p \in Processes, Kill(p)
  PROVE  InductiveInvariant'
<1>1. at[p] # "idle" /\ Return(p) /\ file' = file
  BY DEF Kill
<1>2. fate' \in [RunIds -> Fates]
  BY <1>1, Known DEF Kill, TypeOK, Fates
<1> QED
  BY <1>1, <1>2, ReturnPreserves

\* A run starts, of which nothing is known.
LEMMA StartStep ==
  ASSUME InductiveInvariant, NEW p \in Processes, NEW c \in Configs, Start(p, c)
  PROVE  InductiveInvariant'
<1>1. TypeOK /\ at[p] = "idle"
  BY DEF InductiveInvariant, Start
<1>2. started \in Nat /\ started + 1 \in RunIds /\ started + 1 \in 0 .. MaxRuns
  <2>1. started \in Nat /\ started < MaxRuns /\ MaxRuns \in Nat
    BY <1>1, StartedNumber, Bounds DEF Start
  <2> QED BY <2>1 DEF RunIds
<1> PICK new \in RunIds : new = started + 1
  BY <1>2
<1>3. /\ run'[p] = new /\ config'[new] = c /\ started' = new
      /\ at'[p] = "harvest" /\ left'[p] = Sources
      /\ \A q \in Processes \ {p} :
           at'[q] = at[q] /\ run'[q] = run[q] /\ left'[q] = left[q]
      /\ \A n \in RunIds \ {new} : config'[n] = config[n]
      /\ status' = status /\ notify' = notify /\ file' = file
      /\ failures' = failures /\ distilled' = distilled /\ delivered' = delivered
  BY <1>1, <1>2 DEF Start, Goto, observers, TypeOK
<1>4. failures[new] = {} /\ distilled[new] = 0 /\ new \notin delivered
  BY <1>2 DEF InductiveInvariant, FreshRuns
<1>5. TypeOK'
  <2>1. run' \in [Processes -> 0 .. MaxRuns]
    BY <1>1, <1>2 DEF Start, TypeOK
  <2>2. config' \in [RunIds -> Config]
    BY <1>1, <1>2, PipelineAssumption DEF Start, TypeOK, PipelineAssumption
  <2>3. /\ at' \in [Processes -> {"idle", "harvest", "synthesize", "notify", "log"}]
        /\ left' \in [Processes -> SUBSET Sources]
    BY <1>1 DEF Start, Goto, TypeOK
  <2>4. found' = found /\ fate' = fate
    BY DEF Start, observers
  <2> QED BY <1>1, <1>2, <1>3, <2>1, <2>2, <2>3, <2>4 DEF TypeOK
<1>6. new \in Nat /\ started < new /\ new # 0
  BY <1>2
<1>7. \A e \in Records :
        e.run \in RunIds /\ e.run <= started /\ e.run < new /\ e.run # new
  <2> SUFFICES ASSUME NEW e \in Records
               PROVE  /\ e.run \in RunIds /\ e.run <= started
                      /\ e.run < new /\ e.run # new
    OBVIOUS
  <2>1. file \in Seq(Entry)
    BY <1>1 DEF TypeOK
  <2>2. PICK i \in 1 .. Len(file) : e = file[i]
    BY DEF Records
  <2>3. e \in Entry
    BY <2>1, <2>2
  <2>4. e.run \in RunIds /\ e.run <= started
    BY <2>3 DEF Entry, InductiveInvariant, RecordedAreOver
  <2>5. e.run \in Nat
    BY <2>4, Bounds
  <2> QED BY <2>4, <2>5, <1>2, <1>6
<1>8. \A n \in RunIds \ {new} : Fatal(n)' <=> Fatal(n)
  BY <1>3, FatalUnchanged
<1>9. ~ Fatal(new)'
  BY <1>3, <1>4 DEF Fatal
<1>10. Records' = Records
  BY <1>3 DEF Records
<1>11. StatusIsHonest' /\ NotificationIsHonest'
  BY <1>3, <1>7, <1>8, <1>10 DEF InductiveInvariant, StatusIsHonest,
     NotificationIsHonest, StatusFits, NotifyFits
<1>12. StoppedRunsAreQuiet'
  BY <1>3, <1>8, <1>9 DEF InductiveInvariant, StoppedRunsAreQuiet
<1>13. \A q \in Processes \ {p} :
         (at[q] = "idle" <=> run[q] = 0) /\ run[q] < new /\ run[q] # new
  <2> SUFFICES ASSUME NEW q \in Processes \ {p}
               PROVE  (at[q] = "idle" <=> run[q] = 0) /\ run[q] < new /\ run[q] # new
    OBVIOUS
  <2>1. (at[q] = "idle" <=> run[q] = 0) /\ run[q] <= started
    BY DEF InductiveInvariant, RunsApart
  <2>2. run[q] \in Nat
    <3>1. run[q] \in 0 .. MaxRuns
      BY <1>1 DEF TypeOK
    <3> QED BY <3>1, Bounds
  <2> QED BY <2>1, <2>2, <1>2, <1>6
<1>14. RunsApart'
  <2>1. \A q \in Processes : at'[q] = "idle" <=> run'[q] = 0
    BY <1>3, <1>6, <1>13
  <2>2. \A q \in Processes : run'[q] <= started'
    <3>1. new <= new /\ \A q \in Processes \ {p} : run[q] <= new
      <4> SUFFICES ASSUME NEW q \in Processes \ {p} PROVE run[q] <= new
        BY <1>6
      <4>1. run[q] \in 0 .. MaxRuns /\ run[q] < new
        BY <1>1, <1>13 DEF TypeOK
      <4> QED BY <4>1, <1>6, Bounds
    <3> QED BY <1>3, <3>1
  <2>3. \A q, r \in Processes : run'[q] # 0 /\ run'[q] = run'[r] => q = r
    <3>1. \A q, r \in Processes : run[q] # 0 /\ run[q] = run[r] => q = r
      BY DEF InductiveInvariant, RunsApart
    <3> QED BY <1>3, <1>13, <3>1
  <2> QED BY <2>1, <2>2, <2>3 DEF RunsApart
<1>15. FreshRuns'
  <2>1. \A n \in RunIds : n > new => n > started
    BY <1>2, <1>6, Bounds
  <2> QED BY <1>3, <2>1 DEF InductiveInvariant, FreshRuns
<1>16. RecordedAreOver'
  <2> SUFFICES ASSUME NEW e \in Records PROVE
                 e.run <= new /\ \A q \in Processes : run'[q] # e.run
    BY <1>3, <1>10 DEF RecordedAreOver
  <2>1. e.run \in Nat /\ e.run < new /\ e.run # new
    BY <1>7, Bounds
  <2>2. \A q \in Processes : run[q] # e.run
    BY DEF InductiveInvariant, RecordedAreOver
  <2>3. e.run <= new
    BY <2>1, <1>6
  <2> QED BY <1>3, <2>1, <2>2, <2>3
<1>17. PhaseKnown(p)'
  <2>1. status[p] = "ok" /\ notify[p] = ""
    BY <1>1 DEF InductiveInvariant, PhasesKnown, PhaseKnown
  <2>2. InHarvest(p)'
    BY <1>3, <1>4, <2>1 DEF InHarvest
  <2> QED BY <1>3, <2>2 DEF PhaseKnown
<1>18. ASSUME NEW q \in Processes \ {p} PROVE PhaseKnown(q)'
  <2>1. PhaseKnown(q)
    BY DEF InductiveInvariant, PhasesKnown
  <2>2. /\ at'[q] = at[q] /\ run'[q] = run[q] /\ left'[q] = left[q]
        /\ status'[q] = status[q] /\ notify'[q] = notify[q]
    BY <1>3
  <2>3. CASE at[q] = "idle"
    BY <2>1, <2>2, <2>3 DEF PhaseKnown
  <2>4. CASE at[q] # "idle"
    <3>1. run[q] \in RunIds \ {new}
      BY <1>13, <2>4, Known
    <3>2. config'[run[q]] = config[run[q]]
      BY <1>3, <3>1
    <3>3. Fatal(run[q])' <=> Fatal(run[q])
      BY <1>3, <2>2, <3>2 DEF Fatal
    <3>4. /\ StatusFits(status[q], run[q])' <=> StatusFits(status[q], run[q])
          /\ NotifyFits(notify[q], run[q])' <=> NotifyFits(notify[q], run[q])
      BY <1>3, <2>2, <3>3 DEF StatusFits, NotifyFits
    <3>5. InHarvest(q) => InHarvest(q)'
      BY <1>3, <2>2, <3>2 DEF InHarvest
    <3>6. PastHarvest(q) => PastHarvest(q)'
      BY <1>3, <2>2, <3>3, <3>4 DEF PastHarvest
    <3> QED BY <1>3, <2>1, <2>2, <3>4, <3>5, <3>6 DEF PhaseKnown
  <2> QED BY <2>3, <2>4
<1>19. PhasesKnown'
  BY <1>17, <1>18 DEF PhasesKnown
<1> QED
  BY <1>5, <1>11, <1>12, <1>14, <1>15, <1>16, <1>19 DEF InductiveInvariant

\* Nothing happens.
LEMMA StutterStep ==
  ASSUME InductiveInvariant, UNCHANGED vars
  PROVE  InductiveInvariant'
<1> USE DEF InductiveInvariant, vars, locals, observers
<1>1. TypeOK' /\ RunsApart' /\ FreshRuns'
  BY DEF TypeOK, RunsApart, FreshRuns
<1>2. Records' = Records
  BY DEF Records
<1>3. \A n : Fatal(n)' <=> Fatal(n)
  BY DEF Fatal
<1>4. StatusIsHonest' /\ NotificationIsHonest' /\ RecordedAreOver'
  BY <1>2, <1>3 DEF StatusIsHonest, NotificationIsHonest, RecordedAreOver,
     StatusFits, NotifyFits
<1>5. StoppedRunsAreQuiet'
  BY <1>3 DEF StoppedRunsAreQuiet
<1>6. PhasesKnown'
  BY DEF PhasesKnown, PhaseKnown, InHarvest, PastHarvest, Fatal, StatusFits,
     NotifyFits
<1> QED
  BY <1>1, <1>4, <1>5, <1>6

(***************************************************************************)
(* The theorems.                                                           *)
(***************************************************************************)
\* Each run knows at each phase what has failed in it, and nothing happens to a
\* run once it has its record: what Run's locals, the numbering of runs and the
\* appends of WriteRunLog maintain together.
THEOREM PipelineInvariance == Spec => []InductiveInvariant
<1>1. Init => InductiveInvariant
  BY PipelineInit
<1>2. InductiveInvariant /\ [Next]_vars => InductiveInvariant'
  <2> SUFFICES ASSUME InductiveInvariant, [Next]_vars PROVE InductiveInvariant'
    OBVIOUS
  <2>1. CASE UNCHANGED vars
    BY <2>1, StutterStep
  <2>2. CASE Next
    <3>1. PICK p \in Processes : (\E c \in Configs : Start(p, c)) \/ Run(p) \/ Kill(p)
      BY <2>2 DEF Next
    <3>2. (\E c \in Configs : Start(p, c)) => InductiveInvariant'
      BY StartStep
    <3>3. Kill(p) => InductiveInvariant'
      BY KillStep
    <3>4. Run(p) => InductiveInvariant'
      BY HarvestStep, HarvestFailsStep, HarvestedStep, SynthesizeStep,
         SynthesizeFailsStep, NotifyStep, NotifyFailsStep, LogStep, LogFailsStep
      DEF Run
    <3> QED BY <3>1, <3>2, <3>3, <3>4
  <2> QED BY <2>1, <2>2
<1> QED
  BY <1>1, <1>2, PTL DEF Spec

\* Every variable keeps its type.
THEOREM PipelineTypeCorrect == Spec => []TypeOK
<1>1. InductiveInvariant => TypeOK
  BY DEF InductiveInvariant
<1> QED
  BY <1>1, PipelineInvariance, PTL

\* The status in the run log tells what went wrong in a run, for any sources and
\* any number of runs at once, whichever of them are killed or fail to be logged.
THEOREM RecordsAreHonest == Spec => []StatusIsHonest
<1>1. InductiveInvariant => StatusIsHonest
  BY DEF InductiveInvariant
<1> QED
  BY <1>1, PipelineInvariance, PTL

\* A run that stops for its harvests neither synthesizes nor notifies.
THEOREM StoppedRunsStayQuiet == Spec => []StoppedRunsAreQuiet
<1>1. InductiveInvariant => StoppedRunsAreQuiet
  BY DEF InductiveInvariant
<1> QED
  BY <1>1, PipelineInvariance, PTL

\* What the run log says was sent was sent; what it says was skipped was not.
THEOREM NotificationsAreHonest == Spec => []NotificationIsHonest
<1>1. InductiveInvariant => NotificationIsHonest
  BY DEF InductiveInvariant
<1> QED
  BY <1>1, PipelineInvariance, PTL

(***************************************************************************)
(* No run is recorded twice, each that came to its end by itself is, and   *)
(* lines are whole as long as no write has failed.                         *)
(***************************************************************************)
OneRecordEach ==
  \A i, j \in 1 .. Len(file) : file[i].run = file[j].run => i = j

EndsRecorded ==
  \A n \in RunIds :
    IsOver(n) /\ config[n].hasRunLog /\ fate[n] = "fine" => \E i \in Lines(n) : TRUE

WholeLines ==
  \A i \in 1 .. Len(file) : file[i].piece # "line" => fate[file[i].run] = "unlogged"

\* Who leaves what in the run log: only the end of a run does.
Entered(p, piece) ==
  file' = Append(file, [run |-> run[p], status |-> status[p],
                        notify |-> notify[p], piece |-> piece])

LEMMA FileStep ==
  ASSUME InductiveInvariant, [Next]_vars
  PROVE  \/ /\ UNCHANGED <<file, fate>>
            /\ \A n \in RunIds : IsOver(n)' => IsOver(n) /\ config'[n] = config[n]
         \/ \E p \in Processes :
              /\ at[p] # "idle" /\ Return(p)
              /\ \/ config[run[p]].hasRunLog /\ Entered(p, "line") /\ fate' = fate
                 \/ ~ config[run[p]].hasRunLog /\ file' = file /\ fate' = fate
                 \/ /\ fate' = [fate EXCEPT ![run[p]] = "unlogged"]
                    /\ file' = file \/ \E piece \in Pieces : Entered(p, piece)
                 \/ file' = file /\ fate' = [fate EXCEPT ![run[p]] = "killed"]
<1> DEFINE Quiet == /\ UNCHANGED <<file, fate>>
                    /\ \A n \in RunIds : IsOver(n)' => IsOver(n) /\ config'[n] = config[n]
<1>1. CASE UNCHANGED <<started, config, run, file, fate>>
  BY <1>1 DEF IsOver
<1>2. CASE UNCHANGED vars
  BY <1>1, <1>2 DEF vars, locals, observers
<1>3. ASSUME NEW p \in Processes, NEW c \in Configs, Start(p, c) PROVE Quiet
  <2>1. /\ started' = started + 1 /\ run' = [run EXCEPT ![p] = started + 1]
        /\ config' = [config EXCEPT ![started + 1] = c] /\ at[p] = "idle"
        /\ UNCHANGED <<file, fate>>
    BY <1>3 DEF Start, observers
  <2>2. /\ started \in Nat /\ run \in [Processes -> 0 .. MaxRuns]
        /\ config \in [RunIds -> Config] /\ run[p] = 0
    BY <2>1, StartedNumber DEF InductiveInvariant, TypeOK, RunsApart
  <2>3. ASSUME NEW n \in RunIds, IsOver(n)' PROVE IsOver(n) /\ config'[n] = config[n]
    <3>1. n <= started + 1 /\ \A q \in Processes : run'[q] # n
      BY <2>1, <2>3 DEF IsOver
    <3>2. run'[p] = started + 1 /\ \A q \in Processes \ {p} : run'[q] = run[q]
      BY <2>1, <2>2
    <3>3. n # started + 1 /\ n \in Nat /\ n # 0
      BY <3>1, <3>2, Bounds
    <3>4. n <= started
      BY <2>2, <3>1, <3>3
    <3>5. \A q \in Processes : run[q] # n
      BY <2>2, <3>1, <3>2, <3>3
    <3>6. config'[n] = config[n]
      BY <2>1, <2>2, <3>3
    <3> QED BY <3>4, <3>5, <3>6 DEF IsOver
  <2> QED BY <2>1, <2>3
<1>4. ASSUME NEW p \in Processes, Run(p), ~ Log(p), ~ LogFails(p)
      PROVE  UNCHANGED <<started, config, run, file, fate>>
  BY <1>4 DEF Run, HarvestFails, Harvest, NextSource, Harvested, observers, Synthesize,
     SynthesizeFails, Synthesized, Notify, NotifyFails, Notified
<1>5. ASSUME NEW p \in Processes, Log(p)
      PROVE  /\ at[p] # "idle" /\ Return(p) /\ fate' = fate
             /\ \/ config[run[p]].hasRunLog /\ Entered(p, "line")
                \/ ~ config[run[p]].hasRunLog /\ file' = file
  BY <1>5 DEF Log, Write, Entered
<1>6. ASSUME NEW p \in Processes, LogFails(p)
      PROVE  /\ at[p] # "idle" /\ Return(p)
             /\ fate' = [fate EXCEPT ![run[p]] = "unlogged"]
             /\ file' = file \/ \E piece \in Pieces : Entered(p, piece)
  BY <1>6 DEF LogFails, Write, Entered, Pieces
<1>7. ASSUME NEW p \in Processes, Kill(p)
      PROVE  /\ at[p] # "idle" /\ Return(p) /\ file' = file
             /\ fate' = [fate EXCEPT ![run[p]] = "killed"]
  BY <1>7 DEF Kill
<1> HIDE DEF Quiet
<1>8. CASE Quiet
  BY <1>8 DEF Quiet
<1>9. CASE \E p \in Processes : Log(p) \/ LogFails(p) \/ Kill(p)
  BY <1>5, <1>6, <1>7, <1>9
<1> QED
  BY <1>1, <1>2, <1>3, <1>4, <1>8, <1>9 DEF Next

\* What an entry of a run that had none leaves.
LEMMA EntryAdded ==
  ASSUME InductiveInvariant, NEW p \in Processes, at[p] # "idle",
         NEW piece \in Pieces, Entered(p, piece)
  PROVE  /\ Len(file) \in Nat /\ Len(file') = Len(file) + 1
         /\ file'[Len(file) + 1].run = run[p] /\ file'[Len(file) + 1].piece = piece
         /\ \A i \in 1 .. Len(file) : file'[i] = file[i] /\ file[i].run # run[p]
<1>1. /\ file \in Seq(Entry) /\ run[p] \in RunIds
      /\ status[p] \in {"ok", "partial", "error"}
      /\ notify[p] \in {"", "sent", "error", "skipped"}
  BY Known DEF TypeOK
<1> DEFINE x == [run |-> run[p], status |-> status[p], notify |-> notify[p], piece |-> piece]
<1>2. x \in Entry
  BY <1>1 DEF Entry
<1>3. x.run = run[p] /\ x.piece = piece /\ file' = Append(file, x)
  BY DEF Entered
<1> HIDE DEF x
<1>4. /\ Len(Append(file, x)) = Len(file) + 1
      /\ Append(file, x)[Len(file) + 1] = x
      /\ \A i \in 1 .. Len(file) : Append(file, x)[i] = file[i]
      /\ Len(file) \in Nat
  BY <1>1, <1>2, AppendEntry
<1>5. \A i \in 1 .. Len(file) : file[i].run # run[p]
  BY DEF InductiveInvariant, RecordedAreOver, Records
<1> QED
  BY <1>3, <1>4, <1>5

\* Which runs are over once a process has returned.
LEMMA OverAfterReturn ==
  ASSUME InductiveInvariant, NEW p \in Processes, at[p] # "idle", Return(p)
  PROVE  /\ config' = config /\ run[p] \in RunIds
         /\ \A n \in RunIds : IsOver(n)' => n = run[p] \/ IsOver(n)
<1>1. /\ run[p] \in RunIds /\ started' = started /\ config' = config
      /\ run \in [Processes -> 0 .. MaxRuns] /\ run' = [run EXCEPT ![p] = 0]
  BY Known DEF Return, TypeOK
<1>2. ASSUME NEW n \in RunIds, IsOver(n)', n # run[p] PROVE IsOver(n)
  <2>1. n <= started /\ \A q \in Processes : run'[q] # n
    BY <1>1, <1>2 DEF IsOver
  <2>2. \A q \in Processes \ {p} : run[q] # n
    BY <1>1, <2>1
  <2> QED BY <1>2, <2>1, <2>2 DEF IsOver
<1> QED
  BY <1>1, <1>2

LEMMA OneRecordEachStep ==
  ASSUME InductiveInvariant, OneRecordEach, [Next]_vars
  PROVE  OneRecordEach'
<1>1. CASE file' = file
  BY <1>1 DEF OneRecordEach
<1>2. ASSUME NEW p \in Processes, at[p] # "idle", NEW piece \in Pieces, Entered(p, piece)
      PROVE  OneRecordEach'
  BY <1>2, EntryAdded DEF OneRecordEach
<1> QED
  BY <1>1, <1>2, FileStep DEF Pieces

LEMMA EndsRecordedStep ==
  ASSUME InductiveInvariant, EndsRecorded, [Next]_vars
  PROVE  EndsRecorded'
<1> SUFFICES ASSUME NEW n \in RunIds, IsOver(n)', config'[n].hasRunLog, fate'[n] = "fine"
             PROVE  \E i \in 1 .. Len(file') : file'[i].run = n /\ file'[i].piece = "line"
  BY DEF EndsRecorded, Lines
<1> DEFINE Had == \E i \in 1 .. Len(file) : file[i].run = n /\ file[i].piece = "line"
<1>1. fate \in [RunIds -> {"fine", "killed", "unlogged"}]
  BY DEF InductiveInvariant, TypeOK
<1>2. ASSUME IsOver(n), config'[n] = config[n], fate'[n] = fate[n] PROVE Had
  BY <1>2 DEF EndsRecorded, Lines
<1>3. CASE UNCHANGED <<file, fate>> /\ IsOver(n) /\ config'[n] = config[n]
  BY <1>2, <1>3
<1>4. ASSUME NEW p \in Processes, at[p] # "idle", Return(p),
             \/ config[run[p]].hasRunLog /\ Entered(p, "line") /\ fate' = fate
             \/ ~ config[run[p]].hasRunLog /\ file' = file /\ fate' = fate
             \/ /\ fate' = [fate EXCEPT ![run[p]] = "unlogged"]
                /\ file' = file \/ \E piece \in Pieces : Entered(p, piece)
             \/ file' = file /\ fate' = [fate EXCEPT ![run[p]] = "killed"]
      PROVE  \E i \in 1 .. Len(file') : file'[i].run = n /\ file'[i].piece = "line"
  <2>1. /\ config' = config /\ run[p] \in RunIds
        /\ n = run[p] \/ IsOver(n)
    BY <1>4, OverAfterReturn
  <2>2. ASSUME NEW piece \in Pieces, Entered(p, piece), Had
        PROVE  \E i \in 1 .. Len(file') : file'[i].run = n /\ file'[i].piece = "line"
    BY <1>4, <2>2, EntryAdded
  <2>3. CASE n = run[p]
    <3>0. config[run[p]].hasRunLog /\ fate'[run[p]] = "fine"
      BY <2>1, <2>3
    <3>5. /\ fate' # [fate EXCEPT ![run[p]] = "unlogged"]
          /\ fate' # [fate EXCEPT ![run[p]] = "killed"]
      BY <1>1, <2>1, <3>0
    <3>1. config[run[p]].hasRunLog /\ Entered(p, "line")
      BY <1>4, <3>0, <3>5
    <3>2. "line" \in Pieces
      BY DEF Pieces
    <3>3. /\ Len(file') = Len(file) + 1 /\ Len(file) \in Nat
          /\ file'[Len(file) + 1].run = run[p] /\ file'[Len(file) + 1].piece = "line"
      BY <1>4, <3>1, <3>2, EntryAdded
    <3> QED BY <2>3, <3>3
  <2>4. CASE n # run[p]
    <3>0. fate'[n] = fate[n]
      BY <1>1, <1>4, <2>4
    <3>1. Had
      BY <1>2, <2>1, <2>4, <3>0
    <3>2. CASE file' = file
      BY <3>1, <3>2
    <3>3. CASE \E piece \in Pieces : Entered(p, piece)
      BY <2>2, <3>1, <3>3
    <3> QED BY <1>4, <3>2, <3>3 DEF Pieces
  <2> QED BY <2>3, <2>4
<1> QED
  BY <1>3, <1>4, FileStep

\* Nothing happens to the fate of a run that has a line.
LEMMA WholeLinesStep ==
  ASSUME InductiveInvariant, WholeLines, [Next]_vars
  PROVE  WholeLines'
<1>1. fate \in [RunIds -> {"fine", "killed", "unlogged"}]
  BY DEF InductiveInvariant, TypeOK
<1>6. \A i \in 1 .. Len(file) : file[i].run \in RunIds
  <2>1. file \in Seq(Entry)
    BY DEF InductiveInvariant, TypeOK
  <2>2. \A i \in 1 .. Len(file) : file[i] \in Entry
    BY <2>1
  <2> QED BY <2>2 DEF Entry
<1>2. CASE UNCHANGED <<file, fate>>
  BY <1>2 DEF WholeLines
<1>3. ASSUME NEW p \in Processes, at[p] # "idle",
             \E f \in {"fine", "killed", "unlogged"} : fate' = [fate EXCEPT ![run[p]] = f],
             file' = file
      PROVE  WholeLines'
  <2>1. \A i \in 1 .. Len(file) : file[i].run # run[p]
    BY <1>3 DEF InductiveInvariant, RecordedAreOver, Records
  <2>2. \A n \in RunIds : n # run[p] => fate'[n] = fate[n]
    BY <1>1, <1>3
  <2> QED BY <1>3, <1>6, <2>1, <2>2 DEF WholeLines
<1>4. ASSUME NEW p \in Processes, at[p] # "idle", NEW piece \in Pieces, Entered(p, piece),
             \/ piece = "line" /\ fate' = fate
             \/ fate' = [fate EXCEPT ![run[p]] = "unlogged"]
      PROVE  WholeLines'
  <2>1. /\ Len(file) \in Nat /\ Len(file') = Len(file) + 1
        /\ file'[Len(file) + 1].run = run[p] /\ file'[Len(file) + 1].piece = piece
        /\ \A i \in 1 .. Len(file) : file'[i] = file[i] /\ file[i].run # run[p]
    BY <1>4, EntryAdded
  <2>2. \A n \in RunIds : n # run[p] => fate'[n] = fate[n]
    BY <1>1, <1>4
  <2>3. piece # "line" => fate'[run[p]] = "unlogged"
    BY <1>1, <1>4, Known
  <2>4. ASSUME NEW i \in 1 .. Len(file'), file'[i].piece # "line"
        PROVE  fate'[file'[i].run] = "unlogged"
    <3>1. CASE i \in 1 .. Len(file)
      BY <1>6, <2>1, <2>2, <2>4, <3>1 DEF WholeLines
    <3>2. CASE i = Len(file) + 1
      BY <2>1, <2>3, <2>4, <3>2
    <3> QED BY <2>1, <3>1, <3>2
  <2> QED BY <2>4 DEF WholeLines
<1>5. "line" \in Pieces
  BY DEF Pieces
<1> QED
  BY <1>2, <1>3, <1>4, <1>5, FileStep

LEMMA RecordsFollow ==
  ASSUME InductiveInvariant, OneRecordEach, EndsRecorded, WholeLines
  PROVE  RecordsKept
<1>1. ASSUME NEW n \in RunIds, IsOver(n), config[n].hasRunLog, fate[n] = "fine"
      PROVE  Cardinality(Lines(n)) = 1
  <2>1. PICK i \in Lines(n) : TRUE
    BY <1>1 DEF EndsRecorded
  <2>2. Lines(n) = {i}
    BY <2>1 DEF OneRecordEach, Lines
  <2> QED BY <2>2, FS_Singleton
<1>2. ASSUME \A n \in RunIds : fate[n] # "unlogged" PROVE IsReadable(file)
  <2>1. ASSUME NEW i \in 1 .. Len(file) PROVE file[i].piece = "line"
    <3>1. file \in Seq(Entry)
      BY DEF InductiveInvariant, TypeOK
    <3>2. file[i] \in Entry
      BY <2>1, <3>1
    <3>3. file[i].run \in RunIds
      BY <3>2 DEF Entry
    <3> QED BY <1>2, <2>1, <3>3 DEF WholeLines
  <2> QED BY <2>1 DEF IsReadable
<1> QED
  BY <1>1, <1>2 DEF RecordsKept

\* Every return of Run leaves one whole line of its run, however many runs append to
\* the log at once, save for a run that was killed or whose own write failed; and
\* while no write has failed the log can be read back.
THEOREM RecordsAlwaysKept == Spec => []RecordsKept
<1>1. Init => OneRecordEach /\ EndsRecorded /\ WholeLines
  <2> SUFFICES ASSUME Init PROVE OneRecordEach /\ EndsRecorded /\ WholeLines
    OBVIOUS
  <2>1. 1 .. Len(file) = {}
    <3>1. file = <<>>
      BY DEF Init
    <3>2. Len(file) = 0
      BY <3>1
    <3> QED BY <3>2
  <2>2. ASSUME NEW n \in RunIds PROVE ~ IsOver(n)
    <3>1. n \in Nat /\ n # 0 /\ started = 0
      BY Bounds DEF Init
    <3>2. ~ (n <= started)
      BY <3>1
    <3> QED BY <3>2 DEF IsOver
  <2> QED BY <2>1, <2>2 DEF OneRecordEach, EndsRecorded, WholeLines
<1>2. InductiveInvariant /\ OneRecordEach /\ [Next]_vars => OneRecordEach'
  BY OneRecordEachStep
<1>3. InductiveInvariant /\ EndsRecorded /\ [Next]_vars => EndsRecorded'
  BY EndsRecordedStep
<1>4. InductiveInvariant /\ WholeLines /\ [Next]_vars => WholeLines'
  BY WholeLinesStep
<1>5. InductiveInvariant /\ OneRecordEach /\ EndsRecorded /\ WholeLines => RecordsKept
  BY RecordsFollow
<1> QED
  BY <1>1, <1>2, <1>3, <1>4, <1>5, PipelineInvariance, PTL DEF Spec

------------------------------------------------------------------------------
(***************************************************************************)
(* Why a run ends.  A source is harvested once, whether it fails or not,   *)
(* and no phase is come back to, so a run has a number of calls left that  *)
(* gets smaller with each of its steps.                                    *)
(***************************************************************************)
Phase(step) ==
  CASE step = "idle"       -> 0
    [] step = "log"        -> 1
    [] step = "notify"     -> 2
    [] step = "synthesize" -> 3
    [] step = "harvest"    -> 4

CallsLeft(p) ==
  Phase(at[p]) + IF at[p] = "harvest" THEN Cardinality(left[p]) ELSE 0

MostCalls == Cardinality(Sources) + 4

RunsWindDown ==
  \A p \in Processes : at[p] # "idle" =>
    /\ Run(p) => CallsLeft(p)' < CallsLeft(p)
    /\ CallsLeft(p)' < CallsLeft(p) \/ CallsLeft(p)' = CallsLeft(p)

LEMMA Phases ==
  /\ Phase("idle") = 0 /\ Phase("log") = 1 /\ Phase("notify") = 2
  /\ Phase("synthesize") = 3 /\ Phase("harvest") = 4
  BY DEF Phase

LEMMA CallsLeftType ==
  ASSUME TypeOK, NEW p \in Processes
  PROVE  /\ IsFiniteSet(left[p]) /\ Cardinality(left[p]) \in Nat
         /\ CallsLeft(p) \in 0 .. MostCalls
<1>1. IsFiniteSet(Sources) /\ left[p] \subseteq Sources
  BY PipelineAssumption DEF PipelineAssumption, TypeOK
<1>2. /\ IsFiniteSet(left[p]) /\ Cardinality(left[p]) \in Nat
      /\ Cardinality(Sources) \in Nat /\ Cardinality(left[p]) <= Cardinality(Sources)
  BY <1>1, FS_Subset, FS_CardinalityType
<1>3. at[p] \in {"idle", "harvest", "synthesize", "notify", "log"}
  BY DEF TypeOK
<1>4. Phase(at[p]) \in 0 .. 4
  BY <1>3, Phases
<1> QED
  BY <1>2, <1>4 DEF CallsLeft, MostCalls

\* A harvest takes its source off the list; every other step leaves the phase.
LEMMA OwnStepIsNearer ==
  ASSUME TypeOK, NEW p \in Processes, Run(p)
  PROVE  at[p] # "idle" /\ CallsLeft(p)' < CallsLeft(p)
<1>1. IsFiniteSet(left[p]) /\ Cardinality(left[p]) \in Nat
  BY CallsLeftType
<1>2. at \in [Processes -> {"idle", "harvest", "synthesize", "notify", "log"}]
  BY DEF TypeOK
<1>3. ASSUME Phase(at'[p]) < Phase(at[p]),
             at'[p] \in {"idle", "log", "notify", "synthesize"}
      PROVE  CallsLeft(p)' < CallsLeft(p)
  <2>1. Phase(at[p]) \in Int /\ Phase(at'[p]) \in Int
    <3>1. at'[p] \in {"idle", "log", "notify", "synthesize"}
      BY <1>3
    <3> QED BY <1>2, <3>1, Phases
  <2>2. CallsLeft(p)' = Phase(at'[p])
    BY <1>3, <2>1 DEF CallsLeft
  <2> QED BY <1>1, <1>3, <2>1, <2>2 DEF CallsLeft
<1>4. ASSUME NEW s \in Sources,
             HarvestFails(p, s) \/ \E n \in 0 .. MaxFound : Harvest(p, s, n)
      PROVE  at[p] # "idle" /\ CallsLeft(p)' < CallsLeft(p)
  <2>1. at[p] = "harvest" /\ s \in left[p] /\ left'[p] = left[p] \ {s}
    BY <1>4 DEF HarvestFails, Harvest, NextSource, TypeOK
  <2>2. Cardinality(left'[p]) = Cardinality(left[p]) - 1
    BY <1>1, <2>1, FS_RemoveElement
  <2>3. CASE at' = at
    BY <1>1, <2>1, <2>2, <2>3, Phases DEF CallsLeft
  <2>4. CASE Goto(p, "log")
    BY <1>2, <1>3, <2>1, <2>4, Phases DEF Goto
  <2> QED BY <1>4, <2>1, <2>3, <2>4 DEF HarvestFails, Harvest
<1>5. CASE Harvested(p)
  BY <1>2, <1>3, <1>5, Phases DEF Harvested, Goto
<1>6. CASE SynthesizeFails(p) \/ \E n \in 0 .. found[p] : Synthesize(p, n)
  BY <1>2, <1>3, <1>6, Phases DEF SynthesizeFails, Synthesize, Synthesized, Goto
<1>7. CASE Notify(p) \/ NotifyFails(p)
  <2>1. at[p] = "notify" /\ at' = [at EXCEPT ![p] = "log"]
    BY <1>7 DEF Notify, NotifyFails, Notified, Goto
  <2>2. at'[p] = "log"
    BY <1>2, <2>1
  <2> QED BY <1>3, <2>1, <2>2, Phases
<1>8. CASE Log(p) \/ LogFails(p)
  <2>1. at[p] = "log" /\ at' = [at EXCEPT ![p] = "idle"]
    BY <1>8 DEF Log, LogFails, Return, Goto
  <2>2. at'[p] = "idle"
    BY <1>2, <2>1
  <2> QED BY <1>3, <2>1, <2>2, Phases
<1> QED
  BY <1>4, <1>5, <1>6, <1>7, <1>8 DEF Run

\* Other runs, and a kill, give a run nothing to do.
LEMMA OthersTakeNothing ==
  ASSUME TypeOK, NEW p \in Processes, at[p] # "idle", Next, ~ Run(p)
  PROVE  CallsLeft(p)' < CallsLeft(p) \/ CallsLeft(p)' = CallsLeft(p)
<1>1. PICK q \in Processes : (\E c \in Configs : Start(q, c)) \/ Run(q) \/ Kill(q)
  BY DEF Next
<1>2. CASE q # p
  <2>1. at'[p] = at[p] /\ left'[p] = left[p]
    BY <1>1, <1>2
    DEF Start, Run, Kill, HarvestFails, Harvest, NextSource, Harvested, Synthesize,
        SynthesizeFails, Synthesized, Notify, NotifyFails, Notified, Log, LogFails,
        Return, Goto, TypeOK
  <2> QED BY <2>1 DEF CallsLeft
<1>3. CASE q = p
  <2>1. at'[p] = "idle"
    BY <1>1, <1>3 DEF Start, Kill, Return, Goto, TypeOK
  <2>2. Cardinality(left[p]) \in Nat
    BY CallsLeftType
  <2>3. at[p] \in {"harvest", "synthesize", "notify", "log"}
    BY DEF TypeOK
  <2>4. Phase(at[p]) \in Nat \ {0}
    BY <2>3, Phases
  <2>5. CallsLeft(p) \in Nat \ {0}
    BY <2>2, <2>4 DEF CallsLeft
  <2>6. CallsLeft(p)' = 0
    BY <2>1, Phases DEF CallsLeft
  <2> QED BY <2>5, <2>6
<1> QED
  BY <1>2, <1>3

\* A run is over after a call per source and one each to conclude the harvests,
\* synthesize, notify and log, at the most; a failure never adds one to them, and
\* runs of other processes do not either.
THEOREM RunsComeToTheirEnd ==
  Spec => [](\A p \in Processes : CallsLeft(p) \in 0 .. MostCalls)
          /\ [][RunsWindDown]_vars
<1>1. TypeOK => \A p \in Processes : CallsLeft(p) \in 0 .. MostCalls
  BY CallsLeftType
<1>2. TypeOK /\ [Next]_vars => [RunsWindDown]_vars
  BY OwnStepIsNearer, OthersTakeNothing DEF RunsWindDown
<1> QED
  BY <1>1, <1>2, PipelineTypeCorrect, PTL DEF Spec
==============================================================================
