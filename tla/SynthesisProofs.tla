--------------------------- MODULE SynthesisProofs ---------------------------
(***************************************************************************)
(* Theorems of Synthesis, for every set of tenants, URLs, contents and     *)
(* workers and every value of the bounds.                                  *)
(***************************************************************************)
EXTENDS Synthesis, TLAPS

USE NoneAssumption, ConstantsAssumption

\* What Save leaves in the table, key by key.
LEMMA SaveRows ==
  ASSUME NEW tbl \in Table, NEW key \in Keys, NEW id \in Nat \ {0},
         NEW content \in Contents, NEW distillation \in Contents \cup {None},
         NEW meta \in {"harvested", "analysed"},
         NEW signal,
         signal = [content |-> content, distillation |-> distillation,
                   meta |-> meta, scope |-> "private"]
  PROVE  LET new == Save(tbl, key, signal, id) IN
         /\ new \in Table
         /\ \A k \in Keys \ {key} : new[k] = tbl[k]
         /\ new[key] \in Row
         /\ new[key].content = content
         /\ new[key].distillation = distillation
         /\ new[key].meta = meta
         /\ new[key].scope = tbl[key].scope
         /\ new[key].id = IF Exists(tbl, key) THEN tbl[key].id ELSE id
  BY DEF Save, Exists, Table, Row, NoRow, Scopes

\* What PromoteToTeam leaves in the table: the scope of rows the tenant can see.
LEMMA PromoteRows ==
  ASSUME NEW tbl \in Table, NEW t, NEW id
  PROVE  LET new == PromoteToTeam(tbl, t, id) IN
         /\ new \in Table
         /\ \A k \in Keys \ Matching(tbl, t, id) : new[k] = tbl[k]
         /\ \A k \in Matching(tbl, t, id) :
              /\ k \in Keys /\ TenantOf(k) = t /\ Exists(tbl, k) /\ tbl[k].id = id
              /\ new[k] \in Row
              /\ new[k].id = tbl[k].id
              /\ new[k].content = tbl[k].content
              /\ new[k].distillation = tbl[k].distillation
              /\ new[k].meta = tbl[k].meta
              /\ new[k].scope = "team"
  BY DEF PromoteToTeam, WithScope, Matching, Visible, Exists, Table, Row, NoRow, Scopes

\* A snapshot of existing rows is made of items.
LEMMA SnapshotItems ==
  ASSUME TypeOK, NEW S \in SUBSET Keys, \A k \in S : Exists(signals, k)
  PROVE  Snapshot(S) \in SUBSET Item
  BY DEF Snapshot, Item, TypeOK, Table, Exists, Row, NoRow

\* A batch is made of existing rows.
LEMMA BatchKeys ==
  ASSUME NEW t, NEW n
  PROVE  /\ FindUnsynthesized(signals, t, n) \in SUBSET Keys
         /\ \A k \in FindUnsynthesized(signals, t, n) : Exists(signals, k)
  BY DEF FindUnsynthesized, Unsynthesized, Visible

\* A worker that is in Synthesize has an item.
LEMMA ActiveCalls ==
  ASSUME TypeOK, NEW w \in Workers, InFlight(w)
  PROVE  /\ call[w] \in ActiveCall
         /\ call[w].item \in Item
         /\ call[w].item.key \in Keys
         /\ call[w].item.content \in Contents
         /\ call[w].output \in Contents \cup {None}
         /\ call[w].tier \in Tiers
  BY DEF TypeOK, InFlight, NoCall, ActiveCall, Item

\* The row a harvest save leaves: the content without a brief.
LEMMA HarvestRows ==
  ASSUME TypeOK, NEW key \in Keys, NEW c \in Contents, HarvestSave(key, c)
  PROVE  /\ signals' \in Table
         /\ \A k \in Keys \ {key} : signals'[k] = signals[k]
         /\ signals'[key] \in Row
         /\ signals'[key].content = c
         /\ signals'[key].distillation = None
         /\ signals'[key].scope = signals[key].scope
         /\ signals'[key].id = IF Exists(signals, key) THEN signals[key].id ELSE nextId
<1>1. signals' = Save(signals, key, Harvested(c), nextId)
  BY DEF HarvestSave, SaveSignal
<1>2. Harvested(c) = [content |-> c, distillation |-> None,
                      meta |-> "harvested", scope |-> "private"]
  BY DEF Harvested
<1>3. QED
  BY <1>1, <1>2, SaveRows DEF TypeOK

\* The row a worker leaves: the content it worked on, with what it made of it.
LEMMA PersistRows ==
  ASSUME TypeOK, NEW w \in Workers, Persist(w)
  PROVE  LET key == call[w].item.key IN
         /\ signals' \in Table
         /\ \A k \in Keys \ {key} : signals'[k] = signals[k]
         /\ signals'[key] \in Row
         /\ signals'[key].content = call[w].item.content
         /\ signals'[key].distillation = call[w].output
         /\ signals'[key].meta = "analysed"
         /\ signals'[key].scope = signals[key].scope
         /\ signals'[key].id = IF Exists(signals, key) THEN signals[key].id ELSE nextId
<1> DEFINE key == call[w].item.key
           content == call[w].item.content
           output == call[w].output
<1>1. key \in Keys /\ content \in Contents /\ output \in Contents \cup {None}
  BY ActiveCalls DEF Persist, InFlight
<1>2. signals' = Save(signals, key, Distilled(content, output), nextId)
  BY DEF Persist, SaveSignal
<1>3. Distilled(content, output) = [content |-> content, distillation |-> output,
                                    meta |-> "analysed", scope |-> "private"]
  BY DEF Distilled
<1> HIDE DEF key, content, output
<1>4. QED
  BY <1>1, <1>2, <1>3, SaveRows DEF TypeOK, key, content, output

------------------------------------------------------------------------------
\* Every variable keeps its type through every operation on the table.
THEOREM TypeCorrect == Spec => []TypeOK
<1>1. Init => TypeOK
  BY DEF Init, TypeOK, Table, Priorities, Standard
<1>2. TypeOK /\ [Next]_vars => TypeOK'
  <2> SUFFICES ASSUME TypeOK, [Next]_vars PROVE TypeOK'
    OBVIOUS
  <2> USE DEF TypeOK
  <2>1. ASSUME NEW k \in Keys, NEW c \in Contents, HarvestSave(k, c) PROVE TypeOK'
    <3>2. signals' \in Table
      BY <2>1, HarvestRows
    <3>3. /\ nextId' \in Nat \ {0}
          /\ actor' \in Tenants
          /\ finishers' \in [Keys -> SUBSET Workers]
      BY <2>1 DEF HarvestSave, SaveSignal, TenantOf, Keys
    <3>4. harvests' \in 0 .. MaxHarvests
      BY <2>1 DEF HarvestSave
    <3>5. QED
      BY <2>1, <3>2, <3>3, <3>4 DEF HarvestSave, workVars
  <2>2. ASSUME NEW t \in Tenants, NEW id, Promote(t, id) PROVE TypeOK'
    BY <2>2, PromoteRows DEF Promote, workVars, bounds
  <2>3. ASSUME NEW w \in CliWorkers, NEW t \in Tenants, NEW S \in SUBSET Keys,
               \A k \in S : Exists(signals, k),
               NEW p \in {Standard, High}, StartCli(w, t, S, p)
        PROVE  TypeOK'
    BY <2>3, SnapshotItems DEF StartCli, Workers, Services, Priorities, bounds
  <2>4. CASE Start
    <3>1. CASE \E w \in CliWorkers, t \in Tenants, p \in {Standard, High} :
                 StartBatch(w, t, p)
      BY <2>3, <3>1, BatchKeys DEF StartBatch
    <3>2. CASE \E w \in CliWorkers, k \in Keys, p \in {Standard, High} :
                 StartUrl(w, k, p)
      BY <2>3, <3>2 DEF StartUrl, TenantOf, Keys
    <3>3. ASSUME NEW w \in HttpWorkers, NEW k \in Keys, NEW c \in Contents,
                 NEW p \in Priorities, StartRequest(w, k, c, p)
          PROVE  TypeOK'
      BY <3>3 DEF StartRequest, Item, Workers, storeVars, bounds
    <3>4. QED
      BY <2>4, <3>1, <3>2, <3>3 DEF Start
  <2>5. ASSUME NEW w \in CliWorkers, Kill(w) PROVE TypeOK'
    BY <2>5 DEF Kill, Fault, Return, Workers, storeVars
  <2>6. ASSUME NEW w \in Workers, Work(w) PROVE TypeOK'
    <3>1. ASSUME NEW i \in todo[w], Check(w, i) PROVE TypeOK'
      BY <2>6, <3>1 DEF Check, NextRow, ActiveCall, Steps, Tiers, TenantOf, Item,
                        Keys
    <3>2. ASSUME NEW i \in todo[w], CheckFails(w, i) PROVE TypeOK'
      BY <2>6, <3>2 DEF CheckFails, NextRow, Fault
    <3>3. TrackOutcomes(w) \in SUBSET Nat
      BY <2>6 DEF TrackOutcomes, ServiceOf, Services, Workers
    <3>4. ServiceOf(w) \in Services
      BY <2>6 DEF ServiceOf, Services
    <3>5. ASSUME NEW high \in BOOLEAN, Extract(w, high) PROVE TypeOK'
      <4>1. call[w].item \in Item
        BY <3>5, ActiveCalls DEF Extract, InFlight
      <4>2. Route(priority[w], high) \in Tiers
        BY DEF Route, Tiers
      <4>3. call' \in [Workers -> ActiveCall \cup {NoCall}]
        BY <3>5, <4>1, <4>2 DEF Extract, ActiveCall, Steps
      <4>4. QED
        BY <3>3, <3>4, <3>5, <4>3 DEF Extract, Track, storeVars, bounds
    <3>6. ASSUME NEW d \in Contents \cup {None}, Summarize(w, d),
                 faults' \in 0 .. MaxFaults
          PROVE  TypeOK'
      <4>1. call[w].item \in Item /\ call[w].tier \in Tiers
        BY <3>6, ActiveCalls DEF Summarize, InFlight
      <4>2. call' \in [Workers -> ActiveCall \cup {NoCall}]
        BY <3>6, <4>1 DEF Summarize, ActiveCall, Steps
      <4>3. QED
        BY <3>3, <3>4, <3>6, <4>2 DEF Summarize, Track, storeVars
    <3>7. CASE SummarizeContent(w)
      <4>1. call[w].item.content \in Contents
        BY <3>7, ActiveCalls DEF SummarizeContent, Summarize, InFlight
      <4>2. QED
        BY <3>6, <3>7, <4>1 DEF SummarizeContent
    <3>8. CASE SummarizeNothing(w)
      BY <2>6, <3>6, <3>8 DEF SummarizeNothing, Fault
    <3>9. CASE Persist(w)
      <4>1. call[w].item.key \in Keys
        BY <3>9, ActiveCalls DEF Persist, InFlight
      <4>2. signals' \in Table
        BY <3>9, PersistRows
      <4>3. /\ nextId' \in Nat \ {0}
            /\ actor' \in Tenants
            /\ finishers' \in [Keys -> SUBSET Workers]
        BY <3>9, <4>1 DEF Persist, SaveSignal, TenantOf, Keys
      <4>4. call' \in [Workers -> ActiveCall \cup {NoCall}]
        BY <3>9 DEF Persist, Return, Services
      <4>5. QED
        BY <3>9, <4>2, <4>3, <4>4 DEF Persist, bounds
    <3>10. CASE Fail(w)
      BY <2>6, <3>10 DEF Fail, Fault, Return, storeVars
    <3>11. QED
      BY <2>6, <3>1, <3>2, <3>5, <3>7, <3>8, <3>9, <3>10 DEF Work
  <2>7. CASE UNCHANGED vars
    BY <2>7 DEF vars, storeVars, workVars, bounds
  <2>8. QED
    BY <2>1, <2>2, <2>4, <2>5, <2>6, <2>7 DEF Next
<1>3. QED
  BY <1>1, <1>2, PTL DEF Spec

------------------------------------------------------------------------------
(***************************************************************************)
(* The inductive invariant.  Two kinds of step change the table's contents *)
(* or the finishers: a harvest save and a worker's Persist.  Promote only  *)
(* changes scopes; the remaining steps move workers.                       *)
(***************************************************************************)

\* A save under one key keeps ids unique.
LEMMA UniqueIdsAfterSave ==
  ASSUME TypeOK, TypeOK', UniqueIds, NEW key \in Keys,
         \A k \in Keys \ {key} : signals'[k] = signals[k],
         signals'[key].id = IF Exists(signals, key) THEN signals[key].id ELSE nextId,
         nextId' = IF Exists(signals, key) THEN nextId ELSE nextId + 1
  PROVE  UniqueIds'
<1>1. \A k \in Keys : signals[k].id \in Nat /\ signals'[k].id \in Nat
  BY DEF TypeOK, Table, Row, NoRow
<1>2. nextId \in Nat \ {0}
  BY DEF TypeOK
<1>3. QED
  BY <1>1, <1>2 DEF UniqueIds, Exists

\* Steps that leave the rows and the finishers alone keep what is said of them.
LEMMA QuietStore ==
  ASSUME DistillationMatchesContent, FinishedIsDistilled, UniqueIds,
         UNCHANGED <<signals, nextId, finishers>>
  PROVE  DistillationMatchesContent' /\ FinishedIsDistilled' /\ UniqueIds'
  BY DEF DistillationMatchesContent, FinishedIsDistilled, UniqueIds, Exists

\* A worker that returns, or keeps its item while nothing is stored, keeps what
\* is said of workers.
LEMMA QuietWorkers ==
  ASSUME TypeOK, NoRepeatedWork, OutputOfItem, UNCHANGED finishers, NEW w \in Workers,
         \A v \in Workers \ {w} : call'[v] = call[v],
         \/ call'[w] = call[w]
         \/ call'[w] = NoCall
         \/ /\ InFlight(w)
            /\ call'[w].item = call[w].item
            /\ call'[w].output \in {None, call[w].item.content}
  PROVE  NoRepeatedWork' /\ OutputOfItem'
  BY DEF NoRepeatedWork, OutputOfItem, InFlight, NoCall

\* Every reachable state satisfies the inductive invariant.
THEOREM Invariance == Spec => []InductiveInvariant
<1>1. Init => InductiveInvariant
  <2> SUFFICES ASSUME Init PROVE InductiveInvariant
    OBVIOUS
  <2>1. TypeOK
    BY DEF Init, TypeOK, Table, Priorities, Standard
  <2>2. QED
    BY <2>1 DEF Init, InductiveInvariant, DistillationMatchesContent, NoRepeatedWork,
                OutputOfItem, FinishedIsDistilled, UniqueIds, NoRow, NoCall, InFlight,
                Exists
<1>2. InductiveInvariant /\ TypeOK' /\ [Next]_vars => InductiveInvariant'
  <2> SUFFICES ASSUME InductiveInvariant, TypeOK', [Next]_vars
               PROVE  InductiveInvariant'
    OBVIOUS
  <2>0. /\ TypeOK /\ DistillationMatchesContent /\ NoRepeatedWork /\ OutputOfItem
        /\ FinishedIsDistilled /\ UniqueIds
    BY DEF InductiveInvariant
  <2>1. ASSUME NEW key \in Keys, NEW c \in Contents, HarvestSave(key, c)
        PROVE  InductiveInvariant'
    <3>1. /\ \A k \in Keys \ {key} : signals'[k] = signals[k]
          /\ signals'[key].distillation = None
          /\ signals'[key].id = IF Exists(signals, key) THEN signals[key].id ELSE nextId
      BY <2>0, <2>1, HarvestRows
    <3>2. /\ finishers' = [finishers EXCEPT ![key] = {}]
          /\ nextId' = IF Exists(signals, key) THEN nextId ELSE nextId + 1
          /\ call' = call
      BY <2>1 DEF HarvestSave, SaveSignal, Harvested, workVars
    <3>3. UniqueIds'
      BY <2>0, <3>1, <3>2, UniqueIdsAfterSave
    <3>4. DistillationMatchesContent' /\ FinishedIsDistilled'
      BY <2>0, <3>1, <3>2 DEF DistillationMatchesContent, FinishedIsDistilled, TypeOK
    <3>5. NoRepeatedWork' /\ OutputOfItem'
      BY <2>0, <3>2, ActiveCalls DEF NoRepeatedWork, OutputOfItem, InFlight, TypeOK
    <3>6. QED
      BY <3>3, <3>4, <3>5 DEF InductiveInvariant
  <2>2. ASSUME NEW t \in Tenants, NEW id, Promote(t, id)
        PROVE  InductiveInvariant'
    <3>1. \A k \in Keys : /\ signals'[k].id = signals[k].id
                          /\ signals'[k].content = signals[k].content
                          /\ signals'[k].distillation = signals[k].distillation
                          /\ signals'[k].meta = signals[k].meta
      BY <2>0, <2>2, PromoteRows DEF Promote, TypeOK
    <3>2. UNCHANGED <<nextId, finishers, call>>
      BY <2>2 DEF Promote, workVars
    <3>3. QED
      BY <2>0, <3>1, <3>2
      DEF InductiveInvariant, DistillationMatchesContent, NoRepeatedWork, OutputOfItem,
          FinishedIsDistilled, UniqueIds, InFlight, Exists
  <2>3. CASE Start
    <3>1. UNCHANGED <<signals, nextId, finishers, call>>
      BY <2>3 DEF Start, StartBatch, StartUrl, StartCli, StartRequest, storeVars
    <3>2. QED
      BY <2>0, <3>1, QuietStore
      DEF InductiveInvariant, NoRepeatedWork, OutputOfItem, InFlight
  <2>4. ASSUME NEW w \in CliWorkers, Kill(w) PROVE InductiveInvariant'
    <3>1. /\ UNCHANGED <<signals, nextId, finishers>>
          /\ call' = [call EXCEPT ![w] = NoCall]
          /\ w \in Workers
      BY <2>4 DEF Kill, Return, storeVars, Workers
    <3>2. NoRepeatedWork' /\ OutputOfItem'
      BY <2>0, <3>1, QuietWorkers DEF TypeOK
    <3>3. QED
      BY <2>0, <3>1, <3>2, QuietStore DEF InductiveInvariant
  <2>5. ASSUME NEW w \in Workers, Work(w) PROVE InductiveInvariant'
    <3>1. ASSUME NEW i \in todo[w], Check(w, i) PROVE InductiveInvariant'
      <4>1. UNCHANGED <<signals, nextId, finishers>>
        BY <3>1 DEF Check, NextRow
      <4>2. CASE IsCached(i.key)
        BY <2>0, <3>1, <4>1, <4>2, QuietStore
        DEF Check, InductiveInvariant, NoRepeatedWork, OutputOfItem, InFlight
      <4>3. CASE ~ IsCached(i.key)
        <5>1. call' = [call EXCEPT ![w] = [step |-> "extract", item |-> i,
                                           tier |-> "flash", output |-> None]]
          BY <3>1, <4>3 DEF Check
        <5>2. i.key \in Keys
          BY <2>0 DEF TypeOK, Item
        <5>3. signals[i.key].distillation = None
          BY <2>0, <4>3, <5>2 DEF IsCached, Exists, TypeOK, Table, Row, NoRow
        <5>4. finishers[i.key] = {}
          BY <2>0, <5>2, <5>3 DEF FinishedIsDistilled
        <5>5. OutputOfItem' /\ NoRepeatedWork'
          BY <2>0, <4>1, <5>1, <5>4 DEF OutputOfItem, NoRepeatedWork, InFlight, TypeOK
        <5>6. QED
          BY <2>0, <4>1, <5>5, QuietStore DEF InductiveInvariant
      <4>4. QED
        BY <4>2, <4>3
    <3>2. ASSUME NEW i \in todo[w], CheckFails(w, i) PROVE InductiveInvariant'
      BY <2>0, <3>2, QuietStore
      DEF CheckFails, NextRow, InductiveInvariant, NoRepeatedWork, OutputOfItem, InFlight
    <3>3. ASSUME NEW high \in BOOLEAN, Extract(w, high) PROVE InductiveInvariant'
      <4>1. /\ UNCHANGED <<signals, nextId, finishers>>
            /\ InFlight(w)
            /\ \A v \in Workers \ {w} : call'[v] = call[v]
            /\ call'[w].item = call[w].item
            /\ call'[w].output = None
        BY <2>0, <3>3 DEF Extract, InFlight, storeVars, TypeOK
      <4>2. QED
        BY <2>0, <4>1, QuietStore, QuietWorkers DEF InductiveInvariant
    <3>4. ASSUME NEW d \in {None, call[w].item.content}, Summarize(w, d)
          PROVE  InductiveInvariant'
      <4>1. /\ UNCHANGED <<signals, nextId, finishers>>
            /\ InFlight(w)
            /\ \A v \in Workers \ {w} : call'[v] = call[v]
            /\ call'[w].item = call[w].item
            /\ call'[w].output = d
        BY <2>0, <3>4 DEF Summarize, InFlight, storeVars, TypeOK
      <4>2. QED
        BY <2>0, <4>1, QuietStore, QuietWorkers DEF InductiveInvariant
    <3>5. CASE SummarizeContent(w)
      BY <3>4, <3>5 DEF SummarizeContent
    <3>6. CASE SummarizeNothing(w)
      BY <3>4, <3>6 DEF SummarizeNothing
    <3>7. CASE Persist(w)
      <4> DEFINE key == call[w].item.key
      <4>1. key \in Keys
        BY <2>0, <3>7, ActiveCalls DEF Persist, InFlight
      <4>2. /\ \A k \in Keys \ {key} : signals'[k] = signals[k]
            /\ signals'[key].content = call[w].item.content
            /\ signals'[key].distillation = call[w].output
            /\ signals'[key].meta = "analysed"
            /\ signals'[key].id = IF Exists(signals, key) THEN signals[key].id ELSE nextId
        BY <2>0, <3>7, PersistRows
      <4>3. /\ nextId' = IF Exists(signals, key) THEN nextId ELSE nextId + 1
            /\ finishers' = [finishers EXCEPT ![key] =
                               IF call[w].output = None THEN {} ELSE @ \cup {w}]
            /\ call' = [call EXCEPT ![w] = NoCall]
        BY <3>7 DEF Persist, SaveSignal, Distilled, Return
      <4>4. call[w].output \in {None, call[w].item.content}
        BY <2>0 DEF OutputOfItem
      <4> HIDE DEF key
      <4>5. UniqueIds'
        BY <2>0, <4>1, <4>2, <4>3, UniqueIdsAfterSave
      <4>6. DistillationMatchesContent' /\ FinishedIsDistilled'
        BY <2>0, <4>1, <4>2, <4>3, <4>4
        DEF DistillationMatchesContent, FinishedIsDistilled, TypeOK
      <4>7. NoRepeatedWork'
        <5> SUFFICES ASSUME NEW v \in Workers, InFlight(v)'
                     PROVE  (v \notin finishers[call[v].item.key])'
          BY DEF NoRepeatedWork
        <5>1. v # w /\ call'[v] = call[v] /\ InFlight(v)
          BY <2>0, <4>3 DEF InFlight, NoCall, TypeOK
        <5>2. call[v].item.key \in Keys /\ v \notin finishers[call[v].item.key]
          BY <2>0, <5>1, ActiveCalls DEF NoRepeatedWork
        <5>3. QED
          BY <2>0, <4>1, <4>3, <5>1, <5>2 DEF TypeOK
      <4>8. OutputOfItem'
        BY <2>0, <4>3 DEF OutputOfItem, NoCall, TypeOK
      <4>9. QED
        BY <4>5, <4>6, <4>7, <4>8 DEF InductiveInvariant
    <3>8. CASE Fail(w)
      <4>1. /\ UNCHANGED <<signals, nextId, finishers>>
            /\ call' = [call EXCEPT ![w] = NoCall]
        BY <3>8 DEF Fail, Return, storeVars
      <4>2. QED
        BY <2>0, <4>1, QuietStore, QuietWorkers DEF InductiveInvariant, TypeOK
    <3>9. QED
      BY <2>5, <3>1, <3>2, <3>3, <3>5, <3>6, <3>7, <3>8 DEF Work
  <2>6. CASE UNCHANGED vars
    BY <2>0, <2>6, QuietStore
    DEF vars, storeVars, workVars, InductiveInvariant, NoRepeatedWork, OutputOfItem,
        InFlight
  <2>7. QED
    BY <2>1, <2>2, <2>3, <2>4, <2>5, <2>6 DEF Next
<1>3. QED
  BY <1>1, <1>2, TypeCorrect, PTL DEF Spec

\* However saves and snapshots interleave, a stored brief is that of the stored
\* content.
THEOREM BriefsMatch == Spec => []DistillationMatchesContent
  BY Invariance, PTL DEF InductiveInvariant

\* No worker pays twice for one distillation.
THEOREM WorkIsNotRepeated == Spec => []NoRepeatedWork
  BY Invariance, PTL DEF InductiveInvariant

------------------------------------------------------------------------------
(***************************************************************************)
(* What one step does to the table: nothing, one key of the transaction's  *)
(* tenant saved, or rows of that tenant promoted.                          *)
(***************************************************************************)
Saves(key) ==
  /\ key \in Keys
  /\ actor' = TenantOf(key)
  /\ \A k \in Keys \ {key} : signals'[k] = signals[k]
  /\ signals'[key] \in Row
  /\ signals'[key].distillation \in {None, signals'[key].content}
  /\ signals'[key].scope = signals[key].scope
  /\ Exists(signals, key) => signals'[key].id = signals[key].id

Promotes(t, id) ==
  /\ actor' = t
  /\ \A k \in Keys \ Matching(signals, t, id) : signals'[k] = signals[k]
  /\ \A k \in Matching(signals, t, id) :
       /\ k \in Keys /\ TenantOf(k) = t /\ Exists(signals, k) /\ signals[k].id = id
       /\ signals'[k].id = signals[k].id
       /\ signals'[k].content = signals[k].content
       /\ signals'[k].distillation = signals[k].distillation
       /\ signals'[k].scope = "team"

LEMMA StoreSteps ==
  ASSUME InductiveInvariant, [Next]_vars
  PROVE  \/ UNCHANGED signals
         \/ \E key \in Keys : Saves(key)
         \/ \E t \in Tenants : \E id : Promotes(t, id)
<1>0. TypeOK /\ OutputOfItem
  BY DEF InductiveInvariant
<1>1. ASSUME NEW key \in Keys, NEW c \in Contents, HarvestSave(key, c)
      PROVE  Saves(key)
  <2>1. actor' = TenantOf(key)
    BY <1>1 DEF HarvestSave, SaveSignal
  <2>2. QED
    BY <1>0, <1>1, <2>1, HarvestRows DEF Saves
<1>2. ASSUME NEW t \in Tenants, NEW id, Promote(t, id) PROVE Promotes(t, id)
  BY <1>0, <1>2, PromoteRows DEF Promote, Promotes, TypeOK
<1>3. CASE Start
  BY <1>3 DEF Start, StartBatch, StartUrl, StartCli, StartRequest, storeVars
<1>4. ASSUME NEW w \in CliWorkers, Kill(w) PROVE UNCHANGED signals
  BY <1>4 DEF Kill, storeVars
<1>5. ASSUME NEW w \in Workers, Persist(w) PROVE Saves(call[w].item.key)
  <2>1. call[w].item.key \in Keys
    BY <1>0, <1>5, ActiveCalls DEF Persist, InFlight
  <2>2. actor' = TenantOf(call[w].item.key)
    BY <1>5 DEF Persist, SaveSignal
  <2>3. call[w].output \in {None, call[w].item.content}
    BY <1>0 DEF OutputOfItem
  <2>4. QED
    BY <1>0, <1>5, <2>1, <2>2, <2>3, PersistRows DEF Saves
<1>6. ASSUME NEW w \in Workers, Work(w), ~ Persist(w) PROVE UNCHANGED signals
  BY <1>6 DEF Work, Check, CheckFails, NextRow, Extract, SummarizeContent,
              SummarizeNothing, Summarize, Fail, storeVars
<1>7. CASE UNCHANGED vars
  BY <1>7 DEF vars, storeVars
<1>8. ASSUME NEW w \in Workers, Work(w)
      PROVE  UNCHANGED signals \/ \E key \in Keys : Saves(key)
  BY <1>5, <1>6, <1>8 DEF Saves
<1>9. QED
  BY <1>1, <1>2, <1>3, <1>4, <1>7, <1>8 DEF Next

\* Upserts keep a row's id, and no Save takes a row back from the team.
THEOREM IdentityKept == Spec => RowsKeepIdentity
<1>1. InductiveInvariant /\ [Next]_vars =>
        [\A k \in Keys :
           Exists(signals, k) =>
             /\ signals'[k].id = signals[k].id
             /\ signals[k].scope = "team" => signals'[k].scope = "team"]_vars
  BY StoreSteps DEF Saves, Promotes
<1>2. QED
  BY <1>1, Invariance, PTL DEF Spec, RowsKeepIdentity

\* Only transactions of the tenant itself change its rows.
THEOREM TenantsIsolated == Spec => TenantIsolation
<1>1. InductiveInvariant /\ [Next]_vars =>
        [\A k \in Keys : signals'[k] # signals[k] => TenantOf(k) = actor']_vars
  BY StoreSteps DEF Saves, Promotes
<1>2. QED
  BY <1>1, Invariance, PTL DEF Spec, TenantIsolation

\* The table, with all its workers, implements the library.
THEOREM LibraryImplemented == Spec => ImplementsLibrary
<1>1. Init => Lib!Init
  <2> SUFFICES ASSUME Init PROVE LibraryOf(signals) = [k \in Keys |-> Lib!Absent]
    BY DEF Lib!Init
  <2>1. \A k \in Keys : signals[k] = NoRow
    BY DEF Init
  <2>2. \A k \in Keys :
          [content |-> signals[k].content, brief |-> signals[k].distillation,
           shared |-> signals[k].scope = "team"] = Lib!Absent
    <3>1. NoRow.content = None /\ NoRow.distillation = None /\ NoRow.scope # "team"
      BY DEF NoRow
    <3>2. (NoRow.scope = "team") = FALSE
      BY <3>1
    <3>3. QED
      BY <2>1, <3>1, <3>2, Zenon DEF Lib!Absent
  <2>3. QED
    BY <2>2, Zenon DEF LibraryOf
<1>2. InductiveInvariant /\ [Next]_vars => [Lib!Next]_(LibraryOf(signals))
  <2> SUFFICES ASSUME InductiveInvariant, [Next]_vars
               PROVE  [Lib!Next]_(LibraryOf(signals))
    OBVIOUS
  <2>0. TypeOK /\ UniqueIds
    BY DEF InductiveInvariant
  <2>1. CASE UNCHANGED signals
    BY <2>1 DEF LibraryOf
  <2>2. ASSUME NEW key \in Keys, Saves(key) PROVE Lib!Next
    <3> DEFINE c == signals'[key].content
    <3>1. c \in Contents
      BY <2>2 DEF Saves, Row
    <3>2. \A k \in Keys \ {key} : LibraryOf(signals)'[k] = LibraryOf(signals)[k]
      BY <2>2 DEF Saves, LibraryOf
    <3>3. LibraryOf(signals)'[key] =
            [content |-> c, brief |-> signals'[key].distillation,
             shared |-> LibraryOf(signals)[key].shared]
      BY <2>2 DEF Saves, LibraryOf
    <3>4. CASE signals'[key].distillation = None
      <4>1. Lib!Learn(key, c)
        BY <3>2, <3>3, <3>4 DEF Lib!Learn, LibraryOf
      <4>2. QED
        BY <3>1, <4>1 DEF Lib!Next
    <3>5. CASE signals'[key].distillation = c
      <4>1. Lib!File(key, c)
        BY <3>2, <3>3, <3>5 DEF Lib!File, LibraryOf
      <4>2. QED
        BY <3>1, <4>1 DEF Lib!Next
    <3>6. QED
      BY <2>2, <3>4, <3>5 DEF Saves
  <2>3. ASSUME NEW t \in Tenants, NEW id, Promotes(t, id)
        PROVE  [Lib!Next]_(LibraryOf(signals))
    <3>1. CASE Matching(signals, t, id) = {}
      BY <2>3, <3>1 DEF Promotes, LibraryOf
    <3>2. CASE Matching(signals, t, id) # {}
      <4>1. PICK key \in Matching(signals, t, id) : TRUE
        BY <3>2
      <4>2. key \in Keys /\ Exists(signals, key) /\ signals[key].id = id
        BY <2>3 DEF Promotes
      <4>3. \A k \in Keys \ {key} : signals'[k] = signals[k]
        BY <2>0, <2>3, <4>2 DEF Promotes, UniqueIds
      <4>4. LibraryOf(signals)'[key] = [content |-> signals[key].content,
                                        brief |-> signals[key].distillation,
                                        shared |-> TRUE]
        BY <2>3, <4>2 DEF Promotes, LibraryOf
      <4>5. signals[key].content # None
        BY <2>0, <4>2 DEF TypeOK, Table, Row, NoRow, Exists
      <4>6. Lib!Share(key)
        BY <4>2, <4>3, <4>4, <4>5 DEF Lib!Share, LibraryOf
      <4>7. QED
        BY <4>2, <4>6 DEF Lib!Next
    <3>3. QED
      BY <3>1, <3>2
  <2>4. QED
    BY <2>1, <2>2, <2>3, StoreSteps
<1>3. QED
  BY <1>1, <1>2, Invariance, PTL DEF Spec, ImplementsLibrary, Lib!Spec
------------------------------------------------------------------------------
(***************************************************************************)
(* Why the backlog drains.  Only two things put a distilled row back on    *)
(* it, and each step of a worker leaves fewer rows of its batch, or fewer  *)
(* calls for the row it is at.                                             *)
(***************************************************************************)
EmptyBriefSaved(k) ==
  \E w \in Workers : Persist(w) /\ call[w].item.key = k /\ call[w].output = None

BriefsAreKept ==
  \A k \in Keys :
    signals[k].distillation # None /\ signals'[k].distillation = None =>
      EmptyBriefSaved(k) \/ \E c \in Contents : HarvestSave(k, c)

Fewer(S, T) == S \subseteq T /\ S # T

\* Calls that Synthesize still makes for the row.
CallsLeft(step) ==
  CASE step = "extract" -> 3
    [] step = "summarize" -> 2
    [] step = "save" -> 1
    [] step = "ready" -> 0

LessWork(w) ==
  \/ Fewer(todo'[w], todo[w])
  \/ /\ todo'[w] = todo[w]
     /\ CallsLeft(call'[w].step) < CallsLeft(call[w].step)

BatchesWindDown ==
  \A w \in Workers : ~ Idle(w) =>
    /\ Work(w) => LessWork(w)
    /\ LessWork(w) \/ Idle(w)' \/ UNCHANGED <<todo[w], call[w]>>

\* A stored brief is lost only to a harvest of its link or to a model that answers
\* with nothing: no kill, failure, promotion or worker with an old snapshot puts a
\* distilled row back on the backlog.
THEOREM BacklogOnlyRefilled == Spec => [][BriefsAreKept]_vars
<1>1. TypeOK /\ [Next]_vars => [BriefsAreKept]_vars
  <2> SUFFICES ASSUME TypeOK, Next, NEW k \in Keys,
                      signals[k].distillation # None, signals'[k].distillation = None
               PROVE  EmptyBriefSaved(k) \/ \E c \in Contents : HarvestSave(k, c)
    BY DEF BriefsAreKept
  <2>1. ASSUME NEW key \in Keys, NEW c \in Contents, HarvestSave(key, c)
        PROVE  key = k
    BY <2>1, HarvestRows
  <2>2. ASSUME NEW w \in Workers, Persist(w) PROVE EmptyBriefSaved(k)
    BY <2>2, PersistRows DEF EmptyBriefSaved
  <2>3. ASSUME NEW t \in Tenants, NEW id, Promote(t, id) PROVE FALSE
    BY <2>3, PromoteRows DEF Promote, TypeOK
  <2>4. ASSUME UNCHANGED signals PROVE FALSE
    BY <2>4
  <2>5. ASSUME NEW w \in Workers, Work(w) PROVE Persist(w)
    BY <2>4, <2>5 DEF Work, Check, CheckFails, NextRow, Extract, SummarizeContent,
                      SummarizeNothing, Summarize, Fail, storeVars
  <2>6. CASE Start \/ \E w \in CliWorkers : Kill(w)
    BY <2>4, <2>6 DEF Start, StartBatch, StartUrl, StartCli, StartRequest, Kill, storeVars
  <2>7. QED
    BY <2>1, <2>2, <2>3, <2>5, <2>6 DEF Next
<1>2. QED
  BY <1>1, TypeCorrect, PTL DEF Spec

LEMMA WorkIsProgress ==
  ASSUME TypeOK, NEW w \in Workers, Work(w)
  PROVE  LessWork(w)
<1> USE DEF TypeOK, LessWork, Fewer, CallsLeft
<1>1. ASSUME NEW i \in todo[w], Check(w, i) \/ CheckFails(w, i) PROVE LessWork(w)
  BY <1>1 DEF Check, CheckFails, NextRow
<1>2. ASSUME NEW high \in BOOLEAN, Extract(w, high) PROVE LessWork(w)
  <2>1. call[w].step = "extract" /\ call'[w].step = "summarize" /\ todo' = todo
    BY <1>2 DEF Extract
  <2>2. QED
    BY <2>1
<1>3. ASSUME NEW d, Summarize(w, d) PROVE LessWork(w)
  <2>1. call[w].step = "summarize" /\ call'[w].step = "save" /\ todo' = todo
    BY <1>3 DEF Summarize
  <2>2. QED
    BY <2>1
<1>4. ASSUME InFlight(w), Return(w), todo' = todo PROVE LessWork(w)
  <2>1. call[w].step \in Steps /\ call'[w].step = "ready"
    BY <1>4 DEF InFlight, Return, NoCall, ActiveCall
  <2>2. QED
    BY <1>4, <2>1 DEF Steps
<1>5. CASE Persist(w) \/ Fail(w)
  BY <1>4, <1>5 DEF Persist, Fail, InFlight
<1>6. QED
  BY <1>1, <1>2, <1>3, <1>5 DEF Work, SummarizeContent, SummarizeNothing

\* A worker takes the rows of its snapshot one by one, each with three calls at
\* most; nothing that others do adds to either, so every batch ends.
THEOREM BatchesMakeProgress == Spec => [][BatchesWindDown]_vars
<1>1. TypeOK /\ [Next]_vars => [BatchesWindDown]_vars
  <2> SUFFICES ASSUME TypeOK, Next, NEW w \in Workers, ~ Idle(w)
               PROVE  /\ Work(w) => LessWork(w)
                      /\ LessWork(w) \/ Idle(w)' \/ UNCHANGED <<todo[w], call[w]>>
    BY DEF BatchesWindDown
  <2> USE DEF TypeOK
  <2>1. ASSUME NEW v \in Workers, Work(v), v # w PROVE UNCHANGED <<todo[w], call[w]>>
    BY <2>1 DEF Work, Check, CheckFails, NextRow, Extract, SummarizeContent,
                SummarizeNothing, Summarize, Persist, Fail, Return
  <2>2. ASSUME Start PROVE UNCHANGED <<todo[w], call[w]>>
    <3>1. PICK v \in Workers : Idle(v) /\ call' = call /\ \E S : todo' = [todo EXCEPT ![v] = S]
      BY <2>2 DEF Start, StartBatch, StartUrl, StartCli, StartRequest, Workers
    <3>2. QED
      BY <3>1
  <2>3. ASSUME NEW v \in CliWorkers, Kill(v)
        PROVE  Idle(w)' \/ UNCHANGED <<todo[w], call[w]>>
    BY <2>3 DEF Kill, Return, Idle, InFlight, NoCall, Workers
  <2>4. ASSUME \/ \E k \in Keys, c \in Contents : HarvestSave(k, c)
               \/ \E t \in Tenants, id \in 1 .. (nextId - 1) : Promote(t, id)
        PROVE  UNCHANGED <<todo[w], call[w]>>
    BY <2>4 DEF HarvestSave, Promote, workVars
  <2>5. QED
    BY <2>1, <2>2, <2>3, <2>4, WorkIsProgress DEF Next
<1>2. QED
  BY <1>1, TypeCorrect, PTL DEF Spec
==============================================================================
