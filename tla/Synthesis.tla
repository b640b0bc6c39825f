------------------------------ MODULE Synthesis ------------------------------
(***************************************************************************)
(* Harvesting into, distilling and promoting the signals table, by         *)
(* processes that share nothing but the table:                             *)
(*   - `signal-flow harvest` saves what it finds (cli/harvest.go);         *)
(*   - `signal-flow synthesize`, a CliWorker, takes a snapshot of the      *)
(*     backlog and runs SynthesizerService.Synthesize on each row of it    *)
(*     (cli/synthesize.go, intelligence/synthesizer.go);                   *)
(*   - POST /api/synthesize, a HttpWorker, runs it on a posted content     *)
(*     through the one service the server holds (api/synthesize_handler.go)*)
(*   - POST /api/signals/{id}/promote (api/signal_handler.go).             *)
(* Synthesize visits the table twice, with two LLM calls in between; every *)
(* visit and every LLM call is a step of its own.                          *)
(***************************************************************************)
EXTENDS SignalStore

CONSTANTS
  CliWorkers,   \* synthesize processes
  HttpWorkers,  \* handlers of the server
  Server,       \* the service the handlers share
  Poison,       \* URLs whose content makes the LLM fail whenever it is asked
  BatchLimit,   \* --limit of synthesize
  MaxHarvests,  \* bound: Save calls by harvesting
  MaxFaults,    \* bound: faults (see Fault)
  MaxTracked    \* bound: usage entries a service may collect

ASSUME ConstantsAssumption ==
  /\ CliWorkers \cap HttpWorkers = {}
  /\ Server \notin CliWorkers
  /\ BatchLimit \in Nat /\ MaxHarvests \in Nat
  /\ MaxFaults \in Nat /\ MaxTracked \in Nat

Workers == CliWorkers \cup HttpWorkers

\* A CLI process builds a service of its own; the handlers share one.
Services == CliWorkers \cup {Server}

ServiceOf(w) == IF w \in CliWorkers THEN w ELSE Server

\* domain.Priority: Low = 0, Standard = 1, High = 2.
Low == 0
Standard == 1
High == 2
Priorities == {Low, Standard, High}

Tiers == {"flash", "reasoning"}

VARIABLES
  signals,    \* the table
  nextId,     \* the id of the next inserted row
  todo,       \* rows of its snapshot each worker has not come to yet
  priority,   \* ContextParams.Priority of each worker's calls
  call,       \* the locals of each worker's call of Synthesize
  tracker,    \* entries in each service's UsageTracker
  \* Observer variables: no guard of the code's reads them.
  actor,      \* tenant of the last transaction (app.current_tenant_id)
  finishers,  \* who saved a distillation of a key since it last had none
  harvests,   \* Save calls by harvesting, for the bound
  faults      \* faults so far, for the bound

storeVars == <<signals, nextId, actor, finishers>>
workVars == <<todo, priority, call>>
bounds == <<harvests, faults>>
vars == <<storeVars, workVars, tracker, bounds>>

Item == [key : Keys, id : Nat, content : Contents]

NoItem == [key |-> <<None, None>>, id |-> 0, content |-> None]

\* step is what Synthesize calls next; "ready" is between two Synthesize calls.
Steps == {"extract", "summarize", "save"}

NoCall == [step |-> "ready", item |-> NoItem, tier |-> "flash", output |-> None]

ActiveCall == [step : Steps, item : Item, tier : Tiers,
               output : Contents \cup {None}]

InFlight(w) == call[w].step # "ready"

Idle(w) == ~ InFlight(w) /\ todo[w] = {}

Init ==
  /\ signals = [k \in Keys |-> NoRow]
  /\ nextId = 1
  /\ todo = [w \in Workers |-> {}]
  /\ priority = [w \in Workers |-> Standard]
  /\ call = [w \in Workers |-> NoCall]
  /\ tracker = [s \in Services |-> 0]
  /\ actor \in Tenants
  /\ finishers = [k \in Keys |-> {}]
  /\ harvests = 0
  /\ faults = 0

------------------------------------------------------------------------------
(***************************************************************************)
(* The table.                                                              *)
(***************************************************************************)

\* One transaction of Save; by is who finished the distillation it carries.
SaveSignal(key, signal, by) ==
  /\ signals' = Save(signals, key, signal, nextId)
  /\ nextId' = IF Exists(signals, key) THEN nextId ELSE nextId + 1
  /\ actor' = TenantOf(key)
  /\ finishers' = [finishers EXCEPT ![key] =
                     IF signal.distillation = None THEN {} ELSE @ \cup by]

\* One turn of the save loop of runHarvest, for a link its timeline held.  A
\* Save that fails is reported and skipped, and changes nothing.
HarvestSave(key, content) ==
  /\ harvests < MaxHarvests
  /\ harvests' = harvests + 1
  /\ SaveSignal(key, Harvested(content), {})
  /\ UNCHANGED <<workVars, tracker, faults>>

\* The Promote handler; with an id the tenant cannot see it changes no row.
Promote(t, id) ==
  /\ signals' = PromoteToTeam(signals, t, id)
  /\ actor' = t
  /\ UNCHANGED <<nextId, finishers, workVars, tracker, bounds>>

------------------------------------------------------------------------------
(***************************************************************************)
(* Starting and stopping a worker.                                         *)
(***************************************************************************)

Snapshot(keys) ==
  {[key |-> k, id |-> signals[k].id, content |-> signals[k].content] : k \in keys}

\* A synthesize process starts on the given rows with a service of its own.
StartCli(w, t, keys, p) ==
  /\ Idle(w)
  /\ todo' = [todo EXCEPT ![w] = Snapshot(keys)]
  /\ priority' = [priority EXCEPT ![w] = p]
  /\ tracker' = [tracker EXCEPT ![w] = 0]
  /\ actor' = t
  /\ UNCHANGED <<signals, nextId, finishers, call, bounds>>

\* synthesize: the newest BatchLimit rows without a distillation.
StartBatch(w, t, p) == StartCli(w, t, FindUnsynthesized(signals, t, BatchLimit), p)

\* synthesize --url: one row, distilled or not.
StartUrl(w, key, p) ==
  /\ Exists(signals, key)
  /\ StartCli(w, TenantOf(key), {key}, p)

\* POST /api/synthesize: the URL need not have a row, and any priority goes.
StartRequest(w, key, content, p) ==
  /\ Idle(w)
  /\ tracker[Server] < MaxTracked
  /\ todo' = [todo EXCEPT ![w] = {[key |-> key, id |-> 0, content |-> content]}]
  /\ priority' = [priority EXCEPT ![w] = p]
  /\ UNCHANGED <<storeVars, tracker, call, bounds>>

\* Synthesize returns: its locals are gone.
Return(w) == call' = [call EXCEPT ![w] = NoCall]

\* Something goes wrong that goes right at another attempt.
Fault ==
  /\ faults < MaxFaults
  /\ faults' = faults + 1

\* A synthesize process is killed, wherever it is.
Kill(w) ==
  /\ ~ Idle(w)
  /\ Fault
  /\ Return(w)
  /\ todo' = [todo EXCEPT ![w] = {}]
  /\ UNCHANGED <<storeVars, tracker, priority, harvests>>

------------------------------------------------------------------------------
(***************************************************************************)
(* SynthesizerService.Synthesize.                                          *)
(***************************************************************************)

\* Mutant of IsCached: err # nil where err = nil is meant.
IsCachedInverted(key) == ~ Exists(signals, key)

\* The idempotency check: a row that already has a distillation.
IsCached(key) == Exists(signals, key) /\ signals[key].distillation # None

\* The batch is in created_at DESC order.
IsNewest(i, S) == i \in S /\ \A j \in S : i.id >= j.id

\* FindBySourceURL for the next row of the batch.
NextRow(w, i) ==
  /\ ~ InFlight(w)
  /\ IsNewest(i, todo[w])
  /\ todo' = [todo EXCEPT ![w] = @ \ {i}]
  /\ UNCHANGED <<signals, nextId, finishers, priority, tracker, harvests>>

\* A cached row is left; another goes on to pass 1.
Check(w, i) ==
  /\ NextRow(w, i)
  /\ actor' = TenantOf(i.key)
  /\ call' = IF IsCached(i.key) THEN call
             ELSE [call EXCEPT ![w] = [step |-> "extract", item |-> i,
                                       tier |-> "flash", output |-> None]]
  /\ UNCHANGED faults

\* The lookup fails: the row is left.
CheckFails(w, i) ==
  /\ NextRow(w, i)
  /\ Fault
  /\ UNCHANGED <<actor, call>>

\* Handlers append to the server's tracker without a lock: an append that
\* races with another handler's may be lost.
TrackOutcomes(w) ==
  LET s == ServiceOf(w)
      racing == \E v \in HttpWorkers \ {w} :
                  s = Server /\ call[v].step \in {"extract", "summarize"}
  IN  {tracker[s] + 1} \cup (IF racing THEN {tracker[s]} ELSE {})

Track(w) ==
  \E n \in TrackOutcomes(w) : tracker' = [tracker EXCEPT ![ServiceOf(w)] = n]

\* The routing switch: who does pass 2.
Route(p, high) ==
  IF p = Low THEN "flash"
  ELSE IF p = High \/ high THEN "reasoning"
  ELSE "flash"

\* Pass 1, by the flash tier; it says whether the content is high-signal.
Extract(w, high) ==
  /\ call[w].step = "extract"
  /\ call[w].item.key[2] \notin Poison
  /\ Track(w)
  /\ call' = [call EXCEPT ![w] = [step |-> "summarize", item |-> @.item,
                                  tier |-> Route(priority[w], high),
                                  output |-> None]]
  /\ UNCHANGED <<storeVars, todo, priority, bounds>>

\* Pass 2.
Summarize(w, distillation) ==
  /\ call[w].step = "summarize"
  /\ Track(w)
  /\ call' = [call EXCEPT ![w] = [step |-> "save", item |-> @.item,
                                  tier |-> @.tier, output |-> distillation]]
  /\ UNCHANGED <<storeVars, todo, priority, harvests>>

SummarizeContent(w) ==
  /\ Summarize(w, call[w].item.content)
  /\ UNCHANGED faults

\* The model answers with an empty brief, which is saved like any other.
SummarizeNothing(w) ==
  /\ Summarize(w, None)
  /\ Fault

\* Save, after which synthesize goes on with the next signal.
Persist(w) ==
  /\ call[w].step = "save"
  /\ SaveSignal(call[w].item.key, Distilled(call[w].item.content, call[w].output), {w})
  /\ Return(w)
  /\ UNCHANGED <<todo, priority, tracker, bounds>>

\* Mutant of Fail: return where continue is meant.
FailForGood(w) ==
  /\ InFlight(w)
  /\ IF call[w].item.key[2] \in Poison THEN UNCHANGED faults ELSE Fault
  /\ Return(w)
  /\ todo' = [todo EXCEPT ![w] = {}]
  /\ UNCHANGED <<storeVars, priority, tracker, harvests>>

\* An LLM call or the Save fails: the row stays as it is, the batch goes on.
Fail(w) ==
  /\ InFlight(w)
  /\ IF call[w].item.key[2] \in Poison THEN UNCHANGED faults ELSE Fault
  /\ Return(w)
  /\ UNCHANGED <<storeVars, todo, priority, tracker, harvests>>

------------------------------------------------------------------------------
Start ==
  \/ \E w \in CliWorkers, t \in Tenants, p \in {Standard, High} : StartBatch(w, t, p)
  \/ \E w \in CliWorkers, k \in Keys, p \in {Standard, High} : StartUrl(w, k, p)
  \/ \E w \in HttpWorkers, k \in Keys, c \in Contents, p \in Priorities :
       StartRequest(w, k, c, p)

Work(w) ==
  \/ \E i \in todo[w] : Check(w, i) \/ CheckFails(w, i)
  \/ \E high \in BOOLEAN : Extract(w, high)
  \/ SummarizeContent(w)
  \/ SummarizeNothing(w)
  \/ Persist(w)
  \/ Fail(w)

Next ==
  \/ \E k \in Keys, c \in Contents : HarvestSave(k, c)
  \/ \E t \in Tenants, id \in 1 .. (nextId - 1) : Promote(t, id)
  \/ Start
  \/ \E w \in CliWorkers : Kill(w)
  \/ \E w \in Workers : Work(w)

Spec == Init /\ [][Next]_vars

\* Every call of an LLM or of the database returns.  Nobody has to launch a
\* batch: the timer's pipeline does so only when its harvest found something.
Fairness == \A w \in CliWorkers : WF_vars(Work(w))

FairSpec == Spec /\ Fairness

------------------------------------------------------------------------------
TypeOK ==
  /\ signals \in Table
  /\ nextId \in Nat \ {0}
  /\ todo \in [Workers -> SUBSET Item]
  /\ priority \in [Workers -> Priorities]
  /\ call \in [Workers -> ActiveCall \cup {NoCall}]
  /\ tracker \in [Services -> Nat]
  /\ actor \in Tenants
  /\ finishers \in [Keys -> SUBSET Workers]
  /\ harvests \in 0 .. MaxHarvests
  /\ faults \in 0 .. MaxFaults

\* A stored distillation is always the brief of the content stored beside it,
\* with the metadata of the same analysis: no order of harvest saves and of
\* workers holding older snapshots pairs one content with another's brief.
DistillationMatchesContent ==
  \A k \in Keys :
    signals[k].distillation # None =>
      /\ signals[k].distillation = signals[k].content
      /\ signals[k].meta = "analysed"

\* A worker never spends LLM calls on a signal whose present distillation it
\* saved itself: the idempotency check leaves only other workers to race with.
NoRepeatedWork ==
  \A w \in Workers : InFlight(w) => w \notin finishers[call[w].item.key]

\* A row keeps its id through every upsert, and once promoted it stays with the
\* team, though every Save asks for ScopePrivate.
RowsKeepIdentity ==
  [][\A k \in Keys :
       Exists(signals, k) =>
         /\ signals'[k].id = signals[k].id
         /\ signals[k].scope = "team" => signals'[k].scope = "team"]_vars

\* A transaction changes no row of a tenant other than the one it set, not even
\* when it is given the id of such a row.
TenantIsolation ==
  [][\A k \in Keys : signals'[k] # signals[k] => TenantOf(k) = actor']_vars

\* What makes the two invariants above inductive: a brief on its way to Save is
\* the brief of its item, or empty; who finished a distillation can see it; and
\* an id, handed out once, names one row.
OutputOfItem ==
  \A w \in Workers : call[w].output \in {None, call[w].item.content}

FinishedIsDistilled ==
  \A k \in Keys : finishers[k] # {} => signals[k].distillation # None

UniqueIds ==
  \A k, l \in Keys :
    Exists(signals, k) =>
      /\ signals[k].id < nextId
      /\ signals[l].id = signals[k].id => l = k

InductiveInvariant ==
  /\ TypeOK
  /\ DistillationMatchesContent
  /\ NoRepeatedWork
  /\ OutputOfItem
  /\ FinishedIsDistilled
  /\ UniqueIds

\* The table implements the library: each step of any worker is one step of it
\* on one key, or none.
LibraryOf(tbl) ==
  [k \in Keys |-> [content |-> tbl[k].content, brief |-> tbl[k].distillation,
                   shared |-> tbl[k].scope = "team"]]

Lib == INSTANCE Library WITH library <- LibraryOf(signals)

ImplementsLibrary == Lib!Spec

\* Once nothing fails any more but the poisoned rows, a batch comes to every row
\* it took: its loop goes on past the rows that fail, and past those that others
\* distilled or harvested anew since the batch read them.
BatchesServe ==
  \A w \in CliWorkers, k \in Keys :
    k[2] \notin Poison =>
      (faults = MaxFaults /\ \E i \in todo[w] : i.key = k)
        ~> signals[k].distillation # None
==============================================================================
