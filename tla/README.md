# Signal-Flow in TLA+

Signal-Flow harvests links from the platforms a user follows, has language
models distil them, keeps both in a Postgres table shared by tenants, and tells
the user through a pipeline that posts to Slack and a bot that can be asked.
This directory holds a model of it: one TLA+ module per component, the TLC
configurations that check small instances, and proofs for TLAPS. `PROJECT.json`
lists the runs, the source lines of every definition, the findings, the hazards
and the theorems.

    tlc -workers 4 -config MCSynthesis.cfg MCSynthesis
    tlapm SynthesisProofs.tla

## 1. The system

Parts and the state they keep; the files are under `src/internal/` unless they
say otherwise.

| Part | State | Operations | Talks to |
|---|---|---|---|
| Signal repository `repository/postgres_signal.go` | the `signals` table, one row per URL and tenant, behind row level security | Save (upsert), FindBySourceURL, FindUnsynthesized, PromoteToTeam, FindRecentByTenant, SearchSemantic | Postgres |
| Synthesizer `intelligence/synthesizer.go` | a usage tracker per service | Synthesize: idempotency check, pass 1, routing, pass 2, Save | signal repository, two LLM tiers |
| Entry points `cmd/signal-flow/cli`, `api/` | none; one process or handler each | harvest, synthesize, POST /api/synthesize, /api/harvest, /api/credentials, /api/signals/{id}/promote | all of the above |
| Resilient summarizer `intelligence/resilience.go` | two circuit breakers (gobreaker) | Summarize, ExtractMetadata with a fallback | LLMs |
| Harvest coordinator `harvester/service.go` | none between runs | Start (ticker), RunOnce, harvestCredential | identity repository, providers, dedup and processing |
| Identity repository `repository/postgres_identity.go` | the `user_credentials` table | LinkProvider, ListActiveCredentials, MarkNeedsReauth, UpdateLastSeenID, SaveToken | Postgres, `security/kms.go` |
| Google API transport `googleapi/` | one circuit breaker per client | RoundTrip with retries | Google |
| Pipeline `pipeline/`, `notify/slack.go` | the run log, a JSONL file | Run: harvest, synthesize, notify, log; ReadRunLog | injected functions, Slack webhook |
| Agent `agent/`, bot `slackbot/` | a windowed session per user | Handle (tool loop), event loop | LLM, tools, Slack |
| Token refreshers `auth/` | tokens in the credentials table | Refresh | OAuth endpoints |
| Bluesky session `config/config.go`, `cli/bluesky*.go` | `session.json` | login, logout, refresh on use | Bluesky |
| Keyring `secrets/store.go` | two keys per token, the default account | Set/Get/Delete/ListTokens | OS keyring |
| Google sign-in `googleauth/` | state of a manage server, manual state files | browser and manual OAuth flows | Google, keyring |
| Configuration `config/` | `config.json` | read-modify-write of aliases, clients, keys | |
| HTTP server, bootstrap, LLM adapters, output | none | | |

`cli/pipeline.go`, `cli/bot.go` and the auth commands are not in the tree; what
they do is known from how the packages under `internal/` are made to be used.
The coordinator, the OAuth2 refresher, the resilient summarizer and the API
handlers have tests but no command that starts them.

Hard about it is that the processes share nothing but the table and files: a
cron job, a command typed by hand and HTTP handlers visit the same rows with
slow LLM calls between two visits. The full list of such hazards, each with the
properties that watch it or the reason why none does, is in `PROJECT.json`.
Tokens make it harder: they are kept in places that several processes read and
write in more than one step (two keys of the keyring, a file that is truncated
before it is written, a row read long before it is saved), and some die when
they are used.

What makes each part correct: a row is never a mix of two contents, never
crosses tenants, and is distilled once a batch has taken it; a credential leaves the
harvest cycle only when its platform refused it; a request is retried a bounded
number of times and no outage is for ever; a log record tells the truth; every
question put to the bot gets its reply and the model is given it where it fits; both keys of a token
agree; a sign-in ends with a token for what was asked; a stored refresh token
can still be used; a command changes its own setting and no other.

## 2. The modules

| Module | Models | Checked by | Proofs |
|---|---|---|---|
| `SignalStore` | the table as a value; each repository method an operator | through `Synthesis` | |
| `Library` | what readers of the table are promised (abstract) | refinement | |
| `Synthesis` | harvest saves, the synthesizer in batch processes and handlers, promotion | `MCSynthesis` | `SynthesisProofs` |
| `Coordinator` | the harvest cycle over the credentials table | `MCCoordinator` | `CoordinatorProofs` |
| `Delivery` | what the coordinator hands to the synthesizer (abstract) | refinement | |
| `RetryTransport` | RoundTrip around the shared circuit breaker | itself | `RetryTransportProofs` |
| `Pipeline` | pipeline runs and the run log | `MCPipeline` | `PipelineProofs` |
| `Bot` | the Slack event loop, the agent's rounds, sessions and windows | itself | `BotProofs` |
| `Inbox` | what those who write to the bot are promised (abstract) | refinement | |
| `Keyring` | the token store over the system keyring, call by call | through `Accounts` | `AccountsProofs` |
| `Accounts` | the accounts manager and the commands that use the keyring at once | `MCAccounts` | `AccountsProofs` |
| `Scopes` | the scopes of each Google service, as a pure function of the options | through `SignIn` | `SignInProofs` |
| `SignIn` | the browser flow and the manual flow with its state files | `MCSignIn` | `SignInProofs` |
| `Refresh` | refresh tokens in rows and in the session file | itself | `RefreshProofs` |
| `Settings` | read, change and write back of `config.json` | itself | `RefreshProofs`, last part |

`Synthesis` uses `SignalStore` and implements `Library`; `Accounts` extends
`Keyring`, whose actions are its threads' steps; `SignIn` extends `Scopes`; `Bot`
implements `Inbox`, and `Coordinator` implements `Delivery`.

A comment "Mutant of X" stands over a changed copy of the definition below it.
No specification uses the copies; replacing X by one of them must make a
property fail, and so shows that the property depends on the code.

### SignalStore, Synthesis and Library

`signals` is a function from (tenant, URL) to rows. A distillation is
represented by the content it was made from, so "the brief of another content"
can be said; the title, the vector and the text are left out. `Save` is the
upsert with exactly the columns it overwrites. Each repository method is one
transaction and one step.

A worker is a `synthesize` process (`CliWorkers`, each with a service and so a
usage tracker of its own) or an HTTP handler (`HttpWorkers`, one `Server`
service). `todo` is the snapshot its batch was taken from, `call` the locals of
Synthesize: the check, the two LLM calls and the Save are steps, and harvests,
promotions and other workers come in between. `Fault` is anything that goes
wrong now and right later; a URL in `Poison` fails every time. A killed process
leaves the table as it is.

`finishers` and `actor` only observe.

`Library` has two facts per key, a content and its brief, which change together
or the brief goes; `LibraryOf` maps a row to it. Every step of every worker is
one Learn, File or Share, or nothing.

The `tenant_isolation` policy is part of `Visible`. It holds for roles it
applies to: docker-compose connects as the superuser `postgres`, whom Postgres
lets past row level security even where it is forced. The model, and
TenantIsolation, are about a deployment with an ordinary role.

### Coordinator

`token`, `needsReauth` and `lastSeen` are columns of user_credentials. Tokens
are counted rather than named: a row holds the last one its user linked, the
platform has revoked all up to `revoked`. `Runs` are the ticker's loop and HTTP
requests, which may overlap; each keeps the list of rows it read (`todo`, `cur`)
as a Go slice does, stale or not. `feed` is what the account shows; harvesting
takes all of it, since no Harvester in the tree reads the cursor. Providers in
`SharedClient` behave like YouTubeHarvester: they read the account of the client
they were made with, and report a refusal by an error type of their own. Others
follow the contract the Harvester interface and the tests give.
SignalProcessor has no implementation in the tree; Process is taken to save the
signal. An item comes from a set, since the order in a batch only decides the
cursor, which may be any of its items.

`Delivery` knows only what accounts show to those who linked them and how often each of
these signals was delivered: only what is shown, and once for each run. `Shown`
maps the tables and feeds to it; of all the steps of a run only Process is one of
Delivery's.

### RetryTransport

`open` and `failures` are the breaker's fields; of its clock only `elapsed` is
kept, whether the reset time has passed since the last failure. A caller is
outside, in an attempt or asleep before a retry. IsOpen has two outcomes,
Passes (which may close the circuit) and Rejects. The server answers as it
likes, and well when `healthy`.

### Pipeline

One action per phase and outcome, in the order of Run, including its three ways
to the run log. The injected functions may fail or report any number up to
`MaxFound`. `file` is the run log as a sequence of writes, each a whole line, a
line without its newline, or a part. `IsReadable` is ReadRunLog's verdict:
records appended to an unended write share its line. Kill may come before any
step; a killed run leaves no record, and a write that fails (`LogFails`) may leave
part of one, since the log itself is written and no .tmp file is. Observers keep,
per run, which phases failed, what was distilled and whether the digest came out,
which the record is compared with, and in `fate` whether the run was killed or its
write failed.

### Bot

`events` is the socket's channel and `at` the one goroutine that serves it:
`Handle` acknowledges an event and puts the question into the user's session,
each `Chat` with its tool calls is a step, then the reply is posted, and comes
back as an event of the bot's own. A message is a role and a size in tokens,
which is all `Window` looks at. Slack sends two events for a mention in a channel
the bot listens to, sends again what waits for its acknowledgement, and sends
edits without a user. `Crash` ends the process: sessions are gone, events not yet
acknowledged go to the next one. `delivered`, `answers` and `excuses` observe.
`Totals` sums the tokens from the end of a session as Window's loop does, and
`Fitting` are the numbers of messages that loop passes before it breaks.

`Inbox` is one line of questions, in which each delivery of a message has its place:
the first is answered or excused, and nothing else leaves the line. `Unanswered`
maps the bot to it: the question at the loop, then those among `events` that ask
for an answer. Acknowledging moves a question from one to the other and changes
nothing in Inbox; so do Chats, tools, edits and the bot's own posts.

### Keyring and Accounts

`token` and `legacy` are the two keys a token of the default client has. Each
call of the keyring is a step, and may fail (`WriteFails`, `GetFails`) or be the
last of its process. SetToken and DeleteToken write one key after the other;
GetToken goes to the old key when the new one fails in whatever way, and copies
it; ListTokens reads account by account. `Begin` and `EndWrite` keep the
observers: whether a write met another call on its account, and what the last
one that did not has left.

`Accounts` has the threads: requests of the manager's server, any number of them
at once, all cut off when it stops; and commands, which resolve a client, open
the keyring and read the token. `oauthState` is the one state the server accepts,
overwritten by the next start; before the first start it is empty, and so is that of
a callback without a state, which is then let through and fails at the exchange.
`OpenRing`, `OpenFails` and `OpenTimesOut` are what opening
comes to under the backend that ResolveBackend finds; `MayHang` is the external
part: the library's wait for the secret service of a Linux machine.

### Scopes and SignIn

A scope is a name and how much it opens. The tables give for each of the sixteen
services what it asks for in either way, only to change, only to read, and
always to read. (`forms.responses`, `directory` and the like exist to read only.)

A link is an authorization URL with its random state and redirect URI; `asked` says for
which options it was made, `files` which links have a state file. Each process is
one call of Authorize or ManualAuthURL. The user may follow any link any number
of times, and hand any code to any command, as URL, as URL without its state
(`HandBareUrl`, `PasteBareUrl`), or alone. Google takes a code
once, with its client and its redirect URI only. The two flows differ in where
the code comes from: `inbox` holds the channels of the local server. `unchecked`
marks a process to which no file told what the code is for, which the code
permits where no state is required.

### Refresh

Tokens are numbered; `next` says which replaced a token that its provider has
rotated. `kept` is what each row or file holds. A process reads (`ReadCredential`,
`LoadSession`), exchanges, and saves: a row in one statement, the session file by
truncating and writing it, so that others may read a torn one, write over each
other, or remove the file in between. `got` is a token given and not saved;
`lost` collects those that go with their process.

### Settings

`config` and `tmp` are the contents of config.json and of config.json.tmp, which
every command shares; `file` says where the file a command has open is by now,
since another's rename moves it under its writer. A command ends by any failure
or kill and leaves the temporary file. A torn config.json makes every
command fail, until the user removes it (`Repair`).

## 3. The runs

| Run | Bounds | Shows |
|---|---|---|
| synthesis | 2 tenants, 1 URL, 2 contents, 1 batch process, 1 handler, 3 harvests, 1 fault | the two invariants of the table, identity and isolation of rows, refinement of Library |
| synthesis_drain | 2 URLs, 1 poisoned, 2 batch processes, limit 2, 3 harvests, 2 faults, fair | what a batch took is distilled |
| coordinator_cycle | 1 user, 2 providers (one shared client), 2 URLs, 1 poisoned, 1 fault, fair | items shown are processed, once (refinement of Delivery) and in the end; only refused credentials are flagged, and flagged accounts go quiet |
| transport | 2 callers, threshold 5, 3 and 1 retries | the breaker is consistent, retries bounded, requests return, outages end |
| pipeline | 2 processes, 2 sources, 2 runs, 3 configurations | records are honest, stopped runs quiet, each run that ends leaves one record, only a failed write spoils the log, runs end |
| bot | 2 users, 2 messages, 3 events, 2 rounds, budget 5, 1 crash, fair | each question is answered or excused once and in order (refinement of Inbox), the model is given it in every round where it fits, all are served |
| accounts | 1 email, 2 clients, 2 requests, 1 command, 3 machines, 1 sign-in, 1 fault, fair opening | tokens stay with their account, the last write counts, opening ends |
| signin | 2 commands, 3 wishes of 2 clients, 2 links, 2 codes | the token is for what was asked, read-only is read-only |
| refresh | 3 processes, a rotating row, another row, a session file, 3 tokens | kept tokens work, the last login or logout stands |
| settings | 3 processes, 2 settings, 1 value | a command alone does what it says |
| coordinator_relink | 1 user, 1 provider, 2 links | a credential linked again stays flagged (finding) |
| coordinator_feeds | 2 users, 1 provider with a shared client | users get the signals of another's account (finding) |

Bounds. The hazards of Synthesis need two holders of different contents of one
row: one batch process, one handler and harvests, with two contents, give every
pair. Another row matters where it keeps a batch from what follows it:
synthesis_drain has a poisoned row beside a good one, a harvest more than rows, so
that a row is harvested anew under a batch that holds it, and two batches at once,
of which one can fail, be killed, or find the row distilled. Harvests,
faults and links are capped because they only add work of a kind already seen;
the proofs are without caps on any set. coordinator_cycle has the ticker alone and one
user, with both kinds of harvester and two accounts that show the same item; that runs
beside it and other users change nothing is left to the theorems. A second user is
in coordinator_feeds, a second link of an account in coordinator_relink. RetryTransport has the constants of the code; two callers
suffice for answers that come after a reset by another, and failures past the
threshold come from their retries. Its count `failures` is finite there, because
a caller cannot go on failing while the circuit rejects it. Two pipeline
processes and two runs let a write of one land in the torn line of the other;
runs are numbered and stop at the bound, so deadlock is not checked there.
In bot a message costs its size and one token for its role. A question of size 1
fits the budget of 5 together with a tool's result, one of size 3 fits alone and is
pushed out of the next round by the result of its tool, and one of size 5 leaves an
empty window; three
events are a mention and a direct message, or a message that is resent or edited.
Two users let one wait behind the other. In accounts one email suffices, because
nothing in the store relates two emails; two clients share it. The conflicts are
between a write and one or two other calls, which three threads give, with a token
of an older version to be copied and one sign-in to replace it; the theorems
have any number of everything. In signin two links and two codes let every code
go to every command by every link, expired or reused. In refresh three processes
are two that overlap and a login or logout between them; three tokens are a login and
two rotations. In settings a third process finds what two overlapping ones left.
These runs end at their bounds, so deadlock is not checked where nothing is left
to do then (bot, accounts, signin).
Symmetry is used only in runs without liveness properties.

Fairness. A step a process can always take is taken (WF on Work, RunOnce,
RoundTrip, Run): every call of an LLM, platform or database returns, in time or
with an error, and Go schedules the rest. Timers fire (Elapse, the ticker).
Nobody is assumed to launch a batch, harvest, post, link, request, or to stop
failing, except that the number of faults is finite. BatchesServe is therefore
about rows that a batch has taken. That the whole backlog drains would not hold: the
systemd timer starts `pipeline run`, which synthesizes only after a harvest that found
something (`pipeline.go:86`, and FailFast may stop it before), so what failed waits
until then or for a command typed by hand; and as many rows as the limit that fail every
time, if they come first, leave no place for others. EveryoneIsServed has WF on the event loop as a whole: Chat, the tools and
PostMessage return, with whatever result, though the code gives them no
timeout; the tool rounds are bounded by the code itself. OpenAnswers has WF on the
ways in which opening the keyring ends (OpenEnds), the library's return only
where it cannot hang; the manager, the users and the keyring's other calls need not
move.
Recovers assumes that callers go on calling, since only IsOpen closes a circuit.

Two runs show disagreements with the code. **coordinator_relink** (bug):
linking a new token does not reset `needs_reauth`, so the account is never
harvested again, though postgres_identity.go:97 describes
the list as that of credentials that do not need reauthentication.
**coordinator_feeds**: `domain/harvester.go:28` has Harvest fetch "using the given
credential"; YouTubeHarvester, the only harvester in the tree, ignores it
(`youtube.go:57`) and reads the account of the client it was made with, so every user
with a YouTube credential is given that account's activities.

Some properties stop where the code promises nothing, and would not show what goes wrong
beyond: NoRepeatedWork is about one worker, not about two that pass the idempotency
check together; LatestWriteCounts about writes that succeed and meet no other call on
the account, LastSignInStands and UpdatesStand about commands that meet no other;
DeadOnlyIfUnsaved leaves out tokens whose save failed, GrantIsAsRequested codes pasted
without the state that would have been compared, and Inbox allows an answer for each of
the two events of a mention. What happens there is in the list below.

Noted while modelling, without a run:

- Synthesizer. Two callers may pass the idempotency check before either saves, and
  both pay for the LLM calls. Harvesting a link again empties its distillation
  and puts it back on the backlog. `cli/synthesize.go:143` adds up a cumulative
  list once per signal, so the printed total counts early calls several times. The
  comment in `api/synthesize_handler.go:25` has priority 0 for standard and 1
  for high, while `domain.Priority` has 0 for low and 1 for standard.
- Coordinator. `youtube.go:29` says the Coordinator "marks the credential as
  needs_reauth" after a YouTubeAuthError; that is not an AuthError, so a refused
  YouTube token is retried in every cycle and never flagged. FlaggedWasRevoked is
  about the opposite mistake and does not show this. The cursor is called that of the last
  processed item, and moves also past items that failed.
- Transport. The breaker's threshold is one of consecutive failures, but 429
  answers and transport errors between them neither count nor reset it.
- Pipeline. `runlog.go:24` says "Uses atomic write: write to .tmp, then append to
  the target file"; the code appends at once, and one torn line makes
  ReadRunLog fail for good. RecordsKept names that one way to lose the log and
  excludes all others. `pipeline.go:101` says notify comes "only if we have
  synthesized signals", and it comes when signals were found.
- Resilient summarizer. `resilience.go:32` says 30 s, and the library's default of
  60 s applies.
- Bot and agent. A mention in a channel the bot listens to is answered twice, once
  for each of its events. While the one loop waits for a model, everybody's events
  wait unacknowledged, and Slack sends them again. The assistant's tool calls are
  not kept in the session and only a tool's Output, not its Data, reaches the
  model, so the OpenAI adapter sends tool messages without the call they answer.
  Sessions are never trimmed. The table in `docs/slack-bot-integration.md:201` lists a
  rate limit and a circuit breaker that bot and agent do not have.
- Refreshers. `oauth2_refresher.go:18` has the endpoint return "potentially a
  rotated refresh token"; when it returns none, Refresh saves the answer as it is
  and the refresh token is gone. SaveToken may put an older token over one the
  user has just linked.
- Sign-in. A manual link that is reused may expire before the user comes back.
  The browser is told of success before the exchange. `include_granted_scopes`
  adds what the user granted before to a read-only token. Requests read and write
  `oauthState` without a lock. Removing the default account leaves the default
  pointing at it. A command resolves its client by the email's domain, where the
  manager stores under the client it was started for.
- Session and settings files. A logout or login can be undone by a command at
  work. Overlapping writers share config.json.tmp, and a torn config.json makes every
  command fail until it is removed by hand.

## 4. The proofs

`TypeOK` and each safety property below hold for every value of the constants,
under the assumptions the modules name (workers of the two kinds are different,
bounds are naturals, the markers for "none" are not members, those who are
counted, callers and runs, are finitely many).

*Synthesis.* DistillationMatchesContent is not inductive: a Save could bring the
wrong brief. OutputOfItem says that a brief on its way is that of the item it was
made from, whatever the table holds by then. NoRepeatedWork needs
FinishedIsDistilled (someone who finished a key can see it at the check), and
both need Save's effect, which are lemmas about the table. TenantIsolation needs
UniqueIds, since PromoteToTeam names a row by id alone. The refinement of
Library follows by a step lemma per kind of Save from DistillationMatchesContent.

*Coordinator.* FlaggedWasRevoked needs MarkedIsRefused (a run on its way to mark
was refused, and revocations are not undone) and ListedAreLinked.
SignalsAsHarvested is for harvesters of both kinds: a user's signals come from accounts
that were read for a credential the user linked (SignalsFromAccounts), whichever runs
overlap and whatever is linked anew meanwhile. It needs BatchFromFeed. Those accounts
are the user's own only where the harvester uses the credential, see the second
finding. DeliveredOnce (what Delivery comes
to with one run) holds for the ticker's loop alone (TickerDeliversOnce): an HTTP request that runs beside it can come past
ExistsByURL with the same item. RunsDeliverOnceEach says how far that goes: an item
is processed at most once per run. Its invariant, DeliveriesAccounted, has that nothing was
processed that the table does not hold, and counts the runs that stand between
the look and the save together with the deliveries made: once the item is saved no
run joins them, and each that is among them delivers once and leaves. The refinement of
Delivery (DeliveryImplemented) takes the number of deliveries from it, and from
ListedAreLinked and BatchFromFeed that a linked account shows the item.

*RetryTransport.* That a request makes at most one attempt more than its budgets
(RoundTripBounded) needs AttemptsCounted: an attempt was paid for from one of the
two budgets, and a sleeping request still has one. OpenAtThreshold
is inductive together with TypeOK. LateBounded sums over the callers:
LateAccounted pairs each late attempt with one of the retries its caller has spent,
so that late attempts and the retries that remain (`Remaining`, a finite set) stay
within all budgets together; a retry takes one element out of the set, and
a caller gets new ones only when it comes past the breaker, that is, when the circuit is
closed and `late` is 0.

*Pipeline.* What a record says is true because of what its run knew: PhaseKnown
says for each phase which failures there can be so far and what status tells of
them, and that an idle process starts from nothing. RunsApart, FreshRuns and
RecordedAreOver say that a step of one process concerns no other run, no later
run and no record; most actions then need only be shown about their own run
(OwnStepPreserves, ReturnPreserves). RecordsKept follows from three invariants on
top: a run has one record at most (OneRecordEach), one that is over and fine has it
(EndsRecorded), and what is not a whole line belongs to a run whose write failed
(WholeLines), so that without such a run nothing shares a line.

*Accounts.* NoForeignToken needs that a thread carries a token of its own account
(Carries) and that a copy is made for the default client only. LatestWriteCounts
is about what was so when a write began: AloneAt says that a write nobody has met
finds its first key as it left it, SettledAt that between writes both keys agree,
and that a reader on its way to copy the old key has what it will find. Every
step of the keyring is shown to leave other accounts alone; the manager's and the
commands' steps change no key.

*SignIn.* LinkFits says that the link a process will exchange with asks for what
the process wants, from where the file was compared until the token is there;
links never change what they ask for. ReadonlyIsReadonly then follows from a
lemma about Scopes: no service, under readonly and any drive scope, has a scope that
changes anything.

*Refresh.* DeadOnlyIfUnsaved needs that tokens are not shared: a kept one is in
one place (OnePlace), and one that is given and not saved is alive and known to
its process alone (InHand). So whoever presents a token works on the place that
keeps it, and holds its successor until it is saved or lost. LastSignInStands
follows the overlaps of writers of the session file. Where no command was at work
when the user last logged in or out, SignInsObeyed has that those at work since have
read, and will write, what may stand in the file; that none of them writes to a file
that is gone; and that a torn file has a writer, or was left so. A step elsewhere
leaves all that alone (LeftAlone); a login that meets a command puts the file among
`crossed`, where nothing is said of it until the next that meets none.

*Settings.* AloneIsExact says that a command at work that has met no other is the
only one, that what it is going to write is config.json with its own change, and
that the temporary file is the one it opened. UpdatesStand follows for each step. The
proofs stand at the end of `RefreshProofs`, the other component with a file that
several processes write; that module extends both, whose names are apart.

*Bot.* EventsAccountedFor says of each message that the events that ask for an
answer to it are answered, excused, at the loop or in the queue, whose places it
counts (`Asking`). The lemmas about Asking say what appending events adds and what
taking the first away leaves, by bijections of the places; with them each step of
Slack and of the loop moves one event from one side of the equation to the other. The
loop looks at other fields of an event than Asks does, and the two agree on events of
the sort Slack sends: that is EventsGenuine, the rest of the invariant. A crash costs
the event at work, which is excused, and leaves the queue, since what is there was not
acknowledged.

InboxImplemented has the order as well. `Questions` walks over the queue, and the lemmas
about it say that it walks a queue with events appended, or with the first taken
off, as it should (QuestionsAppend, QuestionsTail). So a step of Slack lets a message come
once, twice or not at all, a step that takes an event keeps the line or leaves out
what asks for nothing, and one that ends an event settles the first.

*What liveness rests on.* That enabled steps are taken, and so that something
happens in the end, is beyond the prover; that each step brings the end nearer is not.
RequestsWindDown, QuestionsWindDown, RunsComeToTheirEnd, CyclesMakeProgress and
BatchesMakeProgress say so of a request, the event loop, a pipeline run, a harvest cycle
and a batch: a number, or a tuple of
finite sets and bounded numbers compared from the left, gets smaller with each step of the
actor, and no step of another makes it larger. Two more say what does not refill the
work. BacklogOnlyRefilled: a brief is lost only to a harvest or to an empty answer,
both finitely many in BatchesServe. FlaggedAreNotListed: no run takes up a flagged
credential, so that FlaggedGoesQuiet needs only the end of the runs that hold it.

*What the model sees.* ModelSeesQuestion has two parts. QuestionIsKept is about the
session: at each Chat it ends with the question and the results of its own tools,
although failed requests leave theirs in the session without an answer. That the event
at hand is a user's (from EventsGenuine) and that each event starts with round 0 are
what it needs. WindowIsLongest is about the window, for every session and every budget:
Window is an end of the session within the budget and no longer end is. As longer ends cost
more, the question is in the window just when it fits with what follows it. It
takes two inductions over the session. One shows that Totals, a recursive function,
has the values its definition says (TotalsUnroll), the other that longer
ends cost more (TotalsGrow). The library's induction theorems take an
operator, which no installed prover can instantiate; SetInduction
does the same for a set of numbers and follows from the pigeonhole principle of
FiniteSetTheorems.

Only model-checked are the liveness properties themselves (BatchesServe,
EventuallyHarvested, FlaggedGoesQuiet, Recovers, RequestsReturn, RunsEnd,
EveryoneIsServed, OpenAnswers), whose fairness and ENABLED the prover does not reach.
Every other property of a passing run is a theorem.

## 5. Not modelled, and the plan

What could follow: an abstract token store, one cell per account, that the keyring
implements where calls do not meet; an abstract run log for the pipeline.

Left out:

- `ResilientSummarizer`: two breakers of a third-party library, which nothing in the
  tree makes; a model of it would be one of the library.
- The default account and SetSecret of the keyring: single keys, each written by
  one call and read by one call.
- Service accounts, the credentials files, `config/paths.go` and the pipeline's
  configuration: read only, or written once by a command the tree does not hold.
- `security/kms.go`: a pure function; where its failure matters (Refresh) it is a
  call that may fail.
- The LLM adapters and prompts: requests to and answers from remote models, without
  state of their own; callers' models have every answer.
- Handlers, finders and listings that only read, and the middleware, which takes
  the tenant from a header.
- Output, colours, prompts, pages and opening a browser: no state.
- What Postgres, the OS keyring, Google, Slack and the platforms do inside.
