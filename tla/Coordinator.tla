----------------------------- MODULE Coordinator -----------------------------
(***************************************************************************)
(* The harvest coordinator (internal/harvester/service.go) over the        *)
(* user_credentials table (internal/repository/postgres_identity.go).      *)
(* RunOnce is called by the ticker loop of Start and by POST /api/harvest; *)
(* the calls share nothing but the tables.  Each visit to a table, to a    *)
(* platform and to the synthesizer is a step of its own.  Platforms (Post, *)
(* Revoke) and users linking credentials (Link) are the environment.       *)
(***************************************************************************)
EXTENDS Integers, FiniteSets

CONSTANTS
  Users,
  Providers,     \* the keys of Coordinator.harvesters
  SharedClient,  \* providers whose Harvester uses an API client of its own, and
                 \* not the credential it is given (YouTubeHarvester)
  ClientUser,    \* the user that client was made for
  NoCred,        \* the absence of a current credential
  Urls,
  NoUrl,         \* the URL of a signal that has none
  Poison,        \* URLs whose Process fails whenever it is called
  Ticker,        \* the loop of Start
  Requests,      \* handlers of POST /api/harvest
  MaxRetries,    \* maxRetries
  MaxLinks,      \* bound: tokens a user links per provider
  MaxFaults      \* bound: faults (see Fault)

\* UNIQUE (user_id, provider): the pair stands for the credential's id.
Creds == Users \X Providers

UserOf(c) == c[1]

ProviderOf(c) == c[2]

Items == Urls \cup {NoUrl}

Runs == {Ticker} \cup Requests

ASSUME CoordinatorAssumption ==
  /\ SharedClient \subseteq Providers
  /\ ClientUser \in Users
  /\ NoCred \notin Creds
  /\ NoUrl \notin Urls
  /\ MaxRetries \in Nat \ {0}
  /\ MaxLinks \in Nat
  /\ MaxFaults \in Nat

VARIABLES
  \* user_credentials, by column.  Tokens are numbered in the order they were
  \* linked, 0 meaning no row.
  token,
  needsReauth, \* the rows that have the flag
  lastSeen,    \* the item whose hash last_seen_id is; {} is ''
  signals,     \* <<user, url>> the signals table holds
  \* The locals of each run of RunOnce.
  at,          \* the call it makes next
  unlisted,    \* providers it has not listed the credentials of yet
  todo,        \* the rows it has listed and not come to yet
  cur,         \* the row it is harvesting
  attempt,     \* failed attempts at that
  batch,       \* harvested items not looked at yet
  item,        \* the item it looked at last
  \* The platforms.
  feed,        \* what each account shows
  revoked,     \* the last token of each account that was revoked, or 0
  \* Observers.
  deliveries,  \* Process calls that succeeded, per user and URL
  faults       \* faults so far, for the bound

credVars == <<token, needsReauth, lastSeen>>
signalVars == <<signals, deliveries>>
listVars == <<unlisted, todo>>
itemVars == <<batch, item>>
platformVars == <<feed, revoked>>
vars == <<credVars, signalVars, at, listVars, cur, attempt, itemVars,
          platformVars, faults>>

\* What RunOnce uses of the row it was given, which it read when it listed it.
Listed == [cred : Creds, token : Nat \ {0}]

NoneListed == [cred |-> NoCred, token |-> 0]

Init ==
  /\ token = [c \in Creds |-> 0]
  /\ needsReauth = {}
  /\ lastSeen = [c \in Creds |-> {}]
  /\ signals = {}
  /\ at = [r \in Runs |-> "idle"]
  /\ unlisted = [r \in Runs |-> {}]
  /\ todo = [r \in Runs |-> {}]
  /\ cur = [r \in Runs |-> NoneListed]
  /\ attempt = [r \in Runs |-> 0]
  /\ batch = [r \in Runs |-> {}]
  /\ item = [r \in Runs |-> NoUrl]
  /\ feed = [c \in Creds |-> {}]
  /\ revoked = [c \in Creds |-> 0]
  /\ deliveries = [d \in Users \X Urls |-> 0]
  /\ faults = 0

------------------------------------------------------------------------------
(***************************************************************************)
(* The environment.                                                        *)
(***************************************************************************)

\* POST /api/credentials: LinkProvider writes the token, and nothing else.
Link(c) ==
  /\ token[c] < MaxLinks
  /\ token' = [token EXCEPT ![c] = @ + 1]
  /\ UNCHANGED <<needsReauth, lastSeen, signalVars, at, listVars, cur, attempt,
                 itemVars, platformVars, faults>>

\* The platform stops honouring every token the account has handed out.
Revoke(c) ==
  /\ revoked[c] < token[c]
  /\ revoked' = [revoked EXCEPT ![c] = token[c]]
  /\ UNCHANGED <<credVars, signalVars, at, listVars, cur, attempt, itemVars,
                 feed, faults>>

\* Something to harvest appears in the account.
Post(c, i) ==
  /\ feed' = [feed EXCEPT ![c] = @ \cup {i}]
  /\ UNCHANGED <<credVars, signalVars, at, listVars, cur, attempt, itemVars,
                 revoked, faults>>

------------------------------------------------------------------------------
(***************************************************************************)
(* RunOnce.                                                                *)
(***************************************************************************)

\* Something goes wrong that goes right at another attempt.
Fault ==
  /\ faults < MaxFaults
  /\ faults' = faults + 1

\* A failed call costs a fault, unless it is one that cannot succeed.
FaultUnless(hopeless) == IF hopeless THEN UNCHANGED faults ELSE Fault

Goto(r, step) == at' = [at EXCEPT ![r] = step]

StartRun(r) ==
  /\ at[r] = "idle"
  /\ Goto(r, "choose")
  /\ unlisted' = [unlisted EXCEPT ![r] = Providers]
  /\ UNCHANGED <<credVars, signalVars, todo, cur, attempt, itemVars,
                 platformVars, faults>>

\* Mutant of ActiveCredentials: without AND needs_reauth = false.
AllCredentials(p) ==
  {[cred |-> c, token |-> token[c]] :
     c \in {d \in Creds : ProviderOf(d) = p /\ token[d] # 0}}

\* ListActiveCredentials.
ActiveCredentials(p) ==
  {[cred |-> c, token |-> token[c]] :
     c \in {d \in Creds : ProviderOf(d) = p /\ token[d] # 0 /\ d \notin needsReauth}}

\* The outer loop comes to a provider, in the order of a map.
NextProvider(r, p) ==
  /\ at[r] = "choose"
  /\ todo[r] = {}
  /\ p \in unlisted[r]
  /\ unlisted' = [unlisted EXCEPT ![r] = @ \ {p}]
  /\ UNCHANGED <<credVars, signalVars, at, cur, attempt, itemVars, platformVars>>

List(r, p) ==
  /\ NextProvider(r, p)
  /\ todo' = [todo EXCEPT ![r] = ActiveCredentials(p)]
  /\ UNCHANGED faults

ListFails(r, p) ==
  /\ NextProvider(r, p)
  /\ Fault
  /\ UNCHANGED todo

FinishRun(r) ==
  /\ at[r] = "choose"
  /\ todo[r] = {}
  /\ unlisted[r] = {}
  /\ Goto(r, "idle")
  /\ UNCHANGED <<credVars, signalVars, listVars, cur, attempt, itemVars,
                 platformVars, faults>>

\* harvestCredential begins and ends.
Choose(r, l) ==
  /\ at[r] = "choose"
  /\ l \in todo[r]
  /\ todo' = [todo EXCEPT ![r] = @ \ {l}]
  /\ cur' = [cur EXCEPT ![r] = l]
  /\ Goto(r, "harvest")
  /\ UNCHANGED <<credVars, signalVars, unlisted, attempt, itemVars,
                 platformVars, faults>>

ClearLocals(r) ==
  /\ cur' = [cur EXCEPT ![r] = NoneListed]
  /\ attempt' = [attempt EXCEPT ![r] = 0]
  /\ batch' = [batch EXCEPT ![r] = {}]
  /\ item' = [item EXCEPT ![r] = NoUrl]

Leave(r) == Goto(r, "choose") /\ ClearLocals(r)

(***************************************************************************)
(* Harvest.  The account it reads is the credential's, or the client's.    *)
(* A platform that refuses the token makes a 401; only from a harvester    *)
(* that uses the credential is it an AuthError (YouTube's is a             *)
(* YouTubeAuthError, a type errors.As does not find).                      *)
(***************************************************************************)
AccountOf(c) ==
  IF ProviderOf(c) \in SharedClient THEN <<ClientUser, ProviderOf(c)>> ELSE c

\* The client was made with the first token its user linked.
IsRefused(l) ==
  LET t == IF ProviderOf(l.cred) \in SharedClient THEN 1 ELSE l.token
  IN  revoked[AccountOf(l.cred)] >= t

\* Nothing new: harvestCredential returns without touching the cursor.
HarvestNothing(r) ==
  /\ at[r] = "harvest"
  /\ ~ IsRefused(cur[r])
  /\ feed[AccountOf(cur[r].cred)] = {}
  /\ Leave(r)
  /\ UNCHANGED <<credVars, signalVars, listVars, platformVars, faults>>

Harvest(r) ==
  /\ at[r] = "harvest"
  /\ ~ IsRefused(cur[r])
  /\ feed[AccountOf(cur[r].cred)] # {}
  /\ batch' = [batch EXCEPT ![r] = feed[AccountOf(cur[r].cred)]]
  /\ Goto(r, "dedup")
  /\ UNCHANGED <<credVars, signalVars, listVars, cur, attempt, item,
                 platformVars, faults>>

\* Mutant of HarvestAuthError: any error is taken for one.
HarvestAnyError(r) ==
  /\ at[r] = "harvest"
  /\ Goto(r, "mark")
  /\ UNCHANGED <<credVars, signalVars, listVars, cur, attempt, itemVars,
                 platformVars, faults>>

HarvestAuthError(r) ==
  /\ at[r] = "harvest"
  /\ IsRefused(cur[r])
  /\ ProviderOf(cur[r].cred) \notin SharedClient
  /\ Goto(r, "mark")
  /\ UNCHANGED <<credVars, signalVars, listVars, cur, attempt, itemVars,
                 platformVars, faults>>

\* Mutant of HarvestFails: one attempt too many.
HarvestFailsOnceMore(r) ==
  /\ at[r] = "harvest"
  /\ FaultUnless(IsRefused(cur[r]) /\ ProviderOf(cur[r].cred) \in SharedClient)
  /\ IF attempt[r] < MaxRetries
     THEN /\ attempt' = [attempt EXCEPT ![r] = @ + 1]
          /\ UNCHANGED <<at, cur, batch, item>>
     ELSE Leave(r)
  /\ UNCHANGED <<credVars, signalVars, listVars, platformVars>>

\* Any other error: back off and try again, MaxRetries times in all.
HarvestFails(r) ==
  /\ at[r] = "harvest"
  /\ FaultUnless(IsRefused(cur[r]) /\ ProviderOf(cur[r].cred) \in SharedClient)
  /\ IF attempt[r] + 1 < MaxRetries
     THEN /\ attempt' = [attempt EXCEPT ![r] = @ + 1]
          /\ UNCHANGED <<at, cur, batch, item>>
     ELSE Leave(r)
  /\ UNCHANGED <<credVars, signalVars, listVars, platformVars>>

\* MarkNeedsReauth, by id; its failure is logged.
Mark(r) ==
  /\ at[r] = "mark"
  /\ needsReauth' = needsReauth \cup {cur[r].cred}
  /\ Leave(r)
  /\ UNCHANGED <<token, lastSeen, signalVars, listVars, platformVars, faults>>

MarkFails(r) ==
  /\ at[r] = "mark"
  /\ Fault
  /\ Leave(r)
  /\ UNCHANGED <<credVars, signalVars, listVars, platformVars>>

(***************************************************************************)
(* The loop over the harvested items, in the order of the platform.        *)
(***************************************************************************)
Take(r, i) ==
  /\ at[r] = "dedup"
  /\ i \in batch[r]
  /\ batch' = [batch EXCEPT ![r] = @ \ {i}]
  /\ item' = [item EXCEPT ![r] = i]
  /\ UNCHANGED <<credVars, signalVars, listVars, cur, attempt, platformVars>>

UserSignal(r, i) == <<UserOf(cur[r].cred), i>>

\* Mutant of Known: no dedup.
KnownNever(r, i) == FALSE

\* ExistsByURL, for the credential's user.
Known(r, i) == UserSignal(r, i) \in signals

\* An item without a URL, and one ExistsByURL finds, are skipped.
Skip(r, i) ==
  /\ Take(r, i)
  /\ i = NoUrl \/ Known(r, i)
  /\ UNCHANGED <<at, faults>>

New(r, i) ==
  /\ Take(r, i)
  /\ i # NoUrl
  /\ ~ Known(r, i)
  /\ Goto(r, "process")
  /\ UNCHANGED faults

\* ExistsByURL fails: the item is skipped.
DedupFails(r, i) ==
  /\ Take(r, i)
  /\ i # NoUrl
  /\ Fault
  /\ UNCHANGED at

\* Process, which saves a signal (SignalProcessor has no implementation here).
Process(r) ==
  /\ at[r] = "process"
  /\ item[r] \notin Poison
  /\ signals' = signals \cup {UserSignal(r, item[r])}
  /\ deliveries' = [deliveries EXCEPT ![UserSignal(r, item[r])] = @ + 1]
  /\ Goto(r, "dedup")
  /\ UNCHANGED <<credVars, listVars, cur, attempt, itemVars, platformVars, faults>>

\* Mutant of ProcessFails: return where continue is meant.
ProcessFailsForGood(r) ==
  /\ at[r] = "process"
  /\ FaultUnless(item[r] \in Poison)
  /\ Leave(r)
  /\ UNCHANGED <<credVars, signalVars, listVars, platformVars>>

ProcessFails(r) ==
  /\ at[r] = "process"
  /\ FaultUnless(item[r] \in Poison)
  /\ Goto(r, "dedup")
  /\ UNCHANGED <<credVars, signalVars, listVars, cur, attempt, itemVars, platformVars>>

\* UpdateLastSeenID, with the item of the batch that came last.
MoveCursor(r) ==
  /\ at[r] = "dedup"
  /\ batch[r] = {}
  /\ lastSeen' = [lastSeen EXCEPT ![cur[r].cred] = {item[r]}]
  /\ Leave(r)
  /\ UNCHANGED <<token, needsReauth, signalVars, listVars, platformVars, faults>>

MoveCursorFails(r) ==
  /\ at[r] = "dedup"
  /\ batch[r] = {}
  /\ Fault
  /\ Leave(r)
  /\ UNCHANGED <<credVars, signalVars, listVars, platformVars>>

\* The run's context is cancelled: every call it still makes fails and leaves
\* the tables alone, so it is as good as over.  A crash does the same.
Cancel(r) ==
  /\ at[r] # "idle"
  /\ Fault
  /\ Goto(r, "idle")
  /\ ClearLocals(r)
  /\ unlisted' = [unlisted EXCEPT ![r] = {}]
  /\ todo' = [todo EXCEPT ![r] = {}]
  /\ UNCHANGED <<credVars, signalVars, platformVars>>

------------------------------------------------------------------------------
Environment ==
  \/ \E c \in Creds : Link(c) \/ Revoke(c)
  \/ \E c \in Creds, i \in Items : Post(c, i)

HarvestCredential(r) ==
  \/ HarvestNothing(r)
  \/ Harvest(r)
  \/ HarvestAuthError(r)
  \/ HarvestFails(r)
  \/ Mark(r)
  \/ MarkFails(r)
  \/ \E i \in batch[r] : Skip(r, i) \/ New(r, i) \/ DedupFails(r, i)
  \/ Process(r)
  \/ ProcessFails(r)
  \/ MoveCursor(r)
  \/ MoveCursorFails(r)

RunOnce(r) ==
  \/ \E p \in Providers : List(r, p) \/ ListFails(r, p)
  \/ FinishRun(r)
  \/ \E l \in todo[r] : Choose(r, l)
  \/ HarvestCredential(r)

Next ==
  \/ Environment
  \/ \E r \in Runs : StartRun(r) \/ RunOnce(r) \/ Cancel(r)

Spec == Init /\ [][Next]_vars

\* Every call returns, and the ticker ticks; nobody has to post a request.
Fairness ==
  /\ WF_vars(StartRun(Ticker))
  /\ \A r \in Runs : WF_vars(RunOnce(r))

FairSpec == Spec /\ Fairness

------------------------------------------------------------------------------
TypeOK ==
  /\ token \in [Creds -> Nat]
  /\ needsReauth \subseteq Creds
  /\ lastSeen \in [Creds -> SUBSET Items]
  /\ signals \subseteq Users \X Urls
  /\ at \in [Runs -> {"idle", "choose", "harvest", "mark", "dedup", "process"}]
  /\ unlisted \in [Runs -> SUBSET Providers]
  /\ todo \in [Runs -> SUBSET Listed]
  /\ cur \in [Runs -> Listed \cup {NoneListed}]
  /\ attempt \in [Runs -> 0 .. (MaxRetries - 1)]
  /\ batch \in [Runs -> SUBSET Items]
  /\ item \in [Runs -> Items]
  /\ feed \in [Creds -> SUBSET Items]
  /\ revoked \in [Creds -> Nat]
  /\ deliveries \in [Users \X Urls -> Nat]
  /\ faults \in 0 .. MaxFaults

\* Only a platform's refusal takes a credential out of the cycle: no outage, no
\* failed attempt and no other run's mistake flags one whose tokens all work.
FlaggedWasRevoked == \A c \in needsReauth : revoked[c] > 0

\* One run at a time hands each item to the synthesizer once, though it lists
\* the same items in every cycle, and the same item may come from two accounts.
DeliveredOnce == \A d \in Users \X Urls : deliveries[d] <= 1

\* What makes them inductive: rows on a run's list are linked; a run about to
\* mark a row has been refused with its token; and what a run has harvested is
\* in the feed of the account it read.
ListedAreLinked ==
  \A r \in Runs :
    /\ \A l \in todo[r] : token[l.cred] # 0
    /\ at[r] \notin {"idle", "choose"} => cur[r] \in Listed /\ token[cur[r].cred] # 0

MarkedIsRefused ==
  \A r \in Runs : at[r] = "mark" => revoked[cur[r].cred] > 0

BatchFromFeed ==
  \A r \in Runs :
    /\ \A i \in batch[r] :
         at[r] \in {"dedup", "process"} /\ i \in feed[AccountOf(cur[r].cred)]
    /\ at[r] = "process" =>
         item[r] # NoUrl /\ item[r] \in feed[AccountOf(cur[r].cred)]

\* A user has signals only from accounts that were harvested for a credential that
\* user linked (with a shared client, another user's account).
SignalsFromAccounts ==
  \A s \in signals :
    \E c \in Creds :
      UserOf(c) = s[1] /\ token[c] # 0 /\ s[2] \in feed[AccountOf(c)]

InductiveInvariant ==
  /\ TypeOK
  /\ FlaggedWasRevoked
  /\ ListedAreLinked
  /\ MarkedIsRefused
  /\ BatchFromFeed
  /\ SignalsFromAccounts

\* What makes DeliveredOnce inductive, for any number of runs: nothing was delivered
\* of what the table does not hold, and each run delivers an item once more at
\* most, if it came past ExistsByURL before the first of them was done.
Delivering(d) == {r \in Runs : at[r] = "process" /\ UserSignal(r, item[r]) = d}

DeliveriesAccounted ==
  \A d \in Users \X Urls :
    /\ d \notin signals => deliveries[d] = 0
    /\ deliveries[d] + Cardinality(Delivering(d)) <= Cardinality(Runs)

\* However often items are listed, a race of runs hands one to the synthesizer at
\* most once for each run that takes part.
DeliveredOncePerRun == \A d \in Users \X Urls : deliveries[d] <= Cardinality(Runs)

\* What the linked accounts show: to whom, and which link.
Shown ==
  {s \in Users \X Urls :
     \E c \in Creds : UserOf(c) = s[1] /\ token[c] # 0 /\ s[2] \in feed[AccountOf(c)]}

Promise == INSTANCE Delivery
  WITH Signals <- Users \X Urls, Times <- Cardinality(Runs), shown <- Shown

\* The synthesizer is handed what a user's linked account shows, for that user, and
\* each item once for each run that takes part: with the ticker's loop alone, once,
\* though every cycle lists it again and two accounts may show it.
ImplementsDelivery == Promise!Spec

\* A flagged credential goes quiet: no run comes back to it for ever.
FlaggedGoesQuiet ==
  \A c \in Creds :
    [](c \in needsReauth => <>[](\A r \in Runs : cur[r].cred # c))

\* What a working account shows becomes a signal, whatever the other accounts,
\* revoked or full of poison, do in the same cycles.
Working(c) == token[c] > revoked[c] /\ c \notin needsReauth

EventuallyHarvested ==
  \A c \in Creds, u \in Urls \ Poison :
    <>[](Working(c) /\ u \in feed[c]) => <>(<<UserOf(c), u>> \in signals)

\* What comments say and the code does not do (the findings).

\* ListActiveCredentials leaves out the credentials that need reauthentication.
\* One whose token was never refused needs none.
FreshTokenIsActive == \A c \in needsReauth : token[c] <= revoked[c]

\* Harvest fetches content using the given credential: a user's signals come from
\* accounts that user has linked.
SignalsFromOwnFeeds ==
  \A s \in signals :
    \E c \in Creds : UserOf(c) = s[1] /\ token[c] # 0 /\ s[2] \in feed[c]
==============================================================================
