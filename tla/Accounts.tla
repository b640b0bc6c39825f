------------------------------- MODULE Accounts -------------------------------
(***************************************************************************)
(* Who uses the keyring: the accounts manager, a local page to sign in to  *)
(* Google, list and remove accounts (googleauth/accounts_server.go), whose *)
(* requests run concurrently; and the API client of other processes, which *)
(* resolves an account's client, opens the keyring and reads the token     *)
(* (googleapi/client.go, authclient, config/clients.go).                   *)
(***************************************************************************)
EXTENDS Keyring

CONSTANTS
  MaxFlows,            \* bound: sign-ins started
  Requests, Commands,  \* the manager's requests at a time, and other processes
  Environments,        \* where commands run
  Overrides,           \* clients a command may be told to use; "" for none
  DomainOf,            \* the domain of each email
  Config               \* config.File, and the clients with a credentials file

\* GOG_KEYRING_BACKEND, the configured backend, and what the machine has.
Environment == [linux : BOOLEAN, variable : STRING, setting : STRING, dbus : BOOLEAN]

ASSUME AccountsAssumption ==
  /\ Threads = Requests \cup Commands /\ Requests \cap Commands = {}
  /\ MaxFlows \in Nat
  /\ Environments \subseteq Environment
  /\ "" \notin Clients /\ Overrides \subseteq Clients \cup {""}
  /\ DOMAIN DomainOf = Emails
  /\ \A e \in DOMAIN Config.accountClients : Config.accountClients[e] \in Clients
  /\ \A d \in DOMAIN Config.clientDomains : Config.clientDomains[d] \in Clients
  /\ Config.credentials \subseteq Clients

VARIABLES
  serving,    \* the client of the running manager; "" for no manager
  flows,      \* sign-ins started; they are numbered
  oauthState, \* the sign-in whose callback the manager accepts; 0 for none
  flow,       \* the sign-in a request completes
  spent,      \* sign-ins whose code Google has taken
  env         \* where each command opens the keyring

server == <<serving, flows, oauthState, flow, spent>>
vars == <<keyringVars, server, env>>

Anywhere == [linux |-> FALSE, variable |-> "", setting |-> "", dbus |-> FALSE]

Init ==
  /\ KeyringInit
  /\ serving = "" /\ flows = 0 /\ oauthState = 0 /\ spent = {}
  /\ flow = [t \in Requests |-> 0]
  /\ env = [t \in Commands |-> Anywhere]

------------------------------------------------------------------------------
(***************************************************************************)
(* The accounts manager.                                                   *)
(***************************************************************************)
StartManageServer(c) ==
  /\ serving = ""
  /\ serving' = c
  /\ UNCHANGED <<keyringVars, flows, oauthState, flow, spent, env>>

\* The time is up, or the user stops it: the process ends with its requests.
StopManageServer ==
  /\ serving # ""
  /\ serving' = ""
  /\ oauthState' = 0
  /\ flow' = [t \in Requests |-> 0]
  /\ at' = [t \in Threads |-> IF t \in Requests THEN "idle" ELSE at[t]]
  /\ account' = [t \in Threads |-> IF t \in Requests THEN <<>> ELSE account[t]]
  /\ item' = [t \in Threads |-> IF t \in Requests THEN None ELSE item[t]]
  /\ unread' = [t \in Threads |-> IF t \in Requests THEN {} ELSE unread[t]]
  /\ LET cut == {a \in Accounts : \E t \in Requests : at[t] \in Writing /\ account[t] = a}
     IN  /\ clean' = [a \in Accounts |-> clean[a] /\ a \notin cut]
         /\ latest' = [a \in Accounts |-> IF a \in cut THEN None ELSE latest[a]]
  /\ alone' = [t \in Threads |-> alone[t] /\ t \notin Requests]
  /\ UNCHANGED <<ring, faults, flows, spent, env>>

\* /auth/start and /auth/upgrade: the page goes to Google with a state of its
\* own, the only one whose callback is accepted from now on.
HandleAuthStart ==
  /\ serving # ""
  /\ flows < MaxFlows
  /\ flows' = flows + 1
  /\ oauthState' = flows + 1
  /\ UNCHANGED <<keyringVars, serving, flow, spent, env>>

\* Mutant of Arrives: the manager has stopped and still takes requests.
ArrivesTooLate(t) == at[t] = "idle"

Arrives(t) == serving # "" /\ at[t] = "idle"

\* /oauth2/callback, for consent and no error; the page may be loaded again.  Before
\* any sign-in a callback without a state is let through, with a code of no sign-in.
HandleOAuthCallback(t, f) ==
  /\ Arrives(t)
  /\ f = oauthState
  /\ Goto(t, "exchange")
  /\ flow' = [flow EXCEPT ![t] = f]
  /\ UNCHANGED <<ring, account, item, unread, faults, observers>>
  /\ UNCHANGED <<serving, flows, oauthState, spent, env>>

Answered(t) ==
  /\ at[t] = "exchange"
  /\ flow' = [flow EXCEPT ![t] = 0]
  /\ UNCHANGED <<serving, flows, oauthState, unread, env>>

\* Google takes a code once; the user has chosen which account to sign in.
Exchange(t, e) ==
  /\ Answered(t)
  /\ flow[t] # 0 /\ flow[t] \notin spent
  /\ Cardinality(spent) < MaxGrants
  /\ spent' = spent \cup {flow[t]}
  /\ LET a == <<serving, e>> IN
       Begin(t, "set", a, [account |-> a, number |-> flow[t]])

\* The code is refused, or the answer lost, or it has no refresh token, or the
\* email is not to be had, or the keychain stays locked.
ExchangeFails(t) ==
  /\ Answered(t)
  /\ Goto(t, "idle")
  /\ spent' \in {spent, spent \cup ({flow[t]} \ {0})} /\ Cardinality(spent') <= MaxGrants
  /\ UNCHANGED <<ring, account, item, faults, observers>>

HandleListAccounts(t) ==
  /\ Arrives(t)
  /\ Keys(t)
  /\ UNCHANGED <<server, env>>

HandleRemoveAccount(t, e) ==
  /\ Arrives(t)
  /\ Begin(t, "remove", <<serving, e>>, None)
  /\ UNCHANGED <<unread, server, env>>

------------------------------------------------------------------------------
(***************************************************************************)
(* Opening the keyring.                                                    *)
(***************************************************************************)
ResolveBackend(v) ==
  IF v.variable # "" THEN v.variable
  ELSE IF v.setting # "" THEN v.setting
  ELSE "auto"

IsAllowed(v) == ResolveBackend(v) \in {"auto", "keychain", "file"}

\* Mutant of ShouldForceFileBackend: a machine without D-Bus is like any other.
NeverForceFileBackend(v) == FALSE

ShouldForceFileBackend(v) == v.linux /\ ResolveBackend(v) = "auto" /\ ~ v.dbus

ShouldUseTimeout(v) == v.linux /\ ResolveBackend(v) = "auto" /\ v.dbus

\* The keyring library tries the secret service first, and waits for it.
MayHang(v) ==
  v.linux /\ ResolveBackend(v) = "auto" /\ ~ ShouldForceFileBackend(v)

------------------------------------------------------------------------------
(***************************************************************************)
(* Commands.                                                               *)
(***************************************************************************)
ResolveClient(e, override) ==
  IF override # "" THEN override
  ELSE IF e \in DOMAIN Config.accountClients THEN Config.accountClients[e]
  ELSE IF DomainOf[e] \in DOMAIN Config.clientDomains
       THEN Config.clientDomains[DomainOf[e]]
  ELSE IF DomainOf[e] \in Config.credentials THEN DomainOf[e]
  ELSE Default

\* tokenSourceForAccountScopes, up to the keyring.
NeedsToken(t, e, override, v) ==
  /\ at[t] = "idle"
  /\ Goto(t, "open")
  /\ account' = [account EXCEPT ![t] = <<ResolveClient(e, override), e>>]
  /\ env' = [env EXCEPT ![t] = v]
  /\ UNCHANGED <<ring, item, unread, faults, observers, server>>

Opening(t) ==
  /\ at[t] = "open"
  /\ env' = [env EXCEPT ![t] = Anywhere]
  /\ UNCHANGED <<unread, server>>

OpenRing(t) ==
  /\ Opening(t)
  /\ IsAllowed(env[t])
  /\ Begin(t, "get", account[t], None)

OpenGivesUp(t) ==
  /\ Opening(t)
  /\ Goto(t, "idle")
  /\ account' = [account EXCEPT ![t] = <<>>]
  /\ UNCHANGED <<ring, item, faults, observers>>

OpenRefused(t) == OpenGivesUp(t) /\ ~ IsAllowed(env[t])

OpenTimesOut(t) == OpenGivesUp(t) /\ ShouldUseTimeout(env[t])

\* There is no directory for it, or the configuration cannot be read, or keyring.Open
\* returns an error.
OpenFails(t) == OpenGivesUp(t) /\ IsAllowed(env[t])

------------------------------------------------------------------------------
Command(t) ==
  \/ \E e \in Emails, o \in Overrides, v \in Environments : NeedsToken(t, e, o, v)
  \/ OpenRing(t) \/ OpenRefused(t) \/ OpenTimesOut(t) \/ OpenFails(t)

Request(t) ==
  \/ \E f \in 0 .. flows : HandleOAuthCallback(t, f)
  \/ \E e \in Emails : Exchange(t, e) \/ HandleRemoveAccount(t, e)
  \/ ExchangeFails(t)
  \/ HandleListAccounts(t)

Next ==
  \/ \E c \in Clients : StartManageServer(c)
  \/ StopManageServer
  \/ HandleAuthStart
  \/ \E t \in Requests : Request(t)
  \/ \E t \in Commands : Command(t)
  \/ \E t \in Threads : KeyringStep(t) /\ UNCHANGED <<server, env>>

Spec == Init /\ [][Next]_vars

\* keyring.Open returns, unless it hangs, and so does a timeout.
OpenEnds(t) ==
  \/ OpenRefused(t) \/ OpenTimesOut(t)
  \/ (OpenRing(t) \/ OpenFails(t)) /\ ~ MayHang(env[t])

FairSpec == Spec /\ \A t \in Commands : WF_vars(OpenEnds(t))

------------------------------------------------------------------------------
TypeOK ==
  /\ KeyringTypeOK
  /\ at \in [Threads -> Writing \cup Reading \cup {"idle", "exchange", "list", "open"}]
  /\ \A t \in Commands : at[t] = "open" => account[t] \in Accounts
  /\ serving \in Clients \cup {""}
  /\ \A t \in Requests : at[t] # "idle" => serving # ""
  /\ flows \in 0 .. MaxFlows
  /\ oauthState \in 0 .. flows
  /\ flow \in [Requests -> 0 .. flows]
  /\ spent \subseteq 1 .. flows
  /\ env \in [Commands -> Environments \cup {Anywhere}]

\* A command that opens the keyring gets an answer, on machines whose secret
\* service hangs as on others.
OpenAnswers == \A t \in Commands : at[t] = "open" ~> at[t] # "open"
==============================================================================
