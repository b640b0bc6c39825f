------------------------------- MODULE Keyring --------------------------------
(***************************************************************************)
(* The token store over the system keyring (internal/secrets/store.go).    *)
(* The default client's tokens are kept under two keys, the current one    *)
(* and the one of older versions; reading an account that has only the old *)
(* key copies it.  The keyring's own operations are atomic and may fail;   *)
(* those of the store are not: threads of several processes interleave     *)
(* between them, and a process may die there.                              *)
(***************************************************************************)
EXTENDS Integers, FiniteSets

CONSTANTS
  Threads,    \* goroutines and processes that use the store, one call at a time
  Clients, Default,
  Emails,
  MaxGrants,  \* bound: sign-ins that get a token
  MaxFaults   \* bound: failures of the keyring, and kills

ASSUME KeyringAssumption ==
  /\ Default \in Clients
  /\ MaxGrants \in Nat /\ MaxFaults \in Nat

Accounts == Clients \X Emails

\* A refresh token knows whom it was granted to.
Grant == [account : Accounts, number : Nat]

None == [account |-> <<>>, number |-> 0]

VARIABLES
  token,    \* token:<client>:<email>
  legacy,   \* token:<email>
  at,       \* the keyring call each thread makes next
  account,  \* the account it is about
  item,     \* the token it stores or has read
  unread,   \* ListTokens: the accounts still to read
  faults,
  \* Observers.
  alone,    \* no other thread has touched the account since this write began
  clean,    \* the last write of the account succeeded, and was alone
  latest    \* and this is what it left

ring == <<token, legacy>>
threads == <<at, account, item, unread>>
observers == <<alone, clean, latest>>
keyringVars == <<ring, threads, faults, observers>>

Writing == {"set", "set legacy", "remove", "remove legacy"}
Reading == {"get", "get legacy", "migrate"}

\* An older version may have left tokens of the default client.
Old(e) == [account |-> <<Default, e>>, number |-> 0]

KeyringInit ==
  /\ token = [a \in Accounts |-> None]
  /\ \E old \in SUBSET Emails :
       legacy = [e \in Emails |-> IF e \in old THEN Old(e) ELSE None]
  /\ at = [t \in Threads |-> "idle"]
  /\ account = [t \in Threads |-> <<>>]
  /\ item = [t \in Threads |-> None]
  /\ unread = [t \in Threads |-> {}]
  /\ faults = 0
  /\ alone = [t \in Threads |-> FALSE]
  /\ latest = [a \in Accounts |-> IF a[1] = Default THEN legacy[a[2]] ELSE None]
  /\ clean = [a \in Accounts |-> TRUE]

------------------------------------------------------------------------------
Goto(t, step) == at' = [at EXCEPT ![t] = step]

On(t, a) == at[t] \in Writing \cup Reading /\ account[t] = a

Begin(t, step, a, g) ==
  /\ Goto(t, step)
  /\ account' = [account EXCEPT ![t] = a]
  /\ item' = [item EXCEPT ![t] = g]
  /\ alone' = [u \in Threads |->
                 IF u = t THEN step \in Writing /\ \A v \in Threads \ {t} : ~ On(v, a)
                 ELSE alone[u] /\ ~ On(u, a)]
  /\ UNCHANGED <<ring, faults, latest, clean>>

\* A write of an account ends; ok tells whether it did what it was asked.
EndWrite(t, g, ok) ==
  LET a == account[t] IN
    /\ Goto(t, "idle")
    /\ account' = [account EXCEPT ![t] = <<>>]
    /\ item' = [item EXCEPT ![t] = None]
    /\ alone' = [alone EXCEPT ![t] = FALSE]
    /\ clean' = [clean EXCEPT ![a] = ok /\ alone[t]]
    /\ latest' = [latest EXCEPT ![a] = IF ok /\ alone[t] THEN g ELSE None]
    /\ UNCHANGED unread

Put(t) == token' = [token EXCEPT ![account[t]] = item[t]]

Fault == faults < MaxFaults /\ faults' = faults + 1

\* Mutant of IsDefault: the old key is for everybody.
IsAnyone(t) == account[t][1] \in Clients

IsDefault(t) == account[t][1] = Default

------------------------------------------------------------------------------
(***************************************************************************)
(* SetToken and DeleteToken.                                               *)
(***************************************************************************)
SetToken(t) ==
  /\ at[t] = "set"
  /\ Put(t)
  /\ IF IsDefault(t)
     THEN Goto(t, "set legacy") /\ UNCHANGED <<account, item, unread, observers>>
     ELSE EndWrite(t, item[t], TRUE)
  /\ UNCHANGED <<legacy, faults>>

SetLegacy(t) ==
  /\ at[t] = "set legacy"
  /\ legacy' = [legacy EXCEPT ![account[t][2]] = item[t]]
  /\ EndWrite(t, item[t], TRUE)
  /\ UNCHANGED <<token, faults>>

\* Mutant of RemoveToken: the old key is forgotten.
RemoveTokenOnly(t) ==
  /\ at[t] = "remove"
  /\ token' = [token EXCEPT ![account[t]] = None]
  /\ EndWrite(t, None, TRUE)
  /\ UNCHANGED <<legacy, faults>>

\* A key that is not there is as good as removed.
RemoveToken(t) ==
  /\ at[t] = "remove"
  /\ token' = [token EXCEPT ![account[t]] = None]
  /\ IF IsDefault(t)
     THEN Goto(t, "remove legacy") /\ UNCHANGED <<account, item, unread, observers>>
     ELSE EndWrite(t, None, TRUE)
  /\ UNCHANGED <<legacy, faults>>

RemoveLegacy(t) ==
  /\ at[t] = "remove legacy"
  /\ legacy' = [legacy EXCEPT ![account[t][2]] = None]
  /\ EndWrite(t, None, TRUE)
  /\ UNCHANGED <<token, faults>>

\* The keyring refuses, or the process dies: what is written stays.
WriteFails(t) ==
  /\ at[t] \in Writing
  /\ Fault
  /\ EndWrite(t, item[t], FALSE)
  /\ UNCHANGED ring

------------------------------------------------------------------------------
(***************************************************************************)
(* GetToken and ListTokens, which reads one account after the other and    *)
(* gives up at the first it cannot read.                                   *)
(***************************************************************************)
EndRead(t, todo) ==
  /\ Goto(t, IF todo = {} THEN "idle" ELSE "list")
  /\ account' = [account EXCEPT ![t] = <<>>]
  /\ item' = [item EXCEPT ![t] = None]
  /\ unread' = [unread EXCEPT ![t] = todo]
  /\ UNCHANGED observers

Read(t) == EndRead(t, unread[t])

ReadFails(t) == EndRead(t, {})

GetToken(t) ==
  /\ at[t] = "get"
  /\ token[account[t]] # None
  /\ Read(t)
  /\ UNCHANGED <<ring, faults>>

\* Any failure sends the default client to its old key, not only a missing key.
GetTokenFails(t) ==
  /\ at[t] = "get"
  /\ IF token[account[t]] = None THEN UNCHANGED faults ELSE Fault
  /\ IF IsDefault(t)
     THEN Goto(t, "get legacy") /\ UNCHANGED <<account, item, unread, observers>>
     ELSE ReadFails(t)
  /\ UNCHANGED ring

GetLegacy(t) ==
  /\ at[t] = "get legacy"
  /\ IF legacy[account[t][2]] = None
     THEN ReadFails(t)
     ELSE /\ Goto(t, "migrate")
          /\ item' = [item EXCEPT ![t] = legacy[account[t][2]]]
          /\ UNCHANGED <<account, unread, observers>>
  /\ UNCHANGED <<ring, faults>>

Migrate(t) ==
  /\ at[t] = "migrate"
  /\ Put(t)
  /\ Read(t)
  /\ UNCHANGED <<legacy, faults>>

GetFails(t) ==
  /\ at[t] \in {"get legacy", "migrate"}
  /\ Fault
  /\ ReadFails(t)
  /\ UNCHANGED ring

\* ListTokens begins with the keys: either one stands for its account.
Keys(t) ==
  /\ at[t] = "idle"
  /\ LET known == {a \in Accounts : \/ token[a] # None
                                    \/ a[1] = Default /\ legacy[a[2]] # None}
     IN  EndRead(t, known)
  /\ UNCHANGED <<ring, faults>>

ListNext(t) ==
  /\ at[t] = "list"
  /\ \E a \in unread[t] :
       /\ Begin(t, "get", a, None)
       /\ unread' = [unread EXCEPT ![t] = @ \ {a}]

KeyringStep(t) ==
  \/ SetToken(t) \/ SetLegacy(t) \/ RemoveToken(t) \/ RemoveLegacy(t)
  \/ WriteFails(t)
  \/ GetToken(t) \/ GetTokenFails(t) \/ GetLegacy(t) \/ Migrate(t) \/ GetFails(t)
  \/ ListNext(t)

------------------------------------------------------------------------------
KeyringTypeOK ==
  /\ token \in [Accounts -> Grant \cup {None}]
  /\ legacy \in [Emails -> Grant \cup {None}]
  /\ account \in [Threads -> Accounts \cup {<<>>}]
  /\ \A t \in Threads : at[t] \in Writing \cup Reading => account[t] \in Accounts
  /\ item \in [Threads -> Grant \cup {None}]
  /\ unread \in [Threads -> SUBSET Accounts]
  /\ faults \in 0 .. MaxFaults
  /\ alone \in [Threads -> BOOLEAN]
  /\ latest \in [Accounts -> Grant \cup {None}]
  /\ clean \in [Accounts -> BOOLEAN]

\* What GetToken returns for an account when nothing comes between.
Stored(a) ==
  IF token[a] # None \/ a[1] # Default THEN token[a] ELSE legacy[a[2]]

\* A token is only ever found by the account it was granted to: the old key,
\* which names no client, never hands a token to another client.
NoForeignToken ==
  \A a \in Accounts : Stored(a) # None => Stored(a).account = a

\* The last write of an account, sign-in or removal, is what everybody reads
\* from then on, however reads copy the old key: unless it failed or died half
\* way, or met another call on the same account.  So a removed account does not
\* come back, and a new token is not replaced by an older one.
LatestWriteCounts ==
  \A a \in Accounts :
    clean[a] /\ (\A t \in Threads : at[t] \in Writing => account[t] # a) =>
      Stored(a) = latest[a]
==============================================================================
