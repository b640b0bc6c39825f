---------------------------- MODULE AccountsProofs ----------------------------
(***************************************************************************)
(* Proofs about Accounts and its keyring, for any threads and accounts.    *)
(***************************************************************************)
EXTENDS Accounts, TLAPS

\* What a thread carries, by where it is.
CarriesAt(t) ==
  /\ at[t] \in {"set", "set legacy", "migrate"} =>
       item[t] # None /\ item[t].account = account[t]
  /\ at[t] \in {"set legacy", "remove legacy", "get legacy", "migrate"} =>
       account[t][1] = Default

Carries == \A t \in Threads : CarriesAt(t)

\* A token is kept under its account's keys only.
UnderOwnKey ==
  /\ \A a \in Accounts : token[a] # None => token[a].account = a
  /\ \A e \in Emails : legacy[e] # None => legacy[e].account = <<Default, e>>

\* A write alone on its account finds what it has written.
AloneAt(t) ==
  alone[t] =>
    /\ at[t] \in Writing
    /\ \A u \in Threads \ {t} : ~ On(u, account[t])
    /\ at[t] = "set legacy" => token[account[t]] = item[t]
    /\ at[t] = "remove legacy" => token[account[t]] = None

Undisturbed(a) == clean[a] /\ \A t \in Threads : at[t] \in Writing => account[t] # a

\* Between writes the keys agree, and so do the copies readers are making.
SettledAt(a) ==
  Undisturbed(a) =>
    /\ Stored(a) = latest[a]
    /\ a[1] = Default => token[a] \in {None, legacy[a[2]]}
    /\ \A t \in Threads : at[t] = "migrate" /\ account[t] = a => item[t] = Stored(a)

\* Only a command opens the keyring.
Opens == \A t \in Requests : at[t] # "open"

Inv ==
  /\ TypeOK /\ Carries /\ UnderOwnKey /\ Opens
  /\ \A t \in Threads : AloneAt(t)
  /\ \A a \in Accounts : SettledAt(a)

Acts(t) ==
  \/ KeyringStep(t) /\ UNCHANGED <<server, env>>
  \/ t \in Requests /\ Request(t)
  \/ t \in Commands /\ Command(t)

\* An account is its client and its email.
LEMMA AccountParts ==
  ASSUME NEW a \in Accounts
  PROVE  /\ a[1] \in Clients /\ a[2] \in Emails /\ a # <<>>
         /\ a[1] = Default => a = <<Default, a[2]>>
  BY DEF Accounts

\* No token is not a token.
LEMMA NoneIsNoGrant == None \notin Grant /\ <<>> \notin Accounts
  BY DEF None, Grant, Accounts

------------------------------------------------------------------------------
\* What a thread does leaves the other threads where they are, and their writes
\* alone only if it did not begin with their account.
LEMMA OthersStay ==
  ASSUME TypeOK, NEW t \in Threads, Acts(t), NEW u \in Threads \ {t}
  PROVE  /\ at'[u] = at[u] /\ account'[u] = account[u] /\ item'[u] = item[u]
         /\ alone'[u] => alone[u]
         /\ alone'[u] /\ at[u] \in Writing /\ On(t, account[u])' => On(t, account[u])
  <1> DEFINE Stay == /\ at'[u] = at[u] /\ account'[u] = account[u] /\ item'[u] = item[u]
                     /\ alone'[u] => alone[u]
                     /\ alone'[u] /\ at[u] \in Writing /\ On(t, account[u])' => On(t, account[u])
  <1> USE DEF TypeOK, KeyringTypeOK, Goto, threads, observers, keyringVars, ring, Writing, Reading
  <1>1. ASSUME NEW step, NEW a, NEW g, Begin(t, step, a, g) PROVE Stay
    BY <1>1 DEF Begin, On
  <1>2. ASSUME NEW g, NEW ok, EndWrite(t, g, ok) PROVE Stay
    <2>1. at' = [at EXCEPT ![t] = "idle"] /\ account' = [account EXCEPT ![t] = <<>>]
          /\ item' = [item EXCEPT ![t] = None] /\ alone' = [alone EXCEPT ![t] = FALSE]
      BY <1>2 DEF EndWrite
    <2>2. QED
      BY <2>1 DEF On
  <1>3. ASSUME NEW todo, EndRead(t, todo) PROVE Stay
    BY <1>3 DEF EndRead, On
  <1>4. ASSUME NEW step, Goto(t, step), UNCHANGED <<account, item, alone>>,
               at[t] \in Writing \cup Reading
        PROVE  Stay
    BY <1>4 DEF On
  <1>5. ASSUME NEW step \in {"idle", "exchange", "open"}, Goto(t, step), UNCHANGED <<item, alone>>,
               \A v \in Threads \ {t} : account'[v] = account[v]
        PROVE  Stay
    BY <1>5 DEF On
  <1> HIDE DEF TypeOK, KeyringTypeOK, Goto, Stay
  <1>6. ASSUME SetToken(t) PROVE Stay
    BY <1>2, <1>4, <1>6 DEF SetToken
  <1>7. ASSUME RemoveToken(t) PROVE Stay
    BY <1>2, <1>4, <1>7 DEF RemoveToken
  <1>8. ASSUME SetLegacy(t) \/ RemoveLegacy(t) \/ WriteFails(t) PROVE Stay
    BY <1>2, <1>8 DEF SetLegacy, RemoveLegacy, WriteFails
  <1>9. ASSUME GetToken(t) \/ GetFails(t) \/ Migrate(t) \/ Keys(t) PROVE Stay
    BY <1>3, <1>9 DEF GetToken, GetFails, Migrate, Keys, Read, ReadFails
  <1>10. ASSUME GetTokenFails(t) PROVE Stay
    BY <1>3, <1>4, <1>10 DEF GetTokenFails, ReadFails
  <1>11. ASSUME GetLegacy(t) PROVE Stay
    <2>1. CASE legacy[account[t][2]] = None
      BY <1>3, <1>11, <2>1 DEF GetLegacy, ReadFails
    <2>2. CASE legacy[account[t][2]] # None
      BY <1>11, <2>2 DEF GetLegacy, Goto, On, TypeOK, KeyringTypeOK, Stay
    <2>3. QED
      BY <2>1, <2>2
  <1>12. ASSUME ListNext(t) PROVE Stay
    BY <1>1, <1>12 DEF ListNext
  <1>13. ASSUME Request(t) PROVE Stay
    <2>1. ASSUME NEW f, HandleOAuthCallback(t, f) PROVE Stay
      BY <1>5, <2>1 DEF HandleOAuthCallback
    <2>2. ASSUME NEW e, Exchange(t, e) PROVE Stay
      BY <1>1, <2>2 DEF Exchange
    <2>3. ASSUME NEW e, HandleRemoveAccount(t, e) PROVE Stay
      BY <1>1, <2>3 DEF HandleRemoveAccount
    <2>4. ASSUME ExchangeFails(t) PROVE Stay
      BY <1>5, <2>4 DEF ExchangeFails
    <2>5. QED
      BY <1>9, <1>13, <2>1, <2>2, <2>3, <2>4 DEF Request, HandleListAccounts
  <1>14. ASSUME Command(t) PROVE Stay
    <2>1. ASSUME NEW e, NEW o, NEW v, NeedsToken(t, e, o, v) PROVE Stay
      <3>1. \A w \in Threads \ {t} : account'[w] = account[w]
        BY <2>1 DEF NeedsToken, TypeOK, KeyringTypeOK
      <3>2. QED
        BY <1>5, <2>1, <3>1 DEF NeedsToken
    <2>2. ASSUME OpenGivesUp(t) PROVE Stay
      <3>1. \A w \in Threads \ {t} : account'[w] = account[w]
        BY <2>2 DEF OpenGivesUp, TypeOK, KeyringTypeOK
      <3>2. QED
        BY <1>5, <2>2, <3>1 DEF OpenGivesUp
    <2>3. QED
      BY <1>1, <1>14, <2>1, <2>2 DEF Command, OpenRing, OpenRefused, OpenFails, OpenTimesOut
  <1>15. QED
    BY <1>6, <1>7, <1>8, <1>9, <1>10, <1>11, <1>12, <1>13, <1>14 DEF Acts, KeyringStep, Stay

\* A thread touches the keys of the account it is on, and no other; it comes to
\* copy an old key only there; and only there it ends a write.
LEMMA Footprint ==
  ASSUME Inv, NEW t \in Threads, Acts(t), NEW a \in Accounts, ~ On(t, a)
  PROVE  /\ token'[a] = token[a] /\ (a[1] = Default => legacy'[a[2]] = legacy[a[2]])
         /\ clean'[a] = clean[a] /\ latest'[a] = latest[a]
         /\ at'[t] = "migrate" => account'[t] # a
  <1> DEFINE Imprint == /\ token'[a] = token[a] /\ (a[1] = Default => legacy'[a[2]] = legacy[a[2]])
                        /\ clean'[a] = clean[a] /\ latest'[a] = latest[a]
                        /\ at'[t] = "migrate" => account'[t] # a
  <1>1. at[t] \in Writing \cup Reading => account[t] \in Accounts \ {a}
    BY DEF Inv, TypeOK, KeyringTypeOK, On
  <1>2. at[t] = "set legacy" \/ at[t] = "remove legacy" =>
          (a[1] = Default => a[2] # account[t][2])
    BY <1>1, AccountParts DEF Inv, Carries, CarriesAt, Writing
  <1>3. /\ at \in [Threads -> Writing \cup Reading \cup {"idle", "exchange", "list", "open"}]
        /\ token \in [Accounts -> Grant \cup {None}] /\ legacy \in [Emails -> Grant \cup {None}]
        /\ latest \in [Accounts -> Grant \cup {None}] /\ clean \in [Accounts -> BOOLEAN]
    BY DEF Inv, TypeOK, KeyringTypeOK
  <1> USE DEF Goto, threads, observers, keyringVars, ring, Writing, Reading
  <1>4. ASSUME NEW step, step # "migrate", NEW b, NEW g, Begin(t, step, b, g) PROVE Imprint
    BY <1>3, <1>4 DEF Begin
  <1>5. ASSUME NEW g, NEW ok, EndWrite(t, g, ok), at[t] \in Writing
        PROVE  clean'[a] = clean[a] /\ latest'[a] = latest[a] /\ at'[t] = "idle"
    BY <1>1, <1>3, <1>5 DEF EndWrite
  <1>6. ASSUME NEW todo, EndRead(t, todo)
        PROVE  clean'[a] = clean[a] /\ latest'[a] = latest[a] /\ at'[t] # "migrate"
    BY <1>3, <1>6 DEF EndRead
  <1>7. ASSUME NEW step, Goto(t, step), step # "migrate", UNCHANGED <<ring, clean, latest>> PROVE Imprint
    BY <1>3, <1>7
  <1>8. ASSUME at[t] \in Writing \cup Reading, Put(t) PROVE token'[a] = token[a]
    BY <1>1, <1>3, <1>8 DEF Put
  <1> HIDE DEF Goto
  <1>9. ASSUME SetToken(t) PROVE Imprint
    <2>1. token'[a] = token[a] /\ legacy' = legacy /\ at[t] = "set"
      BY <1>8, <1>9 DEF SetToken
    <2>2. CASE IsDefault(t)
      BY <1>3, <1>9, <2>1, <2>2 DEF SetToken, Goto
    <2>3. CASE ~ IsDefault(t)
      BY <1>5, <1>9, <2>1, <2>3 DEF SetToken
    <2>4. QED
      BY <2>2, <2>3
  <1>10. ASSUME RemoveToken(t) PROVE Imprint
    <2>1. token'[a] = token[a] /\ legacy' = legacy /\ at[t] = "remove"
      BY <1>1, <1>3, <1>10 DEF RemoveToken
    <2>2. CASE IsDefault(t)
      BY <1>3, <1>10, <2>1, <2>2 DEF RemoveToken, Goto
    <2>3. CASE ~ IsDefault(t)
      BY <1>5, <1>10, <2>1, <2>3 DEF RemoveToken
    <2>4. QED
      BY <2>2, <2>3
  <1>11. ASSUME SetLegacy(t) PROVE Imprint
    <2>1. token' = token /\ at[t] = "set legacy" /\ legacy' = [legacy EXCEPT ![account[t][2]] = item[t]]
      BY <1>11 DEF SetLegacy
    <2>2. a[1] = Default => legacy'[a[2]] = legacy[a[2]]
      BY <1>2, <1>3, <2>1, AccountParts
    <2>3. QED
      BY <1>5, <1>11, <2>1, <2>2 DEF SetLegacy
  <1>12. ASSUME RemoveLegacy(t) PROVE Imprint
    <2>1. token' = token /\ at[t] = "remove legacy" /\ legacy' = [legacy EXCEPT ![account[t][2]] = None]
      BY <1>12 DEF RemoveLegacy
    <2>2. a[1] = Default => legacy'[a[2]] = legacy[a[2]]
      BY <1>2, <1>3, <2>1, AccountParts
    <2>3. QED
      BY <1>5, <1>12, <2>1, <2>2 DEF RemoveLegacy
  <1>13. ASSUME WriteFails(t) PROVE Imprint
    BY <1>5, <1>13 DEF WriteFails
  <1>14. ASSUME GetToken(t) \/ GetFails(t) \/ Keys(t) PROVE Imprint
    BY <1>6, <1>14 DEF GetToken, GetFails, Keys, Read, ReadFails
  <1>15. ASSUME Migrate(t) PROVE Imprint
    BY <1>6, <1>8, <1>15 DEF Migrate, Read
  <1>16. ASSUME GetTokenFails(t) PROVE Imprint
    <2>1. CASE IsDefault(t)
      BY <1>7, <1>16, <2>1 DEF GetTokenFails
    <2>2. CASE ~ IsDefault(t)
      BY <1>6, <1>16, <2>2 DEF GetTokenFails, ReadFails
    <2>3. QED
      BY <2>1, <2>2
  <1>17. ASSUME GetLegacy(t) PROVE Imprint
    <2>1. CASE legacy[account[t][2]] = None
      BY <1>6, <1>17, <2>1 DEF GetLegacy, ReadFails
    <2>2. CASE legacy[account[t][2]] # None
      BY <1>1, <1>17, <2>2 DEF GetLegacy
    <2>3. QED
      BY <2>1, <2>2
  <1>18. ASSUME ListNext(t) PROVE Imprint
    BY <1>4, <1>18 DEF ListNext
  <1>19. ASSUME Request(t) PROVE Imprint
    <2>1. ASSUME NEW f, HandleOAuthCallback(t, f) PROVE Imprint
      BY <1>7, <2>1 DEF HandleOAuthCallback
    <2>2. ASSUME NEW e, Exchange(t, e) \/ HandleRemoveAccount(t, e) PROVE Imprint
      BY <1>4, <2>2 DEF Exchange, HandleRemoveAccount
    <2>3. ASSUME ExchangeFails(t) PROVE Imprint
      BY <1>7, <2>3 DEF ExchangeFails
    <2>4. QED
      BY <1>14, <1>19, <2>1, <2>2, <2>3 DEF Request, HandleListAccounts
  <1>20. ASSUME Command(t) PROVE Imprint
    <2>1. ASSUME NEW e, NEW o, NEW v, NeedsToken(t, e, o, v) PROVE Imprint
      BY <1>7, <2>1 DEF NeedsToken
    <2>2. ASSUME OpenGivesUp(t) PROVE Imprint
      BY <1>7, <2>2 DEF OpenGivesUp
    <2>3. QED
      BY <1>4, <1>20, <2>1, <2>2 DEF Command, OpenRing, OpenRefused, OpenFails, OpenTimesOut
  <1>21. Imprint
    <2> HIDE DEF Imprint
    <2> QED
      BY <1>9, <1>10, <1>11, <1>12, <1>13, <1>14, <1>15, <1>16, <1>17, <1>18, <1>19, <1>20
         DEF Acts, KeyringStep
  <1>22. QED
    BY <1>21

------------------------------------------------------------------------------
\* A write's or a reader's step carries what the next one needs.
LEMMA CarriesStep ==
  ASSUME Inv, NEW t \in Threads, Acts(t)
  PROVE  Carries'
  <1>1. ASSUME NEW u \in Threads \ {t} PROVE CarriesAt(u)'
    BY <1>1, OthersStay DEF Inv, Carries, CarriesAt
  <1>2. CarriesAt(t)'
    <2>1. CarriesAt(t) /\ (at[t] \in Writing \cup Reading => account[t] \in Accounts)
      BY DEF Inv, Carries, TypeOK, KeyringTypeOK
    <2>2. /\ at \in [Threads -> Writing \cup Reading \cup {"idle", "exchange", "list", "open"}]
          /\ account \in [Threads -> Accounts \cup {<<>>}] /\ item \in [Threads -> Grant \cup {None}]
      BY DEF Inv, TypeOK, KeyringTypeOK
    <2> USE DEF Goto, threads, observers, keyringVars, ring, Writing, Reading
    <2>3. ASSUME at'[t] \in {"idle", "exchange", "list", "open", "get", "remove"} PROVE CarriesAt(t)'
      BY <2>3 DEF CarriesAt
    <2>4. ASSUME NEW step, NEW b, NEW g, Begin(t, step, b, g), step \in {"get", "remove"}
          PROVE  CarriesAt(t)'
      BY <2>2, <2>3, <2>4 DEF Begin
    <2>5. ASSUME NEW g, NEW ok, EndWrite(t, g, ok) PROVE CarriesAt(t)'
      BY <2>2, <2>3, <2>5 DEF EndWrite
    <2>6. ASSUME NEW todo, EndRead(t, todo) PROVE CarriesAt(t)'
      BY <2>2, <2>3, <2>6 DEF EndRead
    <2>7. ASSUME NEW step \in {"idle", "exchange", "open"}, Goto(t, step) PROVE CarriesAt(t)'
      BY <2>2, <2>3, <2>7
    <2>8. ASSUME SetToken(t) PROVE CarriesAt(t)'
      <3>1. CASE IsDefault(t)
        BY <2>1, <2>2, <2>8, <3>1 DEF SetToken, IsDefault, CarriesAt
      <3>2. CASE ~ IsDefault(t)
        BY <2>5, <2>8, <3>2 DEF SetToken
      <3>3. QED
        BY <3>1, <3>2
    <2>9. ASSUME RemoveToken(t) PROVE CarriesAt(t)'
      <3>1. CASE IsDefault(t)
        BY <2>1, <2>2, <2>9, <3>1 DEF RemoveToken, IsDefault, CarriesAt
      <3>2. CASE ~ IsDefault(t)
        BY <2>5, <2>9, <3>2 DEF RemoveToken
      <3>3. QED
        BY <3>1, <3>2
    <2>10. ASSUME GetTokenFails(t) PROVE CarriesAt(t)'
      <3>1. CASE IsDefault(t)
        BY <2>1, <2>2, <2>10, <3>1 DEF GetTokenFails, IsDefault, CarriesAt
      <3>2. CASE ~ IsDefault(t)
        BY <2>6, <2>10, <3>2 DEF GetTokenFails, ReadFails
      <3>3. QED
        BY <3>1, <3>2
    <2>11. ASSUME GetLegacy(t) PROVE CarriesAt(t)'
      <3>1. CASE legacy[account[t][2]] = None
        BY <2>6, <2>11, <3>1 DEF GetLegacy, ReadFails
      <3>2. CASE legacy[account[t][2]] # None
        <4>1. at[t] = "get legacy" /\ account[t] \in Accounts /\ account[t][1] = Default
          BY <2>1, <2>11 DEF GetLegacy, CarriesAt
        <4>2. account[t] = <<Default, account[t][2]>> /\ account[t][2] \in Emails
          BY <4>1, AccountParts
        <4>3. legacy[account[t][2]].account = account[t]
          BY <3>2, <4>2 DEF Inv, UnderOwnKey
        <4>4. account'[t] = account[t] /\ item'[t] = legacy[account[t][2]]
          BY <2>2, <2>11, <3>2 DEF GetLegacy
        <4>5. QED
          BY <3>2, <4>1, <4>3, <4>4 DEF CarriesAt
      <3>3. QED
        BY <3>1, <3>2
    <2>12. ASSUME NEW e \in Emails, t \in Requests, Exchange(t, e) PROVE CarriesAt(t)'
      <3> DEFINE a == <<serving, e>>
                 g == [account |-> a, number |-> flow[t]]
      <3>1. Begin(t, "set", a, g)
        BY <2>12 DEF Exchange
      <3>2. at'[t] = "set" /\ account'[t] = a /\ item'[t] = g
        BY <2>2, <3>1 DEF Begin
      <3>3. g # None /\ g.account = a
        <4>1. <<serving, e>> # <<>>
          OBVIOUS
        <4>2. QED
          BY <4>1 DEF None
      <3> HIDE DEF a, g
      <3>4. QED
        BY <3>2, <3>3 DEF CarriesAt
    <2> HIDE DEF Goto
    <2>13. ASSUME Request(t), t \in Requests PROVE CarriesAt(t)'
      BY <2>4, <2>6, <2>7, <2>12, <2>13 DEF Request, HandleOAuthCallback, ExchangeFails,
         HandleListAccounts, HandleRemoveAccount, Keys
    <2>14. ASSUME Command(t) PROVE CarriesAt(t)'
      BY <2>4, <2>7, <2>14 DEF Command, NeedsToken, OpenRing, OpenRefused, OpenFails, OpenTimesOut, OpenGivesUp
    <2>15. ASSUME KeyringStep(t) PROVE CarriesAt(t)'
      BY <2>4, <2>5, <2>6, <2>8, <2>9, <2>10, <2>11, <2>15 DEF KeyringStep, SetLegacy, RemoveLegacy,
         WriteFails, GetToken, Migrate, GetFails, ListNext, Read, ReadFails
    <2>16. QED
      BY <2>13, <2>14, <2>15 DEF Acts
  <1>3. QED
    BY <1>1, <1>2 DEF Carries

\* Tokens are put under their account's keys, and copied between those.
LEMMA OwnKeyStep ==
  ASSUME Inv, NEW t \in Threads, Acts(t)
  PROVE  UnderOwnKey'
  <1>1. /\ token \in [Accounts -> Grant \cup {None}] /\ legacy \in [Emails -> Grant \cup {None}]
        /\ (at[t] \in Writing \cup Reading => account[t] \in Accounts)
        /\ CarriesAt(t) /\ UnderOwnKey
    BY DEF Inv, TypeOK, KeyringTypeOK, Carries
  <1>2. ASSUME UNCHANGED ring PROVE UnderOwnKey'
    BY <1>1, <1>2 DEF ring, UnderOwnKey
  <1>3. ASSUME SetToken(t) \/ Migrate(t) PROVE UnderOwnKey'
    <2>1. at[t] \in {"set", "migrate"} /\ Put(t) /\ legacy' = legacy
      BY <1>3 DEF SetToken, Migrate
    <2>2. token' = [token EXCEPT ![account[t]] = item[t]] /\ item[t].account = account[t]
          /\ account[t] \in Accounts
      BY <1>1, <2>1 DEF Put, CarriesAt, Writing, Reading
    <2>3. QED
      BY <1>1, <2>1, <2>2 DEF UnderOwnKey
  <1>4. ASSUME RemoveToken(t) PROVE UnderOwnKey'
    BY <1>1, <1>4 DEF RemoveToken, UnderOwnKey
  <1>5. ASSUME SetLegacy(t) PROVE UnderOwnKey'
    <2>1. at[t] = "set legacy" /\ token' = token /\ legacy' = [legacy EXCEPT ![account[t][2]] = item[t]]
      BY <1>5 DEF SetLegacy
    <2>2. account[t] \in Accounts /\ account[t][1] = Default /\ item[t].account = account[t]
      BY <1>1, <2>1 DEF CarriesAt, Writing
    <2>3. item[t].account = <<Default, account[t][2]>>
      BY <2>2, AccountParts
    <2>4. QED
      BY <1>1, <2>1, <2>3 DEF UnderOwnKey
  <1>6. ASSUME RemoveLegacy(t) PROVE UnderOwnKey'
    BY <1>1, <1>6 DEF RemoveLegacy, UnderOwnKey
  <1>7. ASSUME UNCHANGED ring \/ \E step, b, g : Begin(t, step, b, g) PROVE UnderOwnKey'
    BY <1>2, <1>7 DEF Begin
  <1>8. ASSUME Request(t) \/ Command(t) PROVE UnderOwnKey'
    BY <1>7, <1>8 DEF Request, HandleOAuthCallback, Exchange, ExchangeFails, HandleListAccounts, Keys,
       HandleRemoveAccount, Command, NeedsToken, OpenRing, OpenRefused, OpenFails, OpenTimesOut, OpenGivesUp
  <1>9. QED
    BY <1>3, <1>4, <1>5, <1>6, <1>7, <1>8 DEF Acts, KeyringStep, WriteFails, GetToken, GetTokenFails,
       GetLegacy, GetFails, ListNext, ring

------------------------------------------------------------------------------
\* A write that was alone on its account is, or finds out that it is not.
LEMMA AloneStep ==
  ASSUME Inv, NEW t \in Threads, Acts(t), NEW u \in Threads
  PROVE  AloneAt(u)'
  <1>0. /\ at \in [Threads -> Writing \cup Reading \cup {"idle", "exchange", "list", "open"}]
        /\ account \in [Threads -> Accounts \cup {<<>>}] /\ item \in [Threads -> Grant \cup {None}]
        /\ alone \in [Threads -> BOOLEAN] /\ token \in [Accounts -> Grant \cup {None}]
        /\ \A v \in Threads : AloneAt(v) /\ (at[v] \in Writing \cup Reading => account[v] \in Accounts)
    BY DEF Inv, TypeOK, KeyringTypeOK
  <1>1. CASE u # t
    <2> SUFFICES ASSUME alone'[u]
                 PROVE  /\ at'[u] \in Writing
                        /\ \A v \in Threads \ {u} : ~ On(v, account[u])'
                        /\ at'[u] = "set legacy" => token'[account'[u]] = item'[u]
                        /\ at'[u] = "remove legacy" => token'[account'[u]] = None
      BY DEF AloneAt
    <2>1. at'[u] = at[u] /\ account'[u] = account[u] /\ item'[u] = item[u] /\ alone[u]
      BY <1>1, OthersStay DEF Inv
    <2>2. at[u] \in Writing /\ account[u] \in Accounts /\ \A v \in Threads \ {u} : ~ On(v, account[u])
      BY <1>0, <2>1 DEF AloneAt
    <2>3. ~ On(t, account[u])'
      BY <1>1, <2>2, OthersStay DEF Inv
    <2>4. \A v \in Threads \ {u, t} : ~ On(v, account[u])'
      <3>1. \A v \in Threads \ {u, t} : at'[v] = at[v] /\ account'[v] = account[v]
        BY OthersStay DEF Inv
      <3>2. QED
        BY <2>1, <2>2, <3>1 DEF On
    <2>5. token'[account[u]] = token[account[u]]
      BY <1>1, <2>2, Footprint
    <2>6. \A v \in Threads \ {u} : ~ On(v, account[u])'
      BY <2>3, <2>4
    <2>7. QED
      BY <1>0, <2>1, <2>2, <2>5, <2>6 DEF AloneAt
  <1>2. ASSUME at[t] \notin Writing, alone'[t] = alone[t] PROVE AloneAt(t)'
    BY <1>0, <1>2 DEF AloneAt
  <1>3. ASSUME ~ alone'[t] PROVE AloneAt(t)'
    BY <1>3 DEF AloneAt
  <1>4. ASSUME alone'[t], at[t] \in Writing, UNCHANGED <<account, alone>>, at'[t] \in Writing
        PROVE  \A v \in Threads \ {t} : ~ On(v, account[t])'
    <2>1. \A v \in Threads \ {t} : ~ On(v, account[t])
      BY <1>0, <1>4 DEF AloneAt
    <2>2. \A v \in Threads \ {t} : at'[v] = at[v] /\ account'[v] = account[v]
      BY OthersStay DEF Inv
    <2>3. QED
      BY <1>4, <2>1, <2>2 DEF On
  <1>5. ASSUME NEW step \in {"get", "set", "remove"}, NEW a, NEW g, Begin(t, step, a, g)
        PROVE  AloneAt(t)'
    <2>1. at'[t] = step /\ account'[t] = a
          /\ alone'[t] = (step \in Writing /\ \A v \in Threads \ {t} : ~ On(v, a))
      BY <1>0, <1>5 DEF Begin, Goto
    <2>2. \A v \in Threads \ {t} : at'[v] = at[v] /\ account'[v] = account[v]
      BY OthersStay DEF Inv
    <2>3. QED
      BY <2>1, <2>2 DEF AloneAt, On
  <1>6. ASSUME NEW g, NEW ok, EndWrite(t, g, ok) PROVE AloneAt(t)'
    BY <1>0, <1>3, <1>6 DEF EndWrite
  <1>7. ASSUME NEW todo, EndRead(t, todo), at[t] \notin Writing PROVE AloneAt(t)'
    BY <1>2, <1>7 DEF EndRead, observers
  <1>8. ASSUME SetToken(t) PROVE AloneAt(t)'
    <2>1. at[t] = "set" /\ Put(t) /\ account[t] \in Accounts
      BY <1>0, <1>8 DEF SetToken, Writing
    <2>2. CASE IsDefault(t)
      <3>1. at'[t] = "set legacy" /\ UNCHANGED <<account, item, alone>> /\ token'[account[t]] = item[t]
        BY <1>0, <1>8, <2>1, <2>2 DEF SetToken, Goto, Put, observers
      <3>2. QED
        BY <1>4, <2>1, <3>1 DEF AloneAt, Writing
    <2>3. CASE ~ IsDefault(t)
      BY <1>6, <1>8, <2>3 DEF SetToken
    <2>4. QED
      BY <2>2, <2>3
  <1>9. ASSUME RemoveToken(t) PROVE AloneAt(t)'
    <2>1. at[t] = "remove" /\ account[t] \in Accounts
      BY <1>0, <1>9 DEF RemoveToken, Writing
    <2>2. CASE IsDefault(t)
      <3>1. at'[t] = "remove legacy" /\ UNCHANGED <<account, item, alone>> /\ token'[account[t]] = None
        BY <1>0, <1>9, <2>1, <2>2 DEF RemoveToken, Goto, observers
      <3>2. QED
        BY <1>4, <2>1, <3>1 DEF AloneAt, Writing
    <2>3. CASE ~ IsDefault(t)
      BY <1>6, <1>9, <2>3 DEF RemoveToken
    <2>4. QED
      BY <2>2, <2>3
  <1>10. ASSUME GetToken(t) \/ GetTokenFails(t) \/ GetLegacy(t) \/ Migrate(t) \/ GetFails(t) \/ Keys(t)
         PROVE  AloneAt(t)'
    <2>1. at[t] \notin Writing
      BY <1>10 DEF GetToken, GetTokenFails, GetLegacy, Migrate, GetFails, Keys, Writing
    <2>2. alone'[t] = alone[t]
      BY <1>10 DEF GetToken, GetTokenFails, GetLegacy, Migrate, GetFails, Keys, Read, ReadFails,
         EndRead, observers
    <2>3. QED
      BY <1>2, <2>1, <2>2
  <1>11. ASSUME ListNext(t) PROVE AloneAt(t)'
    BY <1>5, <1>11 DEF ListNext
  <1>12. ASSUME Request(t) PROVE AloneAt(t)'
    <2>1. ASSUME NEW e, Exchange(t, e) \/ HandleRemoveAccount(t, e) PROVE AloneAt(t)'
      BY <1>5, <2>1 DEF Exchange, HandleRemoveAccount
    <2>2. ASSUME NEW f, HandleOAuthCallback(t, f) \/ ExchangeFails(t) PROVE AloneAt(t)'
      BY <1>2, <2>2 DEF HandleOAuthCallback, Arrives, ExchangeFails, Answered, observers, Writing
    <2>3. QED
      BY <1>10, <1>12, <2>1, <2>2 DEF Request, HandleListAccounts
  <1>13. ASSUME Command(t) PROVE AloneAt(t)'
    <2>1. ASSUME NEW e, NEW o, NEW v, NeedsToken(t, e, o, v) PROVE AloneAt(t)'
      BY <1>2, <2>1 DEF NeedsToken, observers, Writing
    <2>2. ASSUME OpenGivesUp(t) PROVE AloneAt(t)'
      BY <1>2, <2>2 DEF OpenGivesUp, Opening, observers, Writing
    <2>3. QED
      BY <1>5, <1>13, <2>1, <2>2 DEF Command, OpenRing, OpenRefused, OpenFails, OpenTimesOut
  <1>14. AloneAt(t)'
    BY <1>6, <1>8, <1>9, <1>10, <1>11, <1>12, <1>13 DEF Acts, KeyringStep, SetLegacy, RemoveLegacy, WriteFails
  <1>15. QED
    BY <1>1, <1>14

\* Between writes the keys of an account go on agreeing.
LEMMA SettledStep ==
  ASSUME Inv, NEW t \in Threads, Acts(t), NEW a \in Accounts
  PROVE  SettledAt(a)'
  <1>0. /\ at \in [Threads -> Writing \cup Reading \cup {"idle", "exchange", "list", "open"}]
        /\ account \in [Threads -> Accounts \cup {<<>>}] /\ item \in [Threads -> Grant \cup {None}]
        /\ alone \in [Threads -> BOOLEAN] /\ token \in [Accounts -> Grant \cup {None}]
        /\ legacy \in [Emails -> Grant \cup {None}]
        /\ latest \in [Accounts -> Grant \cup {None}] /\ clean \in [Accounts -> BOOLEAN]
        /\ SettledAt(a) /\ AloneAt(t) /\ CarriesAt(t)
    BY DEF Inv, TypeOK, KeyringTypeOK, Carries
  <1>1. \A v \in Threads \ {t} : at'[v] = at[v] /\ account'[v] = account[v] /\ item'[v] = item[v]
    BY OthersStay DEF Inv
  <1>2. a[1] \in Clients /\ a[2] \in Emails
    BY AccountParts
  \* Nothing about the account changes but that t may leave it.
  <1>3. ASSUME token'[a] = token[a], a[1] = Default => legacy'[a[2]] = legacy[a[2]],
               clean'[a] = clean[a], latest'[a] = latest[a], at'[t] = "migrate" => account'[t] # a,
               at[t] \in Writing => account[t] # a
        PROVE  SettledAt(a)'
    <2>1. Undisturbed(a)' => Undisturbed(a)
      BY <1>1, <1>3 DEF Undisturbed
    <2>2. Stored(a)' = Stored(a)
      BY <1>3 DEF Stored
    <2>3. QED
      BY <1>0, <1>1, <1>3, <2>1, <2>2 DEF SettledAt
  <1>4. CASE ~ On(t, a)
    BY <1>3, <1>4, Footprint DEF On
  <1>5. ASSUME at'[t] \in Writing, account'[t] = a PROVE SettledAt(a)'
    BY <1>5 DEF SettledAt, Undisturbed
  <1> SUFFICES ASSUME On(t, a) PROVE SettledAt(a)'
    BY <1>4
  <1>6. account[t] = a /\ at[t] \in Writing \cup Reading
    BY DEF On
  <1>7. ASSUME NEW g, NEW ok \in BOOLEAN, EndWrite(t, g, ok), at[t] \in Writing,
               ok /\ alone[t] => Stored(a)' = g /\ (a[1] = Default => token'[a] \in {None, legacy'[a[2]]})
        PROVE  SettledAt(a)'
    <2>1. clean'[a] = (ok /\ alone[t]) /\ latest'[a] = (IF ok /\ alone[t] THEN g ELSE None) /\ at'[t] = "idle"
      BY <1>0, <1>6, <1>7 DEF EndWrite, Goto
    <2>2. ASSUME alone[t] PROVE \A v \in Threads : ~ (at'[v] = "migrate" /\ account'[v] = a)
      BY <1>0, <1>1, <1>6, <2>1, <2>2 DEF AloneAt, On, Reading
    <2>3. QED
      BY <1>7, <2>1, <2>2 DEF SettledAt, Undisturbed
  <1>8. ASSUME NEW todo, EndRead(t, todo), UNCHANGED ring, at[t] \in Reading PROVE SettledAt(a)'
    <2>1. at'[t] \in {"idle", "list"} /\ UNCHANGED <<clean, latest, token, legacy>>
      BY <1>0, <1>8 DEF EndRead, Goto, observers, ring
    <2>2. QED
      BY <1>3, <1>8, <2>1 DEF Reading, Writing
  <1>9. CASE SetToken(t)
    <2>1. at[t] = "set" /\ token' = [token EXCEPT ![a] = item[t]] /\ legacy' = legacy
      BY <1>6, <1>9 DEF SetToken, Put
    <2>2. CASE IsDefault(t)
      BY <1>0, <1>5, <1>6, <1>9, <2>2 DEF SetToken, Goto, Writing
    <2>3. CASE ~ IsDefault(t)
      <3>1. Stored(a)' = item[t] /\ a[1] # Default
        BY <1>0, <1>6, <2>1, <2>3 DEF Stored, IsDefault
      <3>2. QED
        BY <1>7, <1>9, <2>1, <2>3, <3>1 DEF SetToken, Writing
    <2>4. QED
      BY <2>2, <2>3
  <1>10. CASE RemoveToken(t)
    <2>1. at[t] = "remove" /\ token' = [token EXCEPT ![a] = None] /\ legacy' = legacy
      BY <1>6, <1>10 DEF RemoveToken
    <2>2. CASE IsDefault(t)
      BY <1>0, <1>5, <1>6, <1>10, <2>2 DEF RemoveToken, Goto, Writing
    <2>3. CASE ~ IsDefault(t)
      <3>1. Stored(a)' = None /\ a[1] # Default
        BY <1>0, <1>6, <2>1, <2>3 DEF Stored, IsDefault
      <3>2. QED
        BY <1>7, <1>10, <2>1, <2>3, <3>1 DEF RemoveToken, Writing
    <2>4. QED
      BY <2>2, <2>3
  <1>11. CASE SetLegacy(t)
    <2>1. /\ at[t] = "set legacy" /\ token' = token /\ EndWrite(t, item[t], TRUE)
          /\ legacy'[a[2]] = item[t] /\ item[t] # None
      BY <1>0, <1>2, <1>6, <1>11 DEF SetLegacy, CarriesAt
    <2>2. alone[t] => token[a] = item[t]
      BY <1>0, <1>6, <2>1 DEF AloneAt
    <2>3. QED
      BY <1>7, <2>1, <2>2 DEF Stored, Writing
  <1>12. CASE RemoveLegacy(t)
    <2>1. /\ at[t] = "remove legacy" /\ token' = token /\ EndWrite(t, None, TRUE)
          /\ legacy'[a[2]] = None
      BY <1>0, <1>2, <1>6, <1>12 DEF RemoveLegacy
    <2>2. alone[t] => token[a] = None
      BY <1>0, <1>6, <2>1 DEF AloneAt
    <2>3. QED
      BY <1>7, <2>1, <2>2 DEF Stored, Writing
  <1>13. CASE WriteFails(t)
    BY <1>7, <1>13 DEF WriteFails
  <1>14. CASE GetToken(t) \/ GetFails(t)
    BY <1>8, <1>14 DEF GetToken, GetFails, Read, ReadFails, Reading
  <1>15. CASE GetTokenFails(t)
    <2>1. CASE IsDefault(t)
      <3>1. at[t] = "get" /\ at'[t] = "get legacy" /\ UNCHANGED <<clean, latest, token, legacy>>
        BY <1>0, <1>15, <2>1 DEF GetTokenFails, Goto, observers, ring
      <3>2. QED
        BY <1>3, <3>1 DEF Writing
    <2>2. CASE ~ IsDefault(t)
      BY <1>8, <1>15, <2>2 DEF GetTokenFails, ReadFails, Reading
    <2>3. QED
      BY <2>1, <2>2
  <1>16. CASE GetLegacy(t)
    <2>1. CASE legacy[account[t][2]] = None
      BY <1>8, <1>16, <2>1 DEF GetLegacy, ReadFails, ring, Reading
    <2>2. CASE legacy[account[t][2]] # None
      <3>1. /\ at[t] = "get legacy" /\ at'[t] = "migrate" /\ item'[t] = legacy[a[2]]
            /\ UNCHANGED <<account, clean, latest, token, legacy>> /\ a[1] = Default
        BY <1>0, <1>6, <1>16, <2>2 DEF GetLegacy, Goto, observers, ring, CarriesAt
      <3>2. Undisturbed(a)' => Undisturbed(a)
        BY <1>1, <3>1 DEF Undisturbed, Writing
      <3>3. Stored(a)' = Stored(a)
        BY <3>1 DEF Stored
      <3>4. Undisturbed(a) => Stored(a) = legacy[a[2]]
        BY <1>0, <1>6, <2>2, <3>1 DEF SettledAt, Stored
      <3>5. QED
        BY <1>0, <1>1, <3>1, <3>2, <3>3, <3>4 DEF SettledAt
    <2>3. QED
      BY <2>1, <2>2
  <1>17. CASE Migrate(t)
    <2>1. /\ at[t] = "migrate" /\ at'[t] \in {"idle", "list"} /\ token'[a] = item[t]
          /\ UNCHANGED <<clean, latest, legacy>> /\ a[1] = Default /\ item[t] # None
      BY <1>0, <1>6, <1>17 DEF Migrate, Read, EndRead, Goto, Put, observers, CarriesAt
    <2>2. Undisturbed(a)' => Undisturbed(a)
      BY <1>1, <2>1 DEF Undisturbed, Writing
    <2>3. Undisturbed(a) => item[t] = Stored(a)
      BY <1>0, <1>6, <2>1 DEF SettledAt
    <2>4. Undisturbed(a) => Stored(a)' = Stored(a)
      BY <2>1, <2>3 DEF Stored
    <2>5. Undisturbed(a) => token'[a] = legacy[a[2]]
      BY <1>0, <2>1, <2>3 DEF SettledAt, Stored
    <2>6. QED
      BY <1>0, <1>1, <2>1, <2>2, <2>4, <2>5 DEF SettledAt
  <1>18. at[t] \notin {"idle", "exchange", "list", "open"}
    BY <1>6 DEF Writing, Reading
  <1>19. KeyringStep(t) /\ ~ ListNext(t)
    BY <1>18 DEF Acts, Request, Arrives, Answered, HandleOAuthCallback, Exchange, ExchangeFails,
       HandleListAccounts, HandleRemoveAccount, Command, NeedsToken, Opening, OpenRing, OpenGivesUp,
       OpenRefused, OpenFails, OpenTimesOut, ListNext
  <1>20. QED
    BY <1>9, <1>10, <1>11, <1>12, <1>13, <1>14, <1>15, <1>16, <1>17, <1>19 DEF KeyringStep

------------------------------------------------------------------------------
\* The types of the keyring, and of what its threads hold.
RingTypeOK ==
  /\ token \in [Accounts -> Grant \cup {None}] /\ legacy \in [Emails -> Grant \cup {None}]
  /\ latest \in [Accounts -> Grant \cup {None}] /\ clean \in [Accounts -> BOOLEAN]
  /\ faults \in 0 .. MaxFaults

ThreadsTypeOK ==
  /\ at \in [Threads -> Writing \cup Reading \cup {"idle", "exchange", "list", "open"}]
  /\ account \in [Threads -> Accounts \cup {<<>>}]
  /\ \A t \in Threads : at[t] \in Writing \cup Reading \cup {"open"} => account[t] \in Accounts
  /\ item \in [Threads -> Grant \cup {None}]
  /\ unread \in [Threads -> SUBSET Accounts]
  /\ alone \in [Threads -> BOOLEAN]

ServerTypeOK ==
  /\ serving \in Clients \cup {""}
  /\ \A t \in Requests : at[t] # "idle" => serving # ""
  /\ flows \in 0 .. MaxFlows
  /\ oauthState \in 0 .. flows
  /\ flow \in [Requests -> 0 .. flows]
  /\ spent \subseteq 1 .. flows
  /\ env \in [Commands -> Environments \cup {Anywhere}]

LEMMA TypeGroups ==
  /\ RingTypeOK /\ ThreadsTypeOK /\ ServerTypeOK => TypeOK
  /\ TypeOK /\ Opens => RingTypeOK /\ ThreadsTypeOK /\ ServerTypeOK
  BY AccountsAssumption DEF TypeOK, KeyringTypeOK, RingTypeOK, ThreadsTypeOK, ServerTypeOK, Opens

\* The numbers of sign-ins.
LEMMA FlowNumbers ==
  ASSUME flows \in 0 .. MaxFlows
  PROVE  /\ flows \in Nat /\ 0 \in 0 .. flows
         /\ \A f \in 0 .. flows : f \in Nat /\ (f # 0 => f \in 1 .. flows)
         /\ \A f \in 1 .. flows : f # 0 /\ f \in 0 .. flows
         /\ flows < MaxFlows =>
              /\ flows + 1 \in 0 .. MaxFlows /\ flows + 1 \in 0 .. (flows + 1)
              /\ 0 .. flows \subseteq 0 .. (flows + 1) /\ 1 .. flows \subseteq 1 .. (flows + 1)
  <1>1. MaxFlows \in Nat
    BY AccountsAssumption
  <1>2. QED
    BY <1>1

\* One more fault is within the bound.
LEMMA FaultType ==
  ASSUME RingTypeOK, Fault
  PROVE  faults' \in 0 .. MaxFaults
  BY KeyringAssumption DEF RingTypeOK, Fault

\* Every thread keeps the types of the keyring.
LEMMA RingTypeStep ==
  ASSUME RingTypeOK, ThreadsTypeOK, NEW t \in Threads, Acts(t)
  PROVE  RingTypeOK'
  <1>1. ASSUME UNCHANGED <<ring, latest, clean>>, faults' = faults \/ Fault PROVE RingTypeOK'
    BY <1>1, FaultType DEF RingTypeOK, ring
  <1>2. ASSUME NEW step, NEW a, NEW g, Begin(t, step, a, g) PROVE RingTypeOK'
    BY <1>1, <1>2 DEF Begin
  <1>3. /\ at[t] \in Writing \cup Reading => account[t] \in Accounts /\ account[t][2] \in Emails
        /\ item[t] \in Grant \cup {None}
    BY AccountParts DEF ThreadsTypeOK
  <1>4. ASSUME NEW g \in Grant \cup {None}, NEW ok \in BOOLEAN, EndWrite(t, g, ok), at[t] \in Writing
        PROVE  latest' \in [Accounts -> Grant \cup {None}] /\ clean' \in [Accounts -> BOOLEAN]
    BY <1>3, <1>4 DEF EndWrite, RingTypeOK, ThreadsTypeOK
  <1>5. ASSUME token' \in [Accounts -> Grant \cup {None}], legacy' \in [Emails -> Grant \cup {None}],
               at[t] \in Writing, faults' = faults,
               \/ UNCHANGED observers
               \/ \E g \in Grant \cup {None}, ok \in BOOLEAN : EndWrite(t, g, ok)
        PROVE  RingTypeOK'
    BY <1>4, <1>5 DEF RingTypeOK, observers
  <1>6. ASSUME SetToken(t) \/ RemoveToken(t) PROVE RingTypeOK'
    <2>1. at[t] \in Writing /\ legacy' = legacy /\ faults' = faults
      BY <1>6 DEF SetToken, RemoveToken, Writing
    <2>2. token' \in [Accounts -> Grant \cup {None}]
      BY <1>3, <1>6, <2>1 DEF SetToken, RemoveToken, Put, RingTypeOK
    <2>3. UNCHANGED observers \/ \E g \in Grant \cup {None}, ok \in BOOLEAN : EndWrite(t, g, ok)
      BY <1>3, <1>6 DEF SetToken, RemoveToken
    <2>4. QED
      BY <1>5, <2>1, <2>2, <2>3 DEF RingTypeOK
  <1>7. ASSUME SetLegacy(t) \/ RemoveLegacy(t) PROVE RingTypeOK'
    <2>1. at[t] \in Writing /\ token' = token /\ faults' = faults
      BY <1>7 DEF SetLegacy, RemoveLegacy, Writing
    <2>2. legacy' \in [Emails -> Grant \cup {None}]
      BY <1>3, <1>7, <2>1 DEF SetLegacy, RemoveLegacy, RingTypeOK
    <2>3. \E g \in Grant \cup {None}, ok \in BOOLEAN : EndWrite(t, g, ok)
      BY <1>3, <1>7 DEF SetLegacy, RemoveLegacy
    <2>4. QED
      BY <1>5, <2>1, <2>2, <2>3 DEF RingTypeOK
  <1>8. ASSUME WriteFails(t) PROVE RingTypeOK'
    <2>1. latest' \in [Accounts -> Grant \cup {None}] /\ clean' \in [Accounts -> BOOLEAN]
      BY <1>3, <1>4, <1>8 DEF WriteFails
    <2>2. QED
      BY <1>8, <2>1, FaultType DEF WriteFails, RingTypeOK, ring
  <1>9. ASSUME GetToken(t) \/ GetTokenFails(t) \/ GetLegacy(t) \/ GetFails(t) \/ Keys(t) PROVE RingTypeOK'
    <2>1. UNCHANGED <<ring, latest, clean>> /\ (faults' = faults \/ Fault)
      BY <1>9 DEF GetToken, GetTokenFails, GetLegacy, GetFails, Keys, Read, ReadFails, EndRead, observers
    <2>2. QED
      BY <1>1, <2>1
  <1>10. ASSUME Migrate(t) PROVE RingTypeOK'
    <2>1. at[t] = "migrate" /\ Put(t) /\ UNCHANGED <<legacy, faults, observers>>
      BY <1>10 DEF Migrate, Read, EndRead
    <2>2. QED
      BY <1>3, <2>1 DEF Put, observers, RingTypeOK, Reading
  <1>11. ASSUME ListNext(t) PROVE RingTypeOK'
    BY <1>2, <1>11 DEF ListNext
  <1>12. ASSUME Request(t) \/ Command(t) PROVE RingTypeOK'
    BY <1>1, <1>2, <1>9, <1>12 DEF Request, HandleOAuthCallback, Exchange, ExchangeFails,
       HandleListAccounts, HandleRemoveAccount, Command, NeedsToken, OpenRing, OpenRefused,
       OpenFails, OpenTimesOut, OpenGivesUp, observers
  <1>13. QED
    BY <1>6, <1>7, <1>8, <1>9, <1>10, <1>11, <1>12 DEF Acts, KeyringStep

\* And of what it holds itself.
LEMMA ThreadsTypeStep ==
  ASSUME RingTypeOK, ThreadsTypeOK, ServerTypeOK, NEW t \in Threads, Acts(t)
  PROVE  ThreadsTypeOK'
  <1> USE DEF ThreadsTypeOK, Goto, Writing, Reading
  <1>1. ASSUME NEW step \in {"set", "remove", "get"}, NEW a \in Accounts, NEW g \in Grant \cup {None},
               Begin(t, step, a, g), unread' \in [Threads -> SUBSET Accounts]
        PROVE  ThreadsTypeOK'
    <2>1. alone' \in [Threads -> BOOLEAN]
      BY <1>1 DEF Begin, On
    <2>2. QED
      BY <1>1, <2>1 DEF Begin
  <1>2. ASSUME NEW g, NEW ok, EndWrite(t, g, ok) PROVE ThreadsTypeOK'
    BY <1>2 DEF EndWrite
  <1>3. ASSUME NEW todo \in SUBSET Accounts, EndRead(t, todo) PROVE ThreadsTypeOK'
    BY <1>3 DEF EndRead, observers
  <1>4. ASSUME NEW step \in {"set legacy", "remove legacy", "get legacy", "migrate"}, Goto(t, step),
               at[t] \in Writing \cup Reading, UNCHANGED <<account, unread, alone>>,
               item' \in [Threads -> Grant \cup {None}]
        PROVE  ThreadsTypeOK'
    BY <1>4
  <1> HIDE DEF Goto, ThreadsTypeOK
  <1>5. ASSUME SetToken(t) \/ RemoveToken(t) PROVE ThreadsTypeOK'
    BY <1>2, <1>4, <1>5 DEF SetToken, RemoveToken, observers, ThreadsTypeOK
  <1>6. ASSUME SetLegacy(t) \/ RemoveLegacy(t) \/ WriteFails(t) PROVE ThreadsTypeOK'
    BY <1>2, <1>6 DEF SetLegacy, RemoveLegacy, WriteFails
  <1>7. ASSUME GetToken(t) \/ GetFails(t) \/ Migrate(t) PROVE ThreadsTypeOK'
    BY <1>3, <1>7 DEF GetToken, GetFails, Migrate, Read, ReadFails, ThreadsTypeOK
  <1>8. ASSUME GetTokenFails(t) PROVE ThreadsTypeOK'
    BY <1>3, <1>4, <1>8 DEF GetTokenFails, ReadFails, observers, ThreadsTypeOK
  <1>9. ASSUME GetLegacy(t) PROVE ThreadsTypeOK'
    <2>1. CASE legacy[account[t][2]] = None
      BY <1>3, <1>9, <2>1 DEF GetLegacy, ReadFails
    <2>2. CASE legacy[account[t][2]] # None
      <3>1. account[t] \in Accounts /\ at[t] = "get legacy"
        BY <1>9 DEF GetLegacy, ThreadsTypeOK
      <3>2. legacy[account[t][2]] \in Grant \cup {None}
        BY <3>1, AccountParts DEF RingTypeOK
      <3>3. item' \in [Threads -> Grant \cup {None}]
        BY <1>9, <2>2, <3>2 DEF GetLegacy, ThreadsTypeOK
      <3>4. QED
        BY <1>4, <1>9, <2>2, <3>1, <3>3 DEF GetLegacy, observers
    <2>3. QED
      BY <2>1, <2>2
  <1>10. ASSUME ListNext(t) PROVE ThreadsTypeOK'
    <2>1. PICK a \in unread[t] : Begin(t, "get", a, None) /\ unread' = [unread EXCEPT ![t] = @ \ {a}]
      BY <1>10 DEF ListNext
    <2>2. unread' \in [Threads -> SUBSET Accounts] /\ a \in Accounts
      BY <2>1 DEF ThreadsTypeOK
    <2>3. QED
      BY <1>1, <2>1, <2>2
  <1>11. ASSUME Keys(t) PROVE ThreadsTypeOK'
    <2>1. \E known \in SUBSET Accounts : EndRead(t, known)
      BY <1>11 DEF Keys
    <2>2. QED
      BY <1>3, <2>1
  <1>12. ASSUME t \in Requests, Request(t) PROVE ThreadsTypeOK'
    <2>1. serving # "" \/ at[t] = "idle"
      BY <1>12 DEF ServerTypeOK
    <2>2. ASSUME NEW f, HandleOAuthCallback(t, f) \/ ExchangeFails(t) PROVE ThreadsTypeOK'
      BY <2>2 DEF HandleOAuthCallback, ExchangeFails, Answered, observers, ThreadsTypeOK, Goto
    <2>3. ASSUME NEW e \in Emails, Exchange(t, e) PROVE ThreadsTypeOK'
      <3>1. <<serving, e>> \in Accounts
        BY <2>1, <2>3 DEF Exchange, Answered, Accounts, ServerTypeOK
      <3>2. [account |-> <<serving, e>>, number |-> flow[t]] \in Grant
        <4>1. flow[t] \in Nat
          BY <1>12, FlowNumbers DEF ServerTypeOK
        <4>2. QED
          BY <3>1, <4>1 DEF Grant
      <3>3. QED
        BY <1>1, <2>3, <3>1, <3>2 DEF Exchange, Answered, ThreadsTypeOK
    <2>4. ASSUME NEW e \in Emails, HandleRemoveAccount(t, e) PROVE ThreadsTypeOK'
      <3>1. <<serving, e>> \in Accounts
        BY <2>4 DEF HandleRemoveAccount, Arrives, Accounts, ServerTypeOK
      <3>2. QED
        BY <1>1, <2>4, <3>1 DEF HandleRemoveAccount, ThreadsTypeOK
    <2>5. QED
      BY <1>11, <1>12, <2>2, <2>3, <2>4 DEF Request, HandleListAccounts
  <1>13. ASSUME Command(t) PROVE ThreadsTypeOK'
    <2>1. ASSUME NEW e \in Emails, NEW o \in Overrides, NEW v, NeedsToken(t, e, o, v) PROVE ThreadsTypeOK'
      <3>1. <<ResolveClient(e, o), e>> \in Accounts
        BY AccountsAssumption, KeyringAssumption DEF ResolveClient, Accounts
      <3>2. QED
        BY <2>1, <3>1 DEF NeedsToken, observers, ThreadsTypeOK, Goto
    <2>2. ASSUME OpenRing(t) PROVE ThreadsTypeOK'
      <3>1. account[t] \in Accounts
        BY <2>2 DEF OpenRing, Opening, ThreadsTypeOK
      <3>2. QED
        BY <1>1, <2>2, <3>1 DEF OpenRing, Opening, ThreadsTypeOK
    <2>3. ASSUME OpenGivesUp(t) PROVE ThreadsTypeOK'
      BY <2>3 DEF OpenGivesUp, Opening, observers, ThreadsTypeOK, Goto
    <2>4. QED
      BY <1>13, <2>1, <2>2, <2>3 DEF Command, OpenRefused, OpenFails, OpenTimesOut
  <1>14. QED
    BY <1>5, <1>6, <1>7, <1>8, <1>9, <1>10, <1>12, <1>13 DEF Acts, KeyringStep

\* What the server and the commands know keeps its type.
LEMMA ServerStep ==
  ASSUME Inv, NEW t \in Threads, Acts(t)
  PROVE  ServerTypeOK' /\ Opens'
  <1>0. ServerTypeOK /\ ThreadsTypeOK /\ Opens /\ MaxFlows \in Nat
    BY TypeGroups, AccountsAssumption DEF Inv
  <1>1. \A u \in Threads \ {t} : at'[u] = at[u]
    BY OthersStay DEF Inv
  <1>2. Requests \subseteq Threads /\ Commands \subseteq Threads /\ Requests \cap Commands = {}
    BY AccountsAssumption
  <1> USE <1>0, <1>2 DEF ServerTypeOK, Opens
  <1>3. ASSUME UNCHANGED <<server, env>>, at'[t] \notin {"exchange", "open"},
               t \in Requests => at[t] # "idle" \/ serving # ""
        PROVE  ServerTypeOK' /\ Opens'
    <2>1. UNCHANGED <<serving, flows, oauthState, flow, spent, env>>
      BY <1>3 DEF server
    <2>2. \A u \in Requests : u # t => at'[u] = at[u]
      BY <1>1
    <2>3. QED
      BY <1>3, <2>1, <2>2
  <1>4. ASSUME KeyringStep(t), UNCHANGED <<server, env>>
        PROVE  ServerTypeOK' /\ Opens'
    <2>1. at[t] \in Writing \cup Reading \cup {"list"}
      BY <1>4 DEF KeyringStep, SetToken, SetLegacy, RemoveToken, RemoveLegacy, WriteFails, GetToken,
         GetTokenFails, GetLegacy, Migrate, GetFails, ListNext, Writing, Reading
    <2>2. at'[t] \notin {"exchange", "open"}
      BY <1>4 DEF KeyringStep, SetToken, SetLegacy, RemoveToken, RemoveLegacy, WriteFails, GetToken,
         GetTokenFails, GetLegacy, Migrate, GetFails, ListNext, Read, ReadFails, EndRead, EndWrite,
         Begin, Goto, ThreadsTypeOK
    <2>3. at[t] # "idle"
      BY <2>1 DEF Writing, Reading
    <2>4. QED
      BY <1>3, <1>4, <2>2, <2>3
  <1>5. ASSUME t \in Requests, Request(t) PROVE ServerTypeOK' /\ Opens'
    <2>1. ASSUME NEW f \in 0 .. flows, HandleOAuthCallback(t, f)
          PROVE  ServerTypeOK' /\ Opens'
      <3>1. serving # "" /\ at' = [at EXCEPT ![t] = "exchange"] /\ flow' = [flow EXCEPT ![t] = f]
            /\ UNCHANGED <<serving, flows, oauthState, spent, env>>
        BY <2>1 DEF HandleOAuthCallback, Arrives, Goto
      <3>2. QED
        BY <2>1, <3>1 DEF ThreadsTypeOK
    <2>2. ASSUME Answered(t), spent' = spent \/ spent' = spent \cup ({flow[t]} \ {0}),
                 at'[t] \notin {"exchange", "open"}
          PROVE  ServerTypeOK' /\ Opens'
      <3>1. at[t] = "exchange" /\ flow' = [flow EXCEPT ![t] = 0]
            /\ UNCHANGED <<serving, flows, oauthState, env>>
        BY <2>2 DEF Answered
      <3>2. {flow[t]} \ {0} \subseteq 1 .. flows
        BY <1>5, FlowNumbers
      <3>3. 0 \in 0 .. flows
        BY FlowNumbers
      <3>4. \A u \in Requests : u # t => at'[u] = at[u]
        BY <1>1
      <3>5. QED
        BY <1>5, <2>2, <3>1, <3>2, <3>3, <3>4
    <2>3. ASSUME NEW e, Exchange(t, e) PROVE ServerTypeOK' /\ Opens'
      <3>1. at'[t] = "set" /\ Answered(t) /\ spent' = spent \cup ({flow[t]} \ {0})
        BY <2>3 DEF Exchange, Begin, Goto, ThreadsTypeOK
      <3>2. QED
        BY <2>2, <3>1
    <2>4. ASSUME ExchangeFails(t) PROVE ServerTypeOK' /\ Opens'
      <3>1. at'[t] = "idle" /\ Answered(t)
            /\ spent' \in {spent, spent \cup ({flow[t]} \ {0})}
        BY <2>4 DEF ExchangeFails, Goto, ThreadsTypeOK
      <3>2. QED
        BY <2>2, <3>1
    <2>5. ASSUME NEW e, HandleListAccounts(t) \/ HandleRemoveAccount(t, e)
          PROVE  ServerTypeOK' /\ Opens'
      <3>1. serving # "" /\ UNCHANGED <<server, env>> /\ at'[t] \in {"idle", "list", "remove"}
        BY <2>5 DEF HandleListAccounts, HandleRemoveAccount, Arrives, Keys, EndRead, Begin, Goto,
           ThreadsTypeOK
      <3>2. QED
        BY <1>3, <3>1
    <2>6. QED
      BY <1>5, <2>1, <2>3, <2>4, <2>5 DEF Request
  <1>6. ASSUME t \in Commands, Command(t) PROVE ServerTypeOK' /\ Opens'
    <2>1. UNCHANGED <<serving, flows, oauthState, flow, spent>>
      BY <1>6 DEF Command, NeedsToken, OpenRing, OpenRefused, OpenFails, OpenTimesOut, OpenGivesUp, Opening, server
    <2>2. env' \in [Commands -> Environments \cup {Anywhere}]
      BY <1>6 DEF Command, NeedsToken, OpenRing, OpenRefused, OpenFails, OpenTimesOut, OpenGivesUp, Opening
    <2>3. \A u \in Requests : at'[u] = at[u]
      BY <1>1, <1>6
    <2>4. QED
      BY <2>1, <2>2, <2>3
  <1>7. QED
    BY <1>4, <1>5, <1>6 DEF Acts

------------------------------------------------------------------------------
\* The manager starts, or a sign-in does: no thread is at anything new.
LEMMA StartStep ==
  ASSUME Inv, UNCHANGED <<keyringVars, flow, spent, env>>,
         \/ /\ serving = "" /\ serving' \in Clients /\ UNCHANGED <<flows, oauthState>>
         \/ /\ UNCHANGED serving /\ flows < MaxFlows
            /\ flows' = flows + 1 /\ oauthState' = flows + 1
  PROVE  Inv'
  <1>1. /\ ServerTypeOK /\ ThreadsTypeOK /\ RingTypeOK /\ Opens /\ MaxFlows \in Nat
        /\ Commands \subseteq Threads
    BY TypeGroups, AccountsAssumption DEF Inv
  <1>2. UNCHANGED <<token, legacy, at, account, item, unread, faults, alone, clean, latest>>
    BY DEF keyringVars, ring, threads, observers
  <1>3. ThreadsTypeOK' /\ RingTypeOK' /\ Opens'
    BY <1>1, <1>2 DEF ThreadsTypeOK, RingTypeOK, Opens
  <1>4. ServerTypeOK'
    <2>1. CASE serving = "" /\ serving' \in Clients /\ UNCHANGED <<flows, oauthState>>
      <3>1. \A t \in Requests : at'[t] = "idle"
        BY <1>1, <1>2, <2>1 DEF ServerTypeOK
      <3>2. QED
        BY <1>1, <2>1, <3>1 DEF ServerTypeOK
    <2>2. CASE /\ UNCHANGED serving /\ flows < MaxFlows
               /\ flows' = flows + 1 /\ oauthState' = flows + 1
      <3>1. /\ flows + 1 \in 0 .. MaxFlows /\ flows + 1 \in 0 .. (flows + 1)
            /\ 0 .. flows \subseteq 0 .. (flows + 1) /\ 1 .. flows \subseteq 1 .. (flows + 1)
        BY <1>1, <2>2, FlowNumbers DEF ServerTypeOK
      <3>2. QED
        BY <1>1, <1>2, <2>2, <3>1 DEF ServerTypeOK
    <2>3. QED
      BY <2>1, <2>2
  <1>5. UnderOwnKey' /\ Carries' /\ \A t \in Threads : AloneAt(t)'
    BY <1>2 DEF Inv, UnderOwnKey, Carries, CarriesAt, AloneAt, On
  <1>6. \A a \in Accounts : SettledAt(a)'
    BY <1>2 DEF Inv, SettledAt, Undisturbed, Stored
  <1>7. TypeOK'
    BY <1>1, <1>3, <1>4 DEF TypeOK, KeyringTypeOK, RingTypeOK, ThreadsTypeOK, ServerTypeOK
  <1>8. QED
    BY <1>3, <1>5, <1>6, <1>7 DEF Inv

\* The manager stops: its requests are gone, and the writes they were at are cut.
LEMMA StopStep ==
  ASSUME Inv, StopManageServer
  PROVE  Inv'
  <1>1. /\ ServerTypeOK /\ ThreadsTypeOK /\ RingTypeOK
        /\ Requests \subseteq Threads /\ Commands \subseteq Threads
    BY TypeGroups, AccountsAssumption DEF Inv
  <1>2. /\ \A t \in Threads \cap Requests :
             at'[t] = "idle" /\ account'[t] = <<>> /\ item'[t] = None /\ unread'[t] = {} /\ ~ alone'[t]
        /\ \A t \in Threads \ Requests :
             /\ at'[t] = at[t] /\ account'[t] = account[t] /\ item'[t] = item[t]
             /\ unread'[t] = unread[t] /\ alone'[t] = alone[t]
    BY <1>1 DEF StopManageServer, ThreadsTypeOK
  <1>3. UNCHANGED <<token, legacy, faults, flows, spent, env>> /\ serving' = "" /\ oauthState' = 0
        /\ flow' = [t \in Requests |-> 0]
    BY DEF StopManageServer, ring
  <1>4. /\ at' \in [Threads -> Writing \cup Reading \cup {"idle", "exchange", "list", "open"}]
        /\ account' \in [Threads -> Accounts \cup {<<>>}] /\ item' \in [Threads -> Grant \cup {None}]
        /\ unread' \in [Threads -> SUBSET Accounts] /\ alone' \in [Threads -> BOOLEAN]
    BY <1>1 DEF StopManageServer, ThreadsTypeOK
  <1>5. \A a \in Accounts :
          \/ clean'[a] = clean[a] /\ latest'[a] = latest[a]
             /\ \A t \in Requests : at[t] \in Writing => account[t] # a
          \/ clean'[a] = FALSE
    BY <1>1 DEF StopManageServer, RingTypeOK
  <1>6. ThreadsTypeOK'
    BY <1>1, <1>2, <1>4 DEF ThreadsTypeOK, Writing, Reading
  <1>7. RingTypeOK'
    BY <1>1, <1>3 DEF StopManageServer, RingTypeOK
  <1>8. ServerTypeOK'
    <2>1. \A t \in Requests : at'[t] = "idle"
      BY <1>1, <1>2
    <2>2. QED
      BY <1>1, <1>3, <2>1, FlowNumbers DEF ServerTypeOK
  <1>9. Opens'
    BY <1>1, <1>2 DEF Opens
  <1>10. UnderOwnKey'
    BY <1>3 DEF Inv, UnderOwnKey
  <1>11. Carries'
    BY <1>2 DEF Inv, Carries, CarriesAt
  <1>12. ASSUME NEW t \in Threads PROVE AloneAt(t)'
    <2>1. CASE t \in Requests
      BY <1>2, <2>1 DEF AloneAt
    <2>2. CASE t \notin Requests
      <3>1. \A u \in Threads : On(u, account[t])' => On(u, account[t])
        BY <1>2, <2>2 DEF On, Writing, Reading
      <3>2. QED
        BY <1>2, <1>3, <2>2, <3>1 DEF Inv, AloneAt
    <2>3. QED
      BY <2>1, <2>2
  <1>13. ASSUME NEW a \in Accounts PROVE SettledAt(a)'
    <2> SUFFICES ASSUME Undisturbed(a)' PROVE SettledAt(a)'
      BY DEF SettledAt
    <2>1. clean[a] /\ latest'[a] = latest[a] /\ Undisturbed(a)
      BY <1>2, <1>5 DEF Undisturbed
    <2>2. Stored(a)' = Stored(a)
      BY <1>3 DEF Stored
    <2>3. \A t \in Threads : at'[t] = "migrate" =>
            at[t] = "migrate" /\ account'[t] = account[t] /\ item'[t] = item[t]
      BY <1>2
    <2>4. SettledAt(a)
      BY DEF Inv
    <2>5. QED
      BY <1>3, <2>1, <2>2, <2>3, <2>4 DEF SettledAt
  <1>14. TypeOK'
    BY <1>1, <1>6, <1>7, <1>8 DEF TypeOK, KeyringTypeOK, RingTypeOK, ThreadsTypeOK, ServerTypeOK
  <1>15. QED
    BY <1>9, <1>10, <1>11, <1>12, <1>13, <1>14 DEF Inv

------------------------------------------------------------------------------
\* The inductive invariant of Accounts: the types, tokens under their own keys,
\* and the keys of an account in agreement between its writes.
THEOREM AccountsInvariance == Spec => []Inv
  <1>1. Init => Inv
    <2> SUFFICES ASSUME Init PROVE Inv
      OBVIOUS
    <2>0. 0 \in 0 .. MaxFaults /\ 0 \in 0 .. MaxFlows /\ 0 \in 0 .. 0
      <3>1. MaxFaults \in Nat /\ MaxFlows \in Nat
        BY KeyringAssumption, AccountsAssumption
      <3>2. QED
        BY <3>1
    <2> USE DEF Init, KeyringInit
    <2>1. Default \in Clients /\ Commands \subseteq Threads /\ Requests \subseteq Threads
      BY KeyringAssumption, AccountsAssumption
    <2>2. PICK old \in SUBSET Emails : legacy = [e \in Emails |-> IF e \in old THEN Old(e) ELSE None]
      OBVIOUS
    <2>3. \A e \in Emails : Old(e) \in Grant /\ Old(e).account = <<Default, e>>
      BY <2>1 DEF Old, Grant, Accounts
    <2>4. legacy \in [Emails -> Grant \cup {None}]
      BY <2>2, <2>3
    <2>5. latest \in [Accounts -> Grant \cup {None}]
      BY <2>4, AccountParts
    <2>6. RingTypeOK
      BY <2>0, <2>4, <2>5 DEF RingTypeOK
    <2>7. ThreadsTypeOK
      BY DEF ThreadsTypeOK, Writing, Reading
    <2>8. ServerTypeOK
      BY <2>0, <2>1 DEF ServerTypeOK
    <2>9. TypeOK
      BY <2>6, <2>7, <2>8, TypeGroups
    <2>10. Opens /\ Carries /\ \A t \in Threads : AloneAt(t)
      BY AccountsAssumption DEF Opens, Carries, CarriesAt, AloneAt
    <2>11. UnderOwnKey
      BY <2>2, <2>3 DEF UnderOwnKey
    <2>12. \A a \in Accounts : SettledAt(a)
      BY DEF SettledAt, Stored
    <2>13. QED
      BY <2>9, <2>10, <2>11, <2>12 DEF Inv
  <1>2. Inv /\ [Next]_vars => Inv'
    <2> SUFFICES ASSUME Inv, [Next]_vars PROVE Inv'
      OBVIOUS
    <2>1. ASSUME NEW t \in Threads, Acts(t) PROVE Inv'
      <3>1. RingTypeOK /\ ThreadsTypeOK /\ ServerTypeOK
        BY TypeGroups DEF Inv
      <3>2. RingTypeOK' /\ ThreadsTypeOK' /\ ServerTypeOK' /\ Opens'
        BY <2>1, <3>1, RingTypeStep, ThreadsTypeStep, ServerStep
      <3>3. TypeOK'
        BY <3>2, AccountsAssumption DEF TypeOK, KeyringTypeOK, RingTypeOK, ThreadsTypeOK, ServerTypeOK
      <3>4. QED
        BY <2>1, <3>2, <3>3, CarriesStep, OwnKeyStep, AloneStep, SettledStep DEF Inv
    <2>2. CASE UNCHANGED vars
      <3>1. UNCHANGED <<keyringVars, serving, flows, oauthState, flow, spent, env>>
        BY <2>2 DEF vars, server
      <3>2. UNCHANGED <<token, legacy, at, account, item, unread, faults, alone, clean, latest>>
        BY <3>1 DEF keyringVars, ring, threads, observers
      <3>3. TypeOK' /\ UnderOwnKey' /\ Carries' /\ Opens'
        BY <3>1, <3>2 DEF Inv, TypeOK, KeyringTypeOK, UnderOwnKey, Carries, CarriesAt, Opens
      <3>4. \A t \in Threads : AloneAt(t)'
        BY <3>2 DEF Inv, AloneAt, On
      <3>5. \A a \in Accounts : SettledAt(a)'
        BY <3>2 DEF Inv, SettledAt, Undisturbed, Stored
      <3>6. QED
        BY <3>3, <3>4, <3>5 DEF Inv
    <2>3. ASSUME NEW c \in Clients, StartManageServer(c) PROVE Inv'
      BY <2>3, StartStep DEF StartManageServer
    <2>4. ASSUME HandleAuthStart PROVE Inv'
      BY <2>4, StartStep DEF HandleAuthStart
    <2>5. QED
      BY <2>1, <2>2, <2>3, <2>4, StopStep, AccountsAssumption DEF Next, Acts
  <1>3. QED
    BY <1>1, <1>2, PTL DEF Spec

\* Every variable of the keyring, the manager and the commands has its type in
\* every reachable state.
THEOREM AccountsTypeCorrect == Spec => []TypeOK
  BY AccountsInvariance, PTL DEF Inv

\* A token is only ever found by the account it was granted to.
THEOREM NeverForeignToken == Spec => []NoForeignToken
  <1>1. Inv => NoForeignToken
    <2> SUFFICES ASSUME Inv, NEW a \in Accounts, Stored(a) # None PROVE Stored(a).account = a
      BY DEF NoForeignToken
    <2>1. QED
      BY AccountParts DEF Inv, UnderOwnKey, Stored
  <1>2. QED
    BY <1>1, AccountsInvariance, PTL

\* The last write of an account is what everybody reads from then on, unless it
\* failed, was cut, or met another call on the same account.
THEOREM LatestWriteAlwaysCounts == Spec => []LatestWriteCounts
  <1>1. Inv => LatestWriteCounts
    BY DEF Inv, SettledAt, Undisturbed, LatestWriteCounts
  <1>2. QED
    BY <1>1, AccountsInvariance, PTL
==============================================================================
