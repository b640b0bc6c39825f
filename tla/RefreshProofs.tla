---------------------------- MODULE RefreshProofs ----------------------------
(***************************************************************************)
(* Proofs about what commands that run at once do to what they keep:       *)
(* about Refresh, for any processes, credentials and sessions, and, in the *)
(* last part, about Settings, for any processes, keys and values.          *)
(***************************************************************************)
EXTENDS Refresh, Settings, TLAPS

\* What a process holds, by where it is.
AtPlace ==
  \A p \in Processes :
    /\ at[p] \in {"idle", "login", "write login"} => held[p] = NoToken
    /\ at[p] = "save" => place[p] \in Rows
    /\ at[p] \in {"open", "write", "login", "write login"} =>
         place[p] \in Files /\ got[p] # NoToken

\* A token that is given and not saved is alive, and nobody else knows it.
InHand ==
  \A p \in Processes : got[p] # NoToken =>
    /\ at[p] \in Unsaved
    /\ next[got[p]] = NoToken
    /\ \A c \in Places : kept[c] # got[p]
    /\ \A q \in Processes : held[q] # got[p] /\ (got[q] = got[p] => q = p)

\* A token is kept in one place, and who has read it has read it there.
OnePlace ==
  \A c \in Places : kept[c] \in Tokens =>
    /\ \A d \in Places : kept[d] = kept[c] => d = c
    /\ \A p \in Processes : held[p] = kept[c] => place[p] = c

Unissued == \A t \in Tokens \ Known : next[t] = NoToken

Inv == TypeOK /\ AtPlace /\ InHand /\ OnePlace /\ Unissued /\ DeadOnlyIfUnsaved

\* A token that is issued was not known, and is a token.
LEMMA Fresh ==
  ASSUME TypeOK
  PROVE  /\ Known \subseteq Tokens /\ issued \in Nat
         /\ NoToken \notin Tokens /\ Torn \notin Tokens /\ Torn # NoToken
         /\ issued < MaxTokens =>
              /\ issued + 1 \in Tokens \ Known
              /\ issued + 1 \in 1 .. (issued + 1)
              /\ Known \subseteq 1 .. (issued + 1)
              /\ issued + 1 \in 0 .. MaxTokens
              /\ issued + 1 \notin {NoToken, Torn}
  <1>1. issued \in 0 .. MaxTokens /\ MaxTokens \in Nat
    BY RefreshAssumption DEF TypeOK
  <1>2. QED
    BY <1>1 DEF Known, Tokens, NoToken, Torn

------------------------------------------------------------------------------
\* Issuing keeps the types of what is issued, and may add one token.
LEMMA IssueType ==
  ASSUME TypeOK, NEW t \in Known \cup {NoToken}, Issue(t)
  PROVE  /\ issued' = issued + 1 /\ issued' \in 0 .. MaxTokens
         /\ next' \in [Tokens -> Known' \cup {NoToken}]
         /\ Known \subseteq Known' /\ issued + 1 \in Known'
  <1>1. issued < MaxTokens /\ issued' = issued + 1
    BY DEF Issue
  <1>2. Known' = 1 .. (issued + 1)
    BY <1>1 DEF Known
  <1>3. Known \subseteq Known' /\ issued + 1 \in Known' /\ issued' \in 0 .. MaxTokens
    BY <1>1, <1>2, Fresh
  <1>4. next' \in [Tokens -> Known' \cup {NoToken}]
    BY <1>1, <1>3, Fresh DEF Issue, TypeOK
  <1>5. QED
    BY <1>1, <1>3, <1>4

\* What Accept gives is a token that has just been issued, or none.
LEMMA AcceptType ==
  ASSUME TypeOK, NEW p \in Processes, NEW t, Accept(p, t)
  PROVE  /\ issued' \in 0 .. MaxTokens
         /\ next' \in [Tokens -> Known' \cup {NoToken}]
         /\ Known \subseteq Known' /\ t \in Known' \cup {NoToken}
         /\ standing' \in [Files -> SUBSET (Known' \cup {NoToken})]
  <1>1. held[p] \in Known
    BY Fresh DEF Accept, TypeOK
  <1>2. issued' \in 0 .. MaxTokens /\ next' \in [Tokens -> Known' \cup {NoToken}]
        /\ Known \subseteq Known' /\ t \in Known' \cup {NoToken}
    <2>1. CASE place[p] \in Rotating \cup Files
      BY <1>1, <2>1, IssueType DEF Accept
    <2>2. CASE place[p] \notin Rotating \cup Files
      BY <2>2 DEF Accept, TypeOK, Known
    <2>3. QED
      BY <2>1, <2>2
  <1>3. standing' \in [Files -> SUBSET (Known' \cup {NoToken})]
    BY <1>2 DEF Accept, TypeOK
  <1>4. QED
    BY <1>2, <1>3

------------------------------------------------------------------------------
\* A process that ends keeps the types, whatever it was at.
LEMMA ReturnType ==
  ASSUME TypeOK, NEW p \in Processes, Return(p), Known \subseteq Known'
  PROVE  /\ at' \in [Processes -> {"idle", "refresh"} \cup Unsaved]
         /\ place' \in [Processes -> Places]
         /\ held' \in [Processes -> Known' \cup {NoToken}]
         /\ got' \in [Processes -> Known' \cup {NoToken}]
         /\ unlinked' \subseteq {q \in Processes : at'[q] \in Writing}
  BY DEF TypeOK, Return, Goto, Unsaved, Writing

\* Every action keeps the types.
LEMMA TypeStep == Inv /\ [Next]_vars => TypeOK'
  <1> SUFFICES ASSUME Inv, [Next]_vars PROVE TypeOK'
    OBVIOUS
  <1>0. TypeOK /\ AtPlace
    BY DEF Inv
  <1>1. ASSUME UNCHANGED issued PROVE Known' = Known
    BY <1>1 DEF Known
  <1> USE <1>0 DEF TypeOK
  <1>2. CASE UNCHANGED vars
    BY <1>1, <1>2 DEF vars, locals, Unsaved, Writing
  <1>3. ASSUME NEW c \in Places, Link(c) PROVE TypeOK'
    <2>1. c \in Rows /\ issued + 1 # Torn
      BY <1>3, Fresh DEF Link, Issue
    <2>2. kept' \in [Places -> Known' \cup {NoToken, Torn}] /\ \A d \in Rows : kept'[d] # Torn
      BY <1>3, <2>1, IssueType DEF Link, Places
    <2>3. QED
      BY <1>3, <2>2, IssueType DEF Link, locals, Writing, Unsaved
  <1>4. ASSUME NEW p \in Processes, NEW c \in Places, kept[c] # Torn, Read(p, c) PROVE TypeOK'
    <2>1. kept[c] \in Known \cup {NoToken}
      BY <1>4
    <2>2. QED
      BY <1>1, <1>4, <2>1 DEF Read, Goto, Unsaved, Writing
  <1>5. ASSUME NEW p \in Processes, NEW c \in Places, Login(p, c) PROVE TypeOK'
    BY <1>5, IssueType DEF Login, Goto, Unsaved, Writing
  <1>6. ASSUME NEW p \in Processes, NEW c \in Places, Logout(p, c) PROVE TypeOK'
    <2>1. kept' = [kept EXCEPT ![c] = NoToken] /\ c \in Files /\ NoToken # Torn
      BY <1>6, Fresh DEF Logout
    <2>2. kept' \in [Places -> Known' \cup {NoToken, Torn}] /\ \A d \in Rows : kept'[d] # Torn
      BY <1>1, <1>6, <2>1 DEF Logout
    <2>3. crossed' \subseteq Files /\ standing' \in [Files -> SUBSET (Known' \cup {NoToken})]
      BY <1>1, <1>6, <2>1 DEF Logout, Stands
    <2>4. QED
      BY <1>1, <1>6, <2>2, <2>3 DEF Logout, locals, Unsaved, Writing
  <1>7. ASSUME NEW p \in Processes, NEW t \in {NoToken} \cup Tokens, Exchange(p, t) PROVE TypeOK'
    <2>1. Accept(p, t) /\ at[p] = "refresh"
      BY <1>7 DEF Exchange, Accept
    <2>2. QED
      BY <1>7, <2>1, AcceptType DEF Exchange, Goto, Unsaved, Writing
  <1>8. ASSUME NEW p \in Processes, NEW t \in {NoToken} \cup Tokens, ExchangeLost(p, t) PROVE TypeOK'
    BY <1>8, AcceptType, ReturnType DEF ExchangeLost
  <1>9. ASSUME NEW p \in Processes, StillValid(p) \/ RefreshFails(p) PROVE TypeOK'
    BY <1>1, <1>9, ReturnType DEF StillValid, RefreshFails
  <1>10. ASSUME NEW p \in Processes, SaveToken(p) PROVE TypeOK'
    <2>1. got[p] # Torn /\ got[p] \in Known \cup {NoToken} /\ kept' = [kept EXCEPT ![place[p]] = got[p]]
      BY <1>10, Fresh DEF SaveToken
    <2>2. kept' \in [Places -> Known' \cup {NoToken, Torn}] /\ \A d \in Rows : kept'[d] # Torn
      BY <1>1, <1>10, <2>1 DEF SaveToken, Places
    <2>3. QED
      BY <1>1, <1>10, <2>2, ReturnType DEF SaveToken
  <1>11. ASSUME NEW p \in Processes, Kill(p) \/ SaveFails(p) PROVE TypeOK'
    <2>1. UNCHANGED <<kept, issued, next, standing, crossed>> /\ GiveUp(p)
      BY <1>11 DEF Kill, SaveFails
    <2>2. QED
      BY <1>1, <2>1, ReturnType DEF GiveUp
  <1>12. ASSUME NEW p \in Processes, Truncate(p) PROVE TypeOK'
    <2>1. place[p] \in Files /\ Rows \cap Files = {}
      BY <1>12, RefreshAssumption DEF Truncate, AtPlace
    <2>2. kept' \in [Places -> Known' \cup {NoToken, Torn}] /\ \A d \in Rows : kept'[d] # Torn
      <3>1. kept' = [kept EXCEPT ![place[p]] = Torn] /\ Known' = Known
        BY <1>1, <1>12 DEF Truncate
      <3>2. \A d \in Rows : d # place[p]
        BY <2>1
      <3>3. QED
        BY <3>1, <3>2 DEF Places
    <2>3. QED
      BY <1>1, <1>12, <2>2 DEF Truncate, Goto, Unsaved, Writing
  <1>13. ASSUME NEW p \in Processes, Write(p) PROVE TypeOK'
    <2>1. place[p] \in Files /\ Rows \cap Files = {} /\ got[p] \in Known
      BY <1>13, RefreshAssumption DEF Write, AtPlace, Writing
    <2>2. UNCHANGED issued /\ Known' = Known
      BY <1>1, <1>13 DEF Write
    <2>3. kept' = kept \/ \E k \in {got[p], Torn} : kept' = [kept EXCEPT ![place[p]] = k]
      BY <1>13 DEF Write
    <2>4. kept' \in [Places -> Known' \cup {NoToken, Torn}] /\ \A d \in Rows : kept'[d] # Torn
      BY <2>1, <2>2, <2>3 DEF Places
    <2>5. lost' \subseteq Known' /\ broken' \subseteq Files
      <3>1. lost' = lost \/ lost' = lost \cup {got[p]}
        BY <1>13 DEF Write
      <3>2. broken' = broken \/ broken' = broken \cup {place[p]} \/ broken' = broken \ {place[p]}
        BY <1>13 DEF Write
      <3>3. QED
        BY <2>1, <2>2, <3>1, <3>2
    <2>6. crossed' \subseteq Files /\ standing' \in [Files -> SUBSET (Known' \cup {NoToken})]
      <3>1. \/ UNCHANGED <<standing, crossed>>
            \/ /\ standing' = [standing EXCEPT ![place[p]] = {got[p]}]
               /\ crossed' = crossed \cup {place[p]} \/ crossed' = crossed \ {place[p]}
        BY <1>13 DEF Write, Stands
      <3>2. QED
        BY <2>1, <2>2, <3>1
    <2>7. QED
      BY <1>13, <2>2, <2>4, <2>5, <2>6, ReturnType DEF Write
  <1> HIDE <1>0 DEF TypeOK
  <1>14. ASSUME NEW p \in Processes, Step(p) PROVE TypeOK'
    <2>1. \A c \in Rows : kept[c] # Torn
      BY <1>0 DEF TypeOK
    <2>2. QED
      BY <1>4, <1>5, <1>6, <1>7, <1>8, <1>9, <1>10, <1>11, <1>12, <1>13, <1>14, <2>1
         DEF Step, ReadCredential, LoadSession
  <1>15. QED
    BY <1>2, <1>3, <1>14 DEF Next

------------------------------------------------------------------------------
\* What every action keeps besides the types.
Secret == AtPlace /\ InHand /\ OnePlace /\ Unissued /\ DeadOnlyIfUnsaved

\* A process gives up: what it was given is lost.
LEMMA GiveUpKeeps ==
  ASSUME Inv, NEW p \in Processes, Return(p), UNCHANGED <<kept, issued, next>>,
         lost \cup ({got[p]} \ {NoToken}) \subseteq lost'
  PROVE  Secret'
  <1> USE DEF Inv, TypeOK
  <1>1. /\ held'[p] = NoToken /\ got'[p] = NoToken /\ at'[p] = "idle"
        /\ \A q \in Processes \ {p} : held'[q] = held[q] /\ got'[q] = got[q] /\ at'[q] = at[q]
    BY DEF Return, Goto
  <1>2. place' = place /\ Known' = Known
    BY DEF Return, Known
  <1> HIDE DEF Inv, TypeOK
  <1>3. AtPlace'
    BY <1>1, <1>2 DEF AtPlace, Inv
  <1>4. InHand'
    BY <1>1, <1>2 DEF InHand, Inv
  <1>5. OnePlace'
    BY <1>1, <1>2, Fresh DEF OnePlace, Inv
  <1>6. Unissued'
    BY <1>2 DEF Unissued, Inv
  <1>7. DeadOnlyIfUnsaved'
    <2> SUFFICES ASSUME NEW c \in Places, kept[c] \in Tokens, next[kept[c]] # NoToken
                 PROVE  \/ next[kept[c]] \in lost'
                        \/ \E q \in Processes : place[q] = c /\ got'[q] = next[kept[c]]
      BY <1>2 DEF DeadOnlyIfUnsaved
    <2>1. CASE next[kept[c]] \in lost
      BY <2>1
    <2>2. ASSUME NEW q \in Processes, place[q] = c, got[q] = next[kept[c]]
          PROVE  next[kept[c]] \in lost' \/ got'[q] = next[kept[c]]
      BY <1>1, <2>2
    <2>3. QED
      BY <2>1, <2>2 DEF DeadOnlyIfUnsaved, Inv
  <1>8. QED
    BY <1>3, <1>4, <1>5, <1>6, <1>7 DEF Secret

\* A process ends with nothing unsaved in hand.
LEMMA EndKeeps ==
  ASSUME Inv, NEW p \in Processes, at[p] = "refresh", Return(p),
         UNCHANGED <<kept, issued, next, lost>>
  PROVE  Secret'
  <1>1. got[p] = NoToken
    BY DEF Inv, InHand, Unsaved
  <1>2. QED
    BY <1>1, GiveUpKeeps

\* One more token than was issued, which nobody knows.
LEMMA IssueFresh ==
  ASSUME Inv, NEW t, Issue(t)
  PROVE  /\ issued + 1 \in Tokens /\ issued + 1 \notin Known /\ issued + 1 # NoToken
         /\ Known' = Known \cup {issued + 1} /\ next[issued + 1] = NoToken
         /\ \A c \in Places : kept[c] # issued + 1
         /\ \A q \in Processes : held[q] # issued + 1 /\ got[q] # issued + 1
         /\ \A u \in Tokens : next[u] # issued + 1
  <1>1. issued + 1 \in Tokens \ Known /\ issued + 1 \notin {NoToken, Torn} /\ issued \in Nat
    BY Fresh DEF Issue, Inv
  <1>2. Known' = Known \cup {issued + 1}
    BY <1>1 DEF Known, Issue
  <1>3. next[issued + 1] = NoToken
    BY <1>1 DEF Inv, Unissued
  <1>4. QED
    BY <1>1, <1>2, <1>3 DEF Inv, TypeOK

\* The token that is exchanged dies, and the one for it is in hand or lost.
LEMMA AcceptKeeps ==
  ASSUME Inv, NEW p \in Processes, NEW t, Accept(p, t), Issue(held[p]), t = issued + 1,
         UNCHANGED <<kept, place>>,
         \A q \in Processes \ {p} : held'[q] = held[q] /\ got'[q] = got[q] /\ at'[q] = at[q],
         \/ /\ held'[p] = held[p] /\ got'[p] = t /\ lost' = lost
            /\ at'[p] = IF place[p] \in Rows THEN "save" ELSE "open"
         \/ /\ held'[p] = NoToken /\ got'[p] = NoToken /\ lost' = lost \cup {t}
            /\ at'[p] = "idle"
  PROVE  Secret'
  <1>1. at[p] = "refresh" /\ held[p] \in Tokens /\ next[held[p]] = NoToken /\ held[p] \in Known
    BY Fresh DEF Accept, Inv, TypeOK
  <1>2. got[p] = NoToken
    BY <1>1 DEF Inv, InHand, Unsaved
  <1>3. next' = [next EXCEPT ![held[p]] = t] /\ next \in [Tokens -> Known \cup {NoToken}]
    BY <1>1, Fresh DEF Issue, Inv, TypeOK
  <1>4. next'[held[p]] = t /\ \A u \in Tokens \ {held[p]} : next'[u] = next[u]
    BY <1>1, <1>3
  <1>5. AtPlace'
    <2>1. place[p] \in Rows \cup Files /\ t # NoToken
      BY IssueFresh DEF Inv, TypeOK, Places
    <2>2. QED
      BY <1>1, <2>1 DEF AtPlace, Inv
  <1>6. InHand'
    <2> SUFFICES ASSUME NEW q \in Processes, got'[q] # NoToken
                 PROVE  /\ at'[q] \in Unsaved
                        /\ next'[got'[q]] = NoToken
                        /\ \A c \in Places : kept[c] # got'[q]
                        /\ \A r \in Processes : held'[r] # got'[q] /\ (got'[r] = got'[q] => r = q)
      BY DEF InHand
    <2>1. CASE q = p
      <3>1. got'[p] = t /\ at'[p] \in {"save", "open"} /\ held'[p] = held[p]
        BY <2>1
      <3>2. next'[t] = NoToken
        BY <1>1, <1>4, IssueFresh
      <3>3. QED
        BY <1>1, <2>1, <3>1, <3>2, IssueFresh DEF Unsaved
    <2>2. CASE q # p
      <3>1. got[q] # held[p] /\ got[q] \in Tokens /\ got[q] # t
        BY <2>2, Fresh, IssueFresh DEF Inv, InHand, TypeOK
      <3>2. QED
        BY <1>4, <2>2, <3>1 DEF Inv, InHand
    <2>3. QED
      BY <2>1, <2>2
  <1>7. OnePlace'
    BY Fresh DEF OnePlace, Inv
  <1>8. Unissued'
    BY <1>1, <1>4, IssueFresh DEF Unissued, Inv
  <1>9. DeadOnlyIfUnsaved'
    <2> SUFFICES ASSUME NEW c \in Places, kept[c] \in Tokens, next'[kept[c]] # NoToken
                 PROVE  \/ next'[kept[c]] \in lost'
                        \/ \E q \in Processes : place[q] = c /\ got'[q] = next'[kept[c]]
      BY DEF DeadOnlyIfUnsaved
    <2>1. CASE kept[c] = held[p]
      <3>1. place[p] = c
        BY <2>1 DEF OnePlace, Inv
      <3>2. QED
        BY <1>4, <2>1, <3>1
    <2>2. CASE kept[c] # held[p]
      <3>1. next'[kept[c]] = next[kept[c]]
        BY <1>4, <2>2
      <3>2. QED
        BY <1>2, <3>1 DEF DeadOnlyIfUnsaved, Inv
    <2>3. QED
      BY <2>1, <2>2
  <1>10. QED
    BY <1>5, <1>6, <1>7, <1>8, <1>9 DEF Secret

\* A provider that does not rotate gives no refresh token.
LEMMA AcceptSame ==
  ASSUME Inv, NEW p \in Processes, NEW t, Accept(p, t), UNCHANGED <<kept, place, next, issued, lost>>,
         place[p] \in Rows,
         \A q \in Processes \ {p} : held'[q] = held[q] /\ got'[q] = got[q] /\ at'[q] = at[q],
         held'[p] = held[p], got'[p] = NoToken, at'[p] = "save"
  PROVE  Secret'
  <1>1. got[p] = NoToken /\ at[p] = "refresh"
    BY DEF Inv, InHand, Unsaved, Accept
  <1>2. Known' = Known
    BY DEF Known
  <1>3. AtPlace'
    BY DEF AtPlace, Inv
  <1>4. InHand'
    BY <1>1 DEF InHand, Inv
  <1>5. OnePlace' /\ Unissued'
    BY <1>2 DEF OnePlace, Unissued, Inv
  <1>6. DeadOnlyIfUnsaved'
    BY <1>1 DEF DeadOnlyIfUnsaved, Inv
  <1>7. QED
    BY <1>3, <1>4, <1>5, <1>6 DEF Secret

\* The provider takes the token, and its answer comes back, or not.
LEMMA ExchangeKeeps ==
  ASSUME Inv, NEW p \in Processes, NEW t, Exchange(p, t) \/ ExchangeLost(p, t)
  PROVE  Secret'
  <1> USE DEF Inv, TypeOK
  <1>1. Accept(p, t) /\ UNCHANGED <<kept, place>>
    BY DEF Exchange, ExchangeLost, Return
  <1>2. /\ at' = [at EXCEPT ![p] = at'[p]] /\ held' = [held EXCEPT ![p] = held'[p]]
        /\ got' = [got EXCEPT ![p] = got'[p]]
    BY DEF Exchange, ExchangeLost, Return, Goto
  <1>3. \A q \in Processes \ {p} : held'[q] = held[q] /\ got'[q] = got[q] /\ at'[q] = at[q]
    BY <1>2
  <1>4. CASE Exchange(p, t)
    <2>1. /\ held'[p] = held[p] /\ got'[p] = t /\ lost' = lost
          /\ at'[p] = IF place[p] \in Rows THEN "save" ELSE "open"
      BY <1>4 DEF Exchange, Goto
    <2> HIDE DEF Inv, TypeOK
    <2>2. CASE place[p] \in Rotating \cup Files
      BY <1>1, <1>3, <2>1, <2>2, AcceptKeeps DEF Accept
    <2>3. CASE place[p] \notin Rotating \cup Files
      <3>1. place[p] \in Rows
        BY <2>3 DEF Inv, TypeOK, Places
      <3>2. QED
        BY <1>1, <1>3, <2>1, <2>3, <3>1, AcceptSame DEF Accept
    <2>4. QED
      BY <2>2, <2>3
  <1>5. CASE ExchangeLost(p, t)
    <2>1. /\ held'[p] = NoToken /\ got'[p] = NoToken /\ lost' = lost \cup ({t} \ {NoToken})
          /\ at'[p] = "idle" /\ Return(p)
      BY <1>5 DEF ExchangeLost, Return, Goto
    <2> HIDE DEF Inv, TypeOK
    <2>2. CASE place[p] \in Rotating \cup Files
      <3>1. Issue(held[p]) /\ t = issued + 1
        BY <1>1, <2>2 DEF Accept
      <3>2. lost' = lost \cup {t}
        BY <2>1, <3>1, IssueFresh
      <3>3. QED
        BY <1>1, <1>3, <2>1, <3>1, <3>2, AcceptKeeps
    <2>3. CASE place[p] \notin Rotating \cup Files
      <3>1. at[p] = "refresh" /\ t = NoToken /\ UNCHANGED <<issued, next>>
        BY <1>1, <2>3 DEF Accept
      <3>2. lost' = lost
        BY <2>1, <3>1
      <3>3. QED
        BY <1>1, <2>1, <3>1, <3>2, EndKeeps
    <2>4. QED
      BY <2>2, <2>3
  <1>6. QED
    BY <1>4, <1>5

\* A stutter, or a command that looks at nothing here.
LEMMA StutterKeeps ==
  ASSUME Inv, UNCHANGED <<kept, issued, next, lost, locals>>
  PROVE  Secret'
  BY DEF Inv, Secret, AtPlace, InHand, OnePlace, Unissued, DeadOnlyIfUnsaved, Known, locals

\* The user links a provider: nobody knows the token yet.
LEMMA LinkKeeps ==
  ASSUME Inv, NEW c \in Places, Link(c)
  PROVE  Secret'
  <1>1. /\ kept' = [kept EXCEPT ![c] = issued + 1] /\ kept \in [Places -> Known \cup {NoToken, Torn}]
        /\ UNCHANGED <<next, locals, lost>> /\ Issue(NoToken)
    BY DEF Link, Issue, Inv, TypeOK
  <1>2. kept'[c] = issued + 1 /\ \A d \in Places \ {c} : kept'[d] = kept[d]
    BY <1>1
  <1>3. AtPlace'
    BY <1>1 DEF AtPlace, Inv, locals
  <1>4. InHand' /\ OnePlace'
    BY <1>1, <1>2, IssueFresh DEF InHand, OnePlace, Inv, locals
  <1>5. Unissued'
    BY <1>1, IssueFresh DEF Unissued, Inv
  <1>6. DeadOnlyIfUnsaved'
    BY <1>1, <1>2, IssueFresh DEF DeadOnlyIfUnsaved, Inv, locals
  <1>7. QED
    BY <1>3, <1>4, <1>5, <1>6 DEF Secret

\* A process reads what is kept.
LEMMA ReadKeeps ==
  ASSUME Inv, NEW p \in Processes, NEW c \in Places, Read(p, c)
  PROVE  Secret'
  <1>1. at[p] = "idle" /\ UNCHANGED <<kept, issued, next, got, lost>>
    BY DEF Read
  <1>2. /\ at'[p] = "refresh" /\ place'[p] = c /\ held'[p] = kept[c]
        /\ \A q \in Processes \ {p} : at'[q] = at[q] /\ place'[q] = place[q] /\ held'[q] = held[q]
    BY DEF Read, Goto, Inv, TypeOK
  <1>3. got[p] = NoToken
    BY <1>1 DEF Inv, InHand, Unsaved
  <1>4. AtPlace'
    BY <1>1, <1>2 DEF AtPlace, Inv
  <1>5. InHand'
    BY <1>1, <1>2, <1>3 DEF InHand, Inv
  <1>6. OnePlace' /\ Unissued'
    BY <1>1, <1>2 DEF OnePlace, Unissued, Inv, Known
  <1>7. DeadOnlyIfUnsaved'
    BY <1>1, <1>2, <1>3 DEF DeadOnlyIfUnsaved, Inv
  <1>8. QED
    BY <1>4, <1>5, <1>6, <1>7 DEF Secret

\* A login has a session in hand that nobody knows.
LEMMA LoginKeeps ==
  ASSUME Inv, NEW p \in Processes, NEW c \in Places, Login(p, c)
  PROVE  Secret'
  <1>1. /\ at[p] = "idle" /\ c \in Files /\ UNCHANGED <<kept, next, held, lost>>
        /\ Issue(NoToken) /\ issued' = issued + 1
    BY DEF Login, Issue
  <1>2. /\ at'[p] = "login" /\ place'[p] = c /\ got'[p] = issued + 1
        /\ \A q \in Processes \ {p} : at'[q] = at[q] /\ place'[q] = place[q] /\ got'[q] = got[q]
    BY DEF Login, Goto, Inv, TypeOK
  <1>3. got[p] = NoToken /\ held[p] = NoToken
    BY <1>1 DEF Inv, InHand, AtPlace, Unsaved
  <1>4. AtPlace'
    BY <1>1, <1>2, <1>3, IssueFresh DEF AtPlace, Inv
  <1>5. InHand'
    <2>1. ASSUME NEW q \in Processes \ {p}, got[q] # NoToken PROVE got[q] # issued + 1
      BY <1>1, IssueFresh
    <2> SUFFICES ASSUME NEW q \in Processes, got'[q] # NoToken
                 PROVE  /\ at'[q] \in Unsaved
                        /\ next[got'[q]] = NoToken
                        /\ \A d \in Places : kept[d] # got'[q]
                        /\ \A r \in Processes : held[r] # got'[q] /\ (got'[r] = got'[q] => r = q)
      BY <1>1 DEF InHand
    <2>2. CASE q = p
      BY <1>1, <1>2, <2>2, IssueFresh DEF Unsaved
    <2>3. CASE q # p
      BY <1>1, <1>2, <2>1, <2>3 DEF InHand, Inv
    <2>4. QED
      BY <2>2, <2>3
  <1>6. OnePlace'
    <2>1. NoToken \notin Tokens
      BY Fresh DEF Inv
    <2>2. QED
      BY <1>1, <1>2, <1>3, <2>1 DEF OnePlace, Inv
  <1>7. Unissued'
    BY <1>1, IssueFresh DEF Unissued, Inv
  <1>8. DeadOnlyIfUnsaved'
    BY <1>1, <1>2, <1>3 DEF DeadOnlyIfUnsaved, Inv
  <1>9. QED
    BY <1>4, <1>5, <1>6, <1>7, <1>8 DEF Secret

\* A file is removed, or emptied: what it held is kept nowhere.
LEMMA ForgetKeeps ==
  ASSUME Inv, NEW c \in Places, NEW k \in {NoToken, Torn},
         kept' = [kept EXCEPT ![c] = k], UNCHANGED <<issued, next, place, held, got>>,
         lost \subseteq lost', AtPlace',
         \A q \in Processes : at[q] \in Unsaved => at'[q] \in Unsaved
  PROVE  Secret'
  <1>1. k \notin Tokens
    BY Fresh DEF Inv
  <1>2. kept'[c] = k /\ \A d \in Places \ {c} : kept'[d] = kept[d]
    BY DEF Inv, TypeOK
  <1>3. InHand'
    <2>1. \A q \in Processes : got[q] # NoToken => got[q] # k
      BY <1>1, Fresh DEF Inv, TypeOK
    <2>2. QED
      BY <1>2, <2>1 DEF InHand, Inv
  <1>4. OnePlace' /\ Unissued'
    BY <1>1, <1>2 DEF OnePlace, Unissued, Known, Inv
  <1>5. DeadOnlyIfUnsaved'
    BY <1>1, <1>2 DEF DeadOnlyIfUnsaved, Inv
  <1>6. QED
    BY <1>3, <1>4, <1>5 DEF Secret

\* The writing of a file fails half way: nothing is kept, and the token is lost.
LEMMA TearKeeps ==
  ASSUME Inv, NEW p \in Processes, Return(p), kept' = [kept EXCEPT ![place[p]] = Torn],
         UNCHANGED <<issued, next>>, lost' = lost \cup {got[p]}
  PROVE  Secret'
  <1>1. /\ held'[p] = NoToken /\ got'[p] = NoToken /\ at'[p] = "idle" /\ place' = place
        /\ \A q \in Processes \ {p} : held'[q] = held[q] /\ got'[q] = got[q] /\ at'[q] = at[q]
    BY DEF Return, Goto, Inv, TypeOK
  <1>2. kept'[place[p]] = Torn /\ \A d \in Places \ {place[p]} : kept'[d] = kept[d]
    BY DEF Inv, TypeOK
  <1>3. place[p] \in Places /\ NoToken \notin Tokens /\ Torn \notin Tokens
        /\ \A q \in Processes : got[q] # Torn
    BY Fresh DEF Inv, TypeOK
  <1>4. AtPlace'
    BY <1>1 DEF AtPlace, Inv
  <1>5. InHand'
    BY <1>1, <1>2, <1>3 DEF InHand, Inv
  <1>6. OnePlace' /\ Unissued'
    BY <1>1, <1>2, <1>3 DEF OnePlace, Unissued, Known, Inv
  <1>7. DeadOnlyIfUnsaved'
    BY <1>1, <1>2, <1>3 DEF DeadOnlyIfUnsaved, Inv
  <1>8. QED
    BY <1>4, <1>5, <1>6, <1>7 DEF Secret

\* What was in hand is kept, alone and alive.
LEMMA StoreKeeps ==
  ASSUME Inv, NEW p \in Processes, at[p] \in Unsaved, Return(p),
         kept' = [kept EXCEPT ![place[p]] = got[p]], UNCHANGED <<issued, next>>,
         lost \subseteq lost'
  PROVE  Secret'
  <1>1. /\ held'[p] = NoToken /\ got'[p] = NoToken /\ at'[p] = "idle" /\ place' = place
        /\ \A q \in Processes \ {p} : held'[q] = held[q] /\ got'[q] = got[q] /\ at'[q] = at[q]
    BY DEF Return, Goto, Inv, TypeOK
  <1>2. kept'[place[p]] = got[p] /\ \A d \in Places \ {place[p]} : kept'[d] = kept[d]
    BY DEF Inv, TypeOK
  <1>3. place[p] \in Places /\ NoToken \notin Tokens
    BY Fresh DEF Inv, TypeOK
  <1>4. AtPlace'
    BY <1>1 DEF AtPlace, Inv
  <1>5. InHand'
    BY <1>1, <1>2, <1>3 DEF InHand, Inv
  <1>6. OnePlace'
    BY <1>1, <1>2, <1>3 DEF OnePlace, InHand, Inv
  <1>7. Unissued'
    BY DEF Unissued, Known, Inv
  <1>8. DeadOnlyIfUnsaved'
    <2> SUFFICES ASSUME NEW c \in Places, kept'[c] \in Tokens, next[kept'[c]] # NoToken
                 PROVE  \/ next[kept'[c]] \in lost'
                        \/ \E q \in Processes : place[q] = c /\ got'[q] = next[kept'[c]]
      BY <1>1 DEF DeadOnlyIfUnsaved
    <2>1. c # place[p]
      BY <1>2, <1>3 DEF InHand, Inv
    <2>2. QED
      BY <1>1, <1>2, <2>1 DEF DeadOnlyIfUnsaved, Inv
  <1>9. QED
    BY <1>4, <1>5, <1>6, <1>7, <1>8 DEF Secret

\* A whole file takes its place, the file is torn, or there is no file any more.
LEMMA WriteKeeps ==
  ASSUME Inv, NEW p \in Processes, Write(p)
  PROVE  Secret'
  <1>1. /\ at[p] \in Unsaved /\ Return(p) /\ UNCHANGED <<issued, next>>
        /\ got[p] # NoToken
    BY DEF Write, Writing, Unsaved, Inv, AtPlace
  <1>2. lost' = IF kept'[place[p]] = got[p] THEN lost ELSE lost \cup {got[p]}
    BY DEF Write
  <1>3. \/ kept' = kept
        \/ kept' = [kept EXCEPT ![place[p]] = got[p]]
        \/ kept' = [kept EXCEPT ![place[p]] = Torn] /\ got[p] # Torn
    <2>1. got[p] # Torn
      BY Fresh DEF Inv, TypeOK
    <2>2. QED
      BY <2>1 DEF Write
  <1>4. place[p] \in Places /\ kept \in [Places -> Known \cup {NoToken, Torn}]
    BY DEF Inv, TypeOK
  <1>5. CASE kept' = kept
    <2>1. kept'[place[p]] # got[p]
      BY <1>1, <1>4, <1>5 DEF Inv, InHand
    <2>2. QED
      BY <1>1, <1>2, <1>5, <2>1, GiveUpKeeps
  <1>6. CASE kept' = [kept EXCEPT ![place[p]] = got[p]]
    BY <1>1, <1>2, <1>6, StoreKeeps
  <1>7. CASE kept' = [kept EXCEPT ![place[p]] = Torn] /\ got[p] # Torn
    <2>1. lost' = lost \cup {got[p]}
      BY <1>2, <1>4, <1>7
    <2>2. QED
      BY <1>1, <1>4, <1>7, <2>1, TearKeeps
  <1>8. QED
    BY <1>3, <1>5, <1>6, <1>7

\* Every action keeps who knows which token.
LEMMA SecretStep == Inv /\ [Next]_vars => Secret'
  <1> SUFFICES ASSUME Inv, [Next]_vars PROVE Secret'
    OBVIOUS
  <1>1. CASE UNCHANGED vars
    BY <1>1, StutterKeeps DEF vars
  <1>2. ASSUME NEW p \in Processes, NEW c \in Places, Logout(p, c) PROVE Secret'
    <2>1. kept' = [kept EXCEPT ![c] = NoToken] /\ UNCHANGED <<issued, next, locals, lost>>
      BY <1>2 DEF Logout
    <2>2. AtPlace' /\ UNCHANGED <<at, place, held, got>>
      BY <2>1 DEF AtPlace, Inv, locals
    <2>3. QED
      BY <2>1, <2>2, ForgetKeeps
  <1>3. ASSUME NEW p \in Processes, Truncate(p) PROVE Secret'
    <2>1. /\ kept' = [kept EXCEPT ![place[p]] = Torn]
          /\ UNCHANGED <<issued, next, place, held, got, lost>> /\ at[p] \in {"open", "login"}
          /\ at' = [at EXCEPT ![p] = IF at[p] = "open" THEN "write" ELSE "write login"]
      BY <1>3 DEF Truncate, Goto
    <2>2. place[p] \in Places /\ at \in [Processes -> {"idle", "refresh"} \cup Unsaved]
      BY DEF Inv, TypeOK
    <2>3. /\ at'[p] = IF at[p] = "open" THEN "write" ELSE "write login"
          /\ \A q \in Processes \ {p} : at'[q] = at[q]
      BY <2>1, <2>2
    <2>4. AtPlace'
      <3>1. AtPlace /\ UNCHANGED <<place, held, got>>
        BY <2>1 DEF Inv
      <3>2. place[p] \in Files /\ got[p] # NoToken /\ (at[p] = "login" => held[p] = NoToken)
        BY <2>1, <3>1 DEF AtPlace
      <3>3. at'[p] \in {"write", "write login"} /\ (at'[p] = "write login" => at[p] = "login")
        <4>1. at[p] = "open" \/ at[p] = "login"
          BY <2>1
        <4>2. at[p] = "open" => at'[p] = "write"
          BY <2>3
        <4>3. at[p] = "login" => at'[p] = "write login"
          BY <2>3
        <4>4. QED
          BY <4>1, <4>2, <4>3
      <3>4. QED
        BY <2>3, <3>1, <3>2, <3>3 DEF AtPlace
    <2>5. \A q \in Processes : at[q] \in Unsaved => at'[q] \in Unsaved
      BY <2>1, <2>3 DEF Unsaved
    <2>6. QED
      BY <2>1, <2>2, <2>4, <2>5, ForgetKeeps
  <1>4. ASSUME NEW p \in Processes, SaveToken(p) PROVE Secret'
    BY <1>4, StoreKeeps DEF SaveToken, Unsaved
  <1>5. ASSUME NEW p \in Processes, SaveFails(p) \/ Kill(p) PROVE Secret'
    BY <1>5, GiveUpKeeps DEF SaveFails, Kill, GiveUp
  <1>6. ASSUME NEW p \in Processes, StillValid(p) \/ RefreshFails(p) PROVE Secret'
    BY <1>6, EndKeeps DEF StillValid, RefreshFails
  <1>7. ASSUME NEW p \in Processes, Step(p) PROVE Secret'
    BY <1>2, <1>3, <1>4, <1>5, <1>6, <1>7, ExchangeKeeps, ReadKeeps, LoginKeeps, WriteKeeps
       DEF Step, ReadCredential, LoadSession
  <1>8. QED
    BY <1>1, <1>7, LinkKeeps DEF Next

\* The inductive invariant of Refresh: the types, and who knows which token.
THEOREM RefreshInvariance == Spec => []Inv
  <1>1. Init => Inv
    <2> SUFFICES ASSUME Init PROVE TypeOK /\ Secret
      BY DEF Inv, Secret
    <2>1. MaxTokens \in Nat /\ NoToken # Torn
      BY RefreshAssumption DEF NoToken, Torn
    <2>2. TypeOK
      BY <2>1 DEF Init, TypeOK, Places
    <2>3. NoToken \notin Tokens
      BY DEF NoToken, Tokens
    <2>4. AtPlace /\ InHand
      BY DEF Init, AtPlace, InHand
    <2>5. OnePlace /\ Unissued /\ DeadOnlyIfUnsaved
      BY <2>3 DEF Init, OnePlace, Unissued, DeadOnlyIfUnsaved
    <2>6. QED
      BY <2>2, <2>4, <2>5 DEF Secret
  <1>2. Inv /\ [Next]_vars => Inv'
    BY TypeStep, SecretStep DEF Inv, Secret
  <1>3. QED
    BY <1>1, <1>2, PTL DEF Spec

\* Every variable of Refresh has its type in every reachable state.
THEOREM RefreshTypeCorrect == Spec => []TypeOK
  BY RefreshInvariance, PTL DEF Inv

\* A refresh token that is kept is dead only while the one that replaces it is
\* still to be saved, or could not be, however many commands overlap.
THEOREM KeptTokensAlwaysWork == Spec => []DeadOnlyIfUnsaved
  BY RefreshInvariance, PTL DEF Inv

------------------------------------------------------------------------------
(***************************************************************************)
(* The user's last word.  Where no command was at work then, those at work *)
(* on a file since have read, and will write, what may stand in it; none   *)
(* writes to a file that is gone; and a torn file has a writer or was left *)
(* so.  A command that met the sign-in is why crossed files are exempt.    *)
(***************************************************************************)
Renews(p, c) ==
  /\ p \notin unlinked
  /\ at[p] = "refresh" => held[p] \in standing[c]
  /\ at[p] \in {"open", "write"} => got[p] \in standing[c]

Says(c) ==
  \/ kept[c] \in standing[c]
  \/ /\ kept[c] = Torn
     /\ c \in broken \/ \E p \in Processes : place[p] = c /\ at[p] \in Writing

Obeyed(c) == Says(c) /\ \A p \in Processes : place[p] = c => Renews(p, c)

SignInsObeyed == \A c \in Files \ crossed : Obeyed(c)

\* A step that neither writes the file nor says what should be in it.
LEMMA LeftAlone ==
  ASSUME NEW c \in Files, Obeyed(c), kept'[c] = kept[c],
         standing[c] \subseteq standing'[c], c \in broken => c \in broken',
         \A q \in Processes : place[q] = c /\ at[q] \in Writing =>
           c \in broken' \/ (place'[q] = c /\ at'[q] \in Writing),
         \A q \in Processes : place'[q] = c => Renews(q, c)'
  PROVE  Obeyed(c)'
  BY DEF Obeyed, Says

\* A process ends; a writer that has not written leaves the file broken.
LEMMA EndObeyed ==
  ASSUME Inv, NEW p \in Processes, Return(p), NEW c \in Files, Obeyed(c),
         kept'[c] = kept[c], standing[c] \subseteq standing'[c],
         c \in broken => c \in broken',
         place[p] = c /\ at[p] \in Writing => c \in broken'
  PROVE  Obeyed(c)'
  <1>1. /\ at'[p] = "idle" /\ place' = place
        /\ \A q \in Processes \ {p} : at'[q] = at[q] /\ held'[q] = held[q] /\ got'[q] = got[q]
    BY DEF Return, Goto, Inv, TypeOK
  <1>2. unlinked' = unlinked \ {p}
    BY DEF Return
  <1>3. \A q \in Processes : place'[q] = c => Renews(q, c)'
    BY <1>1, <1>2 DEF Obeyed, Renews
  <1>4. QED
    BY <1>1, <1>3, LeftAlone

\* A process that is at nothing begins.
LEMMA BeginObeyed ==
  ASSUME Inv, NEW p \in Processes, at[p] = "idle", NEW c \in Files, Obeyed(c),
         UNCHANGED <<kept, unlinked, standing, broken>>,
         \A q \in Processes \ {p} :
           at'[q] = at[q] /\ place'[q] = place[q] /\ held'[q] = held[q] /\ got'[q] = got[q],
         at'[p] = "refresh" /\ place'[p] = c => held'[p] \in standing[c],
         at'[p] \in {"refresh", "login"}
  PROVE  Obeyed(c)'
  <1>1. p \notin unlinked
    BY DEF Inv, TypeOK, Writing
  <1>2. \A q \in Processes : place'[q] = c => Renews(q, c)'
    BY <1>1 DEF Obeyed, Renews
  <1>3. \A q \in Processes : place[q] = c /\ at[q] \in Writing =>
           c \in broken' \/ (place'[q] = c /\ at'[q] \in Writing)
    BY DEF Writing
  <1>4. QED
    BY <1>2, <1>3, LeftAlone

\* ClearSession, with no command at work on the file, leaves nothing but its word.
LEMMA LogoutObeyed ==
  ASSUME Inv, SignInsObeyed, NEW p \in Processes, NEW d \in Places, Logout(p, d),
         NEW c \in Files \ crossed'
  PROVE  Obeyed(c)'
  <1>1. /\ at[p] = "idle" /\ d \in Files /\ UNCHANGED <<at, place, held, got>>
        /\ kept' = [kept EXCEPT ![d] = NoToken] /\ broken' = broken \ {d}
        /\ unlinked' = unlinked \cup {q \in Processes : at[q] \in Writing /\ place[q] = d}
        /\ standing' = [standing EXCEPT ![d] = {NoToken}]
        /\ crossed' = IF Busy(p, d) # {} THEN crossed \cup {d} ELSE crossed \ {d}
    BY DEF Logout, Stands, locals
  <1>2. /\ kept \in [Places -> Known \cup {NoToken, Torn}]
        /\ standing \in [Files -> SUBSET (Known \cup {NoToken})]
        /\ unlinked \subseteq {q \in Processes : at[q] \in Writing}
    BY DEF Inv, TypeOK
  <1>3. CASE c = d
    <2>1. Busy(p, c) = {}
      BY <1>1, <1>3
    <2>2. \A q \in Processes : place[q] = c => at[q] = "idle"
      BY <1>1, <2>1 DEF Busy
    <2>3. kept'[c] = NoToken /\ standing'[c] = {NoToken}
      BY <1>1, <1>2, <1>3 DEF Places
    <2>4. Says(c)'
      BY <2>3 DEF Says
    <2>5. \A q \in Processes : place'[q] = c => Renews(q, c)'
      BY <1>1, <1>2, <2>2 DEF Renews, Writing
    <2>6. QED
      BY <2>4, <2>5 DEF Obeyed
  <1>4. CASE c # d
    <2>1. c \notin crossed /\ Obeyed(c)
      BY <1>1, <1>4 DEF SignInsObeyed
    <2>2. kept'[c] = kept[c] /\ standing'[c] = standing[c] /\ (c \in broken => c \in broken')
      BY <1>1, <1>2, <1>4 DEF Places
    <2>3. \A q \in Processes : place'[q] = c => Renews(q, c)'
      BY <1>1, <1>4, <2>1, <2>2 DEF Obeyed, Renews
    <2>4. QED
      BY <1>1, <2>1, <2>2, <2>3, LeftAlone
  <1>5. QED
    BY <1>3, <1>4

\* SaveSession empties the file, and is its writer.
LEMMA TruncateObeyed ==
  ASSUME Inv, NEW p \in Processes, Truncate(p), NEW c \in Files, Obeyed(c)
  PROVE  Obeyed(c)'
  <1>1. /\ kept' = [kept EXCEPT ![place[p]] = Torn] /\ at[p] \in {"open", "login"}
        /\ UNCHANGED <<place, held, got, unlinked, standing, broken>>
        /\ at' = [at EXCEPT ![p] = IF at[p] = "open" THEN "write" ELSE "write login"]
    BY DEF Truncate, Goto
  <1>2. /\ kept \in [Places -> Known \cup {NoToken, Torn}] /\ place[p] \in Places
        /\ at \in [Processes -> {"idle", "refresh"} \cup Unsaved]
    BY DEF Inv, TypeOK
  <1>3. /\ at[p] = "open" => at'[p] = "write"
        /\ at[p] = "login" => at'[p] = "write login"
        /\ \A q \in Processes \ {p} : at'[q] = at[q]
    BY <1>1, <1>2
  <1>4. at'[p] \in Writing /\ (at'[p] \in {"open", "write"} => at[p] = "open") /\ at'[p] # "refresh"
    <2>1. CASE at[p] = "open"
      BY <1>3, <2>1 DEF Writing
    <2>2. CASE at[p] = "login"
      BY <1>3, <2>2 DEF Writing
    <2>3. QED
      BY <1>1, <2>1, <2>2
  <1>5. \A q \in Processes : place'[q] = c => Renews(q, c)'
    BY <1>1, <1>3, <1>4 DEF Obeyed, Renews
  <1>6. CASE place[p] = c
    <2>1. kept'[c] = Torn
      BY <1>1, <1>2, <1>6
    <2>2. Says(c)'
      BY <1>1, <1>4, <1>6, <2>1 DEF Says
    <2>3. QED
      BY <1>5, <2>2 DEF Obeyed
  <1>7. CASE place[p] # c
    <2>1. kept'[c] = kept[c]
      BY <1>1, <1>2, <1>7 DEF Places
    <2>2. QED
      BY <1>1, <1>3, <1>4, <1>5, <2>1, LeftAlone
  <1>8. QED
    BY <1>6, <1>7

\* A writer writes what may stand, or leaves the file broken; a login that met
\* nobody says what stands from now on.
LEMMA WriteObeyed ==
  ASSUME Inv, SignInsObeyed, NEW p \in Processes, Write(p), NEW c \in Files \ crossed'
  PROVE  Obeyed(c)'
  <1> DEFINE d == place[p]
  <1>1. at[p] \in Writing /\ Return(p) /\ d \in Files
    BY DEF Write, Writing, Inv, AtPlace
  <1>2. /\ kept \in [Places -> Known \cup {NoToken, Torn}]
        /\ standing \in [Files -> SUBSET (Known \cup {NoToken})]
        /\ unlinked \subseteq {q \in Processes : at[q] \in Writing}
    BY DEF Inv, TypeOK
  <1>3. \/ p \in unlinked /\ UNCHANGED <<kept, broken>>
        \/ p \notin unlinked /\ kept' = [kept EXCEPT ![d] = Torn] /\ broken' = broken \cup {d}
        \/ p \notin unlinked /\ kept' = [kept EXCEPT ![d] = got[p]] /\ broken' = broken \ {d}
    <2>1. got[p] # Torn
      BY Fresh DEF Inv, TypeOK
    <2>2. QED
      BY <2>1 DEF Write
  <1>4. \/ at[p] = "write" /\ UNCHANGED <<standing, crossed>>
        \/ at[p] = "write login" /\ Stands(p, d, {got[p]}, p \in unlinked)
    BY <1>1 DEF Write, Writing
  <1>5. CASE c # d
    <2>1. /\ kept'[c] = kept[c] /\ standing'[c] = standing[c]
          /\ c \notin crossed /\ (c \in broken => c \in broken')
      BY <1>1, <1>2, <1>3, <1>4, <1>5 DEF Stands, Places
    <2>2. QED
      BY <1>1, <1>5, <2>1, EndObeyed DEF SignInsObeyed
  <1>6. ASSUME c = d, p \notin unlinked, got[p] \in standing'[c] PROVE Says(c)'
    <2>1. \/ kept'[c] = Torn /\ c \in broken'
          \/ kept'[c] = got[p]
      BY <1>1, <1>2, <1>3, <1>6 DEF Places
    <2>2. QED
      BY <1>6, <2>1 DEF Says
  <1>7. /\ at'[p] = "idle" /\ place' = place /\ unlinked' = unlinked \ {p}
        /\ \A q \in Processes \ {p} : at'[q] = at[q] /\ held'[q] = held[q] /\ got'[q] = got[q]
    BY <1>1 DEF Return, Goto, Inv, TypeOK
  <1>8. CASE c = d /\ at[p] = "write"
    <2>1. standing' = standing /\ crossed' = crossed
      BY <1>4, <1>8
    <2>2. Obeyed(c) /\ Renews(p, c)
      BY <1>8, <2>1 DEF SignInsObeyed, Obeyed
    <2>3. Says(c)'
      BY <1>6, <1>8, <2>1, <2>2 DEF Renews
    <2>4. \A q \in Processes : place'[q] = c => Renews(q, c)'
      BY <1>7, <2>1, <2>2 DEF Obeyed, Renews
    <2>5. QED
      BY <2>3, <2>4 DEF Obeyed
  <1>9. CASE c = d /\ at[p] = "write login"
    <2>1. p \notin unlinked /\ Busy(p, c) = {} /\ standing'[c] = {got[p]}
      BY <1>1, <1>2, <1>4, <1>9 DEF Stands
    <2>2. \A q \in Processes : place'[q] = c => at'[q] = "idle"
      BY <1>7, <2>1 DEF Busy
    <2>3. \A q \in Processes : place'[q] = c => Renews(q, c)'
      BY <1>2, <1>7, <2>2 DEF Renews, Writing
    <2>4. QED
      BY <1>6, <1>9, <2>1, <2>3 DEF Obeyed
  <1>10. QED
    BY <1>4, <1>5, <1>8, <1>9

\* A session that may stand is renewed by one that may stand.
LEMMA ExchangeObeyed ==
  ASSUME Inv, NEW p \in Processes, NEW t, Exchange(p, t) \/ ExchangeLost(p, t),
         NEW c \in Files, Obeyed(c)
  PROVE  Obeyed(c)'
  <1>1. /\ Accept(p, t) /\ at[p] = "refresh" /\ UNCHANGED <<kept, place, broken>>
    BY DEF Exchange, ExchangeLost, Accept, Return
  <1>2. /\ standing[c] \subseteq standing'[c]
        /\ c = place[p] /\ held[p] \in standing[c] => t \in standing'[c]
    BY <1>1 DEF Accept
  <1>3. CASE Exchange(p, t)
    <2>1. /\ got' = [got EXCEPT ![p] = t] /\ UNCHANGED <<held, unlinked>>
          /\ at'[p] \notin Writing \cup {"refresh"}
          /\ \A q \in Processes \ {p} : at'[q] = at[q]
      BY <1>3 DEF Exchange, Goto, Writing, Inv, TypeOK
    <2>2. got'[p] = t /\ \A q \in Processes \ {p} : got'[q] = got[q]
      BY <2>1 DEF Inv, TypeOK
    <2>3. \A q \in Processes : place'[q] = c => Renews(q, c)'
      BY <1>1, <1>2, <2>1, <2>2 DEF Obeyed, Renews
    <2>4. QED
      BY <1>1, <1>2, <2>1, <2>3, LeftAlone DEF Writing
  <1>4. CASE ExchangeLost(p, t)
    BY <1>1, <1>2, <1>4, EndObeyed DEF ExchangeLost, Writing
  <1>5. QED
    BY <1>3, <1>4

LEMMA SignInsStep == Inv /\ SignInsObeyed /\ [Next]_vars => SignInsObeyed'
  <1> SUFFICES ASSUME Inv, SignInsObeyed, [Next]_vars, NEW c \in Files \ crossed'
               PROVE  Obeyed(c)'
    BY DEF SignInsObeyed
  <1>1. \A d \in Rows : d # c
    BY RefreshAssumption
  <1>2. ASSUME c \notin crossed PROVE Obeyed(c)
    BY <1>2 DEF SignInsObeyed
  <1>3. CASE UNCHANGED vars
    BY <1>2, <1>3 DEF vars, locals, Obeyed, Says, Renews
  <1>4. ASSUME NEW d \in Places, Link(d) PROVE Obeyed(c)'
    <2>1. /\ kept'[c] = kept[c]
          /\ UNCHANGED <<at, place, held, got, unlinked, standing, crossed, broken>>
      BY <1>1, <1>4 DEF Link, locals, Inv, TypeOK, Places
    <2>2. QED
      BY <1>2, <2>1 DEF Obeyed, Says, Renews
  <1>5. ASSUME NEW p \in Processes, NEW d \in Places, ReadCredential(p, d) \/ LoadSession(p, d)
        PROVE  Obeyed(c)'
    <2>1. /\ Read(p, d) /\ at[p] = "idle" /\ (d \in Files => kept[d] # Torn)
          /\ UNCHANGED <<kept, unlinked, standing, broken, got, crossed>>
      BY <1>1, <1>5, RefreshAssumption DEF ReadCredential, LoadSession, Read
    <2>2. Obeyed(c)
      BY <1>2, <2>1
    <2>3. /\ at'[p] = "refresh" /\ place'[p] = d /\ held'[p] = kept[d]
          /\ \A q \in Processes \ {p} :
               at'[q] = at[q] /\ place'[q] = place[q] /\ held'[q] = held[q]
      BY <2>1 DEF Read, Goto, Inv, TypeOK
    <2>4. d = c => held'[p] \in standing[c]
      BY <2>1, <2>2, <2>3 DEF Obeyed, Says
    <2>5. QED
      BY <2>1, <2>2, <2>3, <2>4, BeginObeyed
  <1>6. ASSUME NEW p \in Processes, NEW d \in Places, Login(p, d) PROVE Obeyed(c)'
    <2>1. at[p] = "idle" /\ UNCHANGED <<kept, unlinked, standing, broken, held, crossed>>
      BY <1>6 DEF Login
    <2>2. /\ at'[p] = "login"
          /\ \A q \in Processes \ {p} :
               at'[q] = at[q] /\ place'[q] = place[q] /\ got'[q] = got[q]
      BY <1>6 DEF Login, Goto, Inv, TypeOK
    <2>3. QED
      BY <1>2, <2>1, <2>2, BeginObeyed
  <1>7. ASSUME NEW p \in Processes, NEW t, Exchange(p, t) \/ ExchangeLost(p, t)
        PROVE  Obeyed(c)'
    BY <1>2, <1>7, ExchangeObeyed DEF Exchange, ExchangeLost
  <1>8. ASSUME NEW p \in Processes, StillValid(p) \/ RefreshFails(p) PROVE Obeyed(c)'
    <2>1. /\ at[p] = "refresh" /\ Return(p)
          /\ UNCHANGED <<kept, standing, crossed, broken>>
      BY <1>8 DEF StillValid, RefreshFails
    <2>2. QED
      BY <1>2, <2>1, EndObeyed DEF Writing
  <1>9. ASSUME NEW p \in Processes, SaveToken(p) PROVE Obeyed(c)'
    <2>1. /\ at[p] = "save" /\ Return(p) /\ kept' = [kept EXCEPT ![place[p]] = got[p]]
          /\ UNCHANGED <<standing, crossed, broken>>
      BY <1>9 DEF SaveToken
    <2>2. place[p] \in Rows
      BY <2>1 DEF Inv, AtPlace
    <2>3. kept'[c] = kept[c]
      BY <1>1, <2>1, <2>2 DEF Inv, TypeOK, Places
    <2>4. QED
      BY <1>2, <2>1, <2>3, EndObeyed DEF Writing
  <1>10. ASSUME NEW p \in Processes, SaveFails(p) \/ Kill(p) PROVE Obeyed(c)'
    <2>1. GiveUp(p) /\ UNCHANGED <<kept, standing, crossed>>
      BY <1>10 DEF SaveFails, Kill
    <2>2. Obeyed(c)
      BY <1>2, <2>1
    <2>3. place[p] = c /\ at[p] \in Writing => c \in broken'
      BY <2>1, <2>2 DEF GiveUp, Obeyed, Renews
    <2>4. QED
      BY <2>1, <2>2, <2>3, EndObeyed DEF GiveUp
  <1>11. ASSUME NEW p \in Processes, Truncate(p) PROVE Obeyed(c)'
    BY <1>2, <1>11, TruncateObeyed DEF Truncate
  <1>12. ASSUME NEW p \in Processes, Step(p) PROVE Obeyed(c)'
    BY <1>5, <1>6, <1>7, <1>8, <1>9, <1>10, <1>11, <1>12, LogoutObeyed, WriteObeyed DEF Step
  <1>13. QED
    BY <1>3, <1>4, <1>12 DEF Next

\* After a login or a logout that met no other command, the session file says what
\* the user asked for, or a renewal of it, through every overlap of commands that
\* start later: no token from before comes back, and no file after a logout.
THEOREM LastSignInHolds == Spec => []LastSignInStands
  <1>1. Init => SignInsObeyed
    BY DEF Init, SignInsObeyed, Obeyed, Says, Renews, Places
  <1>2. SignInsObeyed => LastSignInStands
    BY DEF SignInsObeyed, Obeyed, Says, LastSignInStands
  <1>3. QED
    BY <1>1, <1>2, SignInsStep, RefreshInvariance, PTL DEF Spec

------------------------------------------------------------------------------
(***************************************************************************)
(* The other file of the commands, config.json: Settings.                  *)
(***************************************************************************)
\* A command that has met no other is the only one at work, config.json can be
\* read, and what the command goes on to write is config.json with its change.
AloneIsExact ==
  \A p \in AtWork \ overlapped :
    /\ AtWork = {p}
    /\ config # TornFile
    /\ change[p] \in Keys \X (Values \cup {Unset})
    /\ cfg[p] = Update(Content(config), change[p][1], change[p][2])
    /\ does[p] = "write" => file[p] = "tmp" /\ tmp = TornFile
    /\ does[p] = "rename" => tmp = cfg[p]

SettingsInv == SettingsTypeOK /\ AloneIsExact

\* The settings of a file that can be read.
LEMMA ContentType ==
  ASSUME NEW f \in Configs \cup {NoFile}
  PROVE  Content(f) \in Configs
  BY SettingsAssumption DEF SettingsAssumption, Content, NoSettings, Configs

\* Changing one setting makes settings again.
LEMMA UpdateType ==
  ASSUME NEW s \in Configs, NEW k \in Keys, NEW v \in Values \cup {Unset}
  PROVE  Update(s, k, v) \in Configs
  BY DEF Update, Configs

------------------------------------------------------------------------------
\* Every action keeps the types.
LEMMA SettingsTypeStep ==
  SettingsTypeOK /\ [SettingsNext]_settingsVars => SettingsTypeOK'
  <1> SUFFICES ASSUME SettingsTypeOK, [SettingsNext]_settingsVars PROVE SettingsTypeOK'
    OBVIOUS
  <1> USE DEF SettingsTypeOK, AtWork
  <1>1. ASSUME NEW p \in Commands, NEW k \in Keys, NEW v \in Values \cup {Unset},
               Change(p, k, v)
        PROVE  SettingsTypeOK'
    <2>1. config \in Configs \cup {NoFile}
      BY <1>1 DEF Change
    <2>2. Update(Content(config), k, v) \in Configs
      BY <2>1, ContentType, UpdateType
    <2>3. cfg' \in [Commands -> Configs]
      BY <1>1, <2>2 DEF Change
    <2>4. change' \in [Commands -> {<<>>} \cup (Keys \X (Values \cup {Unset}))]
      BY <1>1 DEF Change
    <2>5. QED
      BY <1>1, <2>3, <2>4 DEF Change, Proceed
  <1>2. ASSUME NEW p \in Commands, OpenTmp(p) PROVE SettingsTypeOK'
    BY <1>2 DEF OpenTmp, Proceed
  <1>3. ASSUME NEW p \in Commands, WriteTmp(p) PROVE SettingsTypeOK'
    BY <1>3 DEF WriteTmp, Proceed, Written
  <1>4. ASSUME NEW p \in Commands, Finish(p),
               config' \in Configs \cup {NoFile, TornFile}, tmp' \in Configs \cup {NoFile, TornFile},
               file' \in [Commands -> {"tmp", "config", "gone"}],
               \A q \in Commands : file'[q] # "gone" => file[q] # "gone" /\ q # p
        PROVE  SettingsTypeOK'
    <2>1. NoSettings \in Configs
      BY DEF NoSettings, Configs
    <2>2. change' \in [Commands -> {<<>>} \cup (Keys \X (Values \cup {Unset}))]
      BY <1>4 DEF Finish
    <2>3. QED
      BY <1>4, <2>1, <2>2 DEF Finish, Proceed
  <1>5. ASSUME NEW p \in Commands, RenameTmp(p) PROVE SettingsTypeOK'
    BY <1>4, <1>5 DEF RenameTmp
  <1>6. ASSUME NEW p \in Commands, Abandon(p) PROVE SettingsTypeOK'
    BY <1>4, <1>6 DEF Abandon
  <1>7. CASE Repair
    BY <1>7 DEF Repair
  <1>8. CASE UNCHANGED settingsVars
    BY <1>8 DEF settingsVars, settingsLocals
  <1>9. QED
    BY <1>1, <1>2, <1>3, <1>5, <1>6, <1>7, <1>8 DEF SettingsNext

\* A command that ends was not alone with any that goes on.
LEMMA ReturnAlone ==
  ASSUME SettingsInv, NEW p \in Commands, does[p] # "idle", Finish(p)
  PROVE  AtWork' \ overlapped' = {}
  BY DEF SettingsInv, SettingsTypeOK, AloneIsExact, AtWork, Finish, Proceed

\* Every action keeps what a command alone relies on.
LEMMA AloneStep == SettingsInv /\ [SettingsNext]_settingsVars => AloneIsExact'
  <1> SUFFICES ASSUME SettingsInv, [SettingsNext]_settingsVars PROVE AloneIsExact'
    OBVIOUS
  <1> USE DEF SettingsInv
  <1>1. ASSUME NEW p \in Commands, NEW k \in Keys, NEW v \in Values \cup {Unset},
               Change(p, k, v)
        PROVE  AloneIsExact'
    <2>1. AtWork' = AtWork \cup {p}
      BY <1>1 DEF Change, AtWork, Proceed, SettingsTypeOK
    <2>2. CASE AtWork = {}
      <3>1. change'[p] = <<k, v>>
        BY <1>1 DEF Change, SettingsTypeOK
      <3>2. QED
        BY <1>1, <2>1, <2>2, <3>1 DEF Change, AloneIsExact, SettingsTypeOK, Proceed
    <2>3. CASE AtWork # {}
      BY <1>1, <2>1, <2>3 DEF Change, AloneIsExact
    <2>4. QED
      BY <2>2, <2>3
  <1>2. ASSUME NEW p \in Commands, OpenTmp(p) PROVE AloneIsExact'
    <2>1. AtWork' = AtWork /\ p \in AtWork
      BY <1>2 DEF OpenTmp, AtWork, Proceed, SettingsTypeOK
    <2>2. ASSUME NEW q \in AtWork \ overlapped
          PROVE  q = p /\ does'[q] = "write" /\ file'[q] = "tmp" /\ tmp' = TornFile
      BY <1>2, <2>1 DEF OpenTmp, AloneIsExact, SettingsTypeOK, Proceed
    <2>3. QED
      BY <1>2, <2>1, <2>2 DEF OpenTmp, AloneIsExact, Update, Content
  <1>3. ASSUME NEW p \in Commands, WriteTmp(p) PROVE AloneIsExact'
    <2>1. AtWork' = AtWork /\ p \in AtWork
      BY <1>3 DEF WriteTmp, AtWork, Proceed, SettingsTypeOK
    <2>2. ASSUME NEW q \in AtWork \ overlapped
          PROVE  q = p /\ does'[q] = "rename" /\ tmp' = cfg[q] /\ config' = config
      BY <1>3, <2>1 DEF WriteTmp, Written, AloneIsExact, SettingsTypeOK, Proceed
    <2>3. QED
      BY <1>3, <2>1, <2>2 DEF WriteTmp, AloneIsExact, Update, Content
  <1>4. ASSUME NEW p \in Commands, RenameTmp(p) PROVE AloneIsExact'
    BY <1>4, ReturnAlone DEF RenameTmp, AloneIsExact
  <1>5. ASSUME NEW p \in Commands, Abandon(p) PROVE AloneIsExact'
    BY <1>5, ReturnAlone DEF Abandon, AloneIsExact
  <1>6. CASE Repair
    BY <1>6 DEF Repair, AloneIsExact, AtWork
  <1>7. CASE UNCHANGED settingsVars
    BY <1>7 DEF settingsVars, settingsLocals, AloneIsExact, AtWork, Update, Content
  <1>8. QED
    BY <1>1, <1>2, <1>3, <1>4, <1>5, <1>6, <1>7 DEF SettingsNext

\* The inductive invariant of Settings: the types, and what a command that has
\* met no other relies on.
THEOREM SettingsInvariance == SettingsSpec => []SettingsInv
  <1>1. SettingsInit => SettingsInv
    BY DEF SettingsInit, SettingsInv, SettingsTypeOK, AloneIsExact, AtWork, NoSettings, Configs
  <1>2. SettingsInv /\ [SettingsNext]_settingsVars => SettingsInv'
    BY SettingsTypeStep, AloneStep DEF SettingsInv
  <1>3. QED
    BY <1>1, <1>2, PTL DEF SettingsSpec

\* Every variable of Settings has its type in every reachable state.
THEOREM SettingsTypeCorrect == SettingsSpec => []SettingsTypeOK
  BY SettingsInvariance, PTL DEF SettingsInv

------------------------------------------------------------------------------
\* A command that met no other changes config.json once, at the end, by its own
\* setting alone, however many commands there are.
THEOREM UpdatesAlwaysStand == SettingsSpec => UpdatesStand
  <1> DEFINE OwnChange ==
        \A p \in Commands \ overlapped :
          does'[p] # does[p] /\ config' # config =>
            /\ does[p] = "rename"
            /\ config' = Update(Content(config), change[p][1], change[p][2])
  <1>1. SettingsInv /\ [SettingsNext]_settingsVars => [OwnChange]_settingsVars
    <2> SUFFICES ASSUME SettingsInv, [SettingsNext]_settingsVars,
                        NEW p \in Commands \ overlapped, does'[p] # does[p], config' # config
                 PROVE  /\ does[p] = "rename"
                        /\ config' = Update(Content(config), change[p][1], change[p][2])
      OBVIOUS
    <2> USE DEF SettingsInv
    <2>1. ASSUME NEW q \in Commands, WriteTmp(q) PROVE FALSE
      BY <2>1 DEF WriteTmp, Proceed, SettingsTypeOK, AloneIsExact, AtWork
    <2>2. ASSUME NEW q \in Commands, RenameTmp(q)
          PROVE  /\ does[p] = "rename"
                 /\ config' = Update(Content(config), change[p][1], change[p][2])
      BY <2>2 DEF RenameTmp, Finish, Proceed, SettingsTypeOK, AloneIsExact, AtWork
    <2>3. QED
      BY <2>1, <2>2 DEF SettingsNext, Change, OpenTmp, Abandon, Repair, settingsVars, settingsLocals
  <1>2. QED
    BY <1>1, SettingsInvariance, PTL DEF SettingsSpec, UpdatesStand
==============================================================================
