-------------------------- MODULE CoordinatorProofs --------------------------
(***************************************************************************)
(* Proofs about Coordinator, for every value of its constants: any number  *)
(* of users, platforms, concurrent runs, attempts and faults.              *)
(***************************************************************************)
EXTENDS Coordinator, FiniteSetTheorems, TLAPS

\* What the constants' assumption says, in the pieces the provers use.
LEMMA Constants ==
  /\ SharedClient \subseteq Providers
  /\ ClientUser \in Users
  /\ NoCred \notin Creds
  /\ NoUrl \notin Urls
  /\ MaxRetries \in Nat /\ MaxRetries # 0
  /\ MaxLinks \in Nat
  /\ MaxFaults \in Nat
  BY CoordinatorAssumption DEF CoordinatorAssumption

\* A credential is the pair of its user and its provider, and reads an account.
LEMMA Pairs ==
  \A c \in Creds :
    /\ UserOf(c) \in Users /\ ProviderOf(c) \in Providers
    /\ AccountOf(c) \in Creds
  BY Constants DEF Creds, UserOf, ProviderOf, AccountOf

LEMMA TypeOKStep == TypeOK /\ ListedAreLinked /\ BatchFromFeed /\ [Next]_vars => TypeOK'
<1> SUFFICES ASSUME TypeOK, ListedAreLinked, BatchFromFeed, [Next]_vars PROVE TypeOK'
  OBVIOUS
<1> USE Constants, Pairs DEF TypeOK
<1>1. ASSUME NEW c \in Creds, Link(c) PROVE TypeOK'
  BY <1>1 DEF Link, signalVars, listVars, itemVars, platformVars
<1>2. ASSUME NEW c \in Creds, Revoke(c) PROVE TypeOK'
  BY <1>2 DEF Revoke, credVars, signalVars, listVars, itemVars
<1>3. ASSUME NEW c \in Creds, NEW i \in Items, Post(c, i) PROVE TypeOK'
  BY <1>3 DEF Post, credVars, signalVars, listVars, itemVars
<1>4. ASSUME NEW r \in Runs, StartRun(r) PROVE TypeOK'
  BY <1>4 DEF StartRun, Goto, credVars, signalVars, itemVars, platformVars
<1>5. ASSUME NEW r \in Runs, NEW p \in Providers, List(r, p) PROVE TypeOK'
  BY <1>5 DEF List, NextProvider, ActiveCredentials, Listed, credVars, signalVars, itemVars, platformVars
<1>6. ASSUME NEW r \in Runs, NEW p \in Providers, ListFails(r, p) PROVE TypeOK'
  BY <1>6 DEF ListFails, Fault, NextProvider, credVars, signalVars, itemVars, platformVars
<1>7. ASSUME NEW r \in Runs, FinishRun(r) PROVE TypeOK'
  BY <1>7 DEF FinishRun, Goto, credVars, signalVars, listVars, itemVars, platformVars
<1>8. ASSUME NEW r \in Runs, NEW l \in todo[r], Choose(r, l) PROVE TypeOK'
  BY <1>8 DEF Choose, Goto, credVars, signalVars, itemVars, platformVars
<1>9. ASSUME NEW r \in Runs, HarvestNothing(r) PROVE TypeOK'
  BY <1>9 DEF HarvestNothing, Leave, ClearLocals, Goto, Items, credVars, signalVars, listVars, platformVars
<1>10. ASSUME NEW r \in Runs, Harvest(r) PROVE TypeOK'
  <2>1. feed[AccountOf(cur[r].cred)] \in SUBSET Items
    <3>1. cur[r] \in Listed
      BY <1>10 DEF Harvest, ListedAreLinked
    <3> QED BY <3>1 DEF Listed
  <2> QED BY <1>10, <2>1 DEF Harvest, Goto, credVars, signalVars, listVars, platformVars
<1>11. ASSUME NEW r \in Runs, HarvestAuthError(r) PROVE TypeOK'
  BY <1>11 DEF HarvestAuthError, Goto, credVars, signalVars, listVars, itemVars, platformVars
<1>12. ASSUME NEW r \in Runs, HarvestFails(r) PROVE TypeOK'
  <2>1. faults' \in 0 .. MaxFaults
    BY <1>12 DEF HarvestFails, FaultUnless, Fault
  <2>2. CASE attempt[r] + 1 < MaxRetries
    BY <1>12, <2>1, <2>2 DEF HarvestFails, credVars, signalVars, listVars, platformVars
  <2>3. CASE ~ (attempt[r] + 1 < MaxRetries)
    BY <1>12, <2>1, <2>3 DEF HarvestFails, Leave, ClearLocals, Goto, Items, credVars, signalVars, listVars, platformVars
  <2> QED BY <2>2, <2>3
<1>13. ASSUME NEW r \in Runs, Mark(r) PROVE TypeOK'
  <2>1. cur[r].cred \in Creds
    BY <1>13 DEF Mark, ListedAreLinked, Listed
  <2> QED BY <1>13, <2>1 DEF Mark, Leave, ClearLocals, Goto, Items, signalVars, listVars, platformVars
<1>14. ASSUME NEW r \in Runs, MarkFails(r) PROVE TypeOK'
  BY <1>14 DEF MarkFails, Fault, Leave, ClearLocals, Goto, Items, credVars, signalVars, listVars, platformVars
<1>15. ASSUME NEW r \in Runs, NEW i \in batch[r], Skip(r, i) PROVE TypeOK'
  BY <1>15 DEF Skip, Take, credVars, signalVars, listVars, platformVars
<1>16. ASSUME NEW r \in Runs, NEW i \in batch[r], New(r, i) PROVE TypeOK'
  BY <1>16 DEF New, Take, Goto, credVars, signalVars, listVars, platformVars
<1>17. ASSUME NEW r \in Runs, NEW i \in batch[r], DedupFails(r, i) PROVE TypeOK'
  BY <1>17 DEF DedupFails, Fault, Take, credVars, signalVars, listVars, platformVars
<1>18. ASSUME NEW r \in Runs, Process(r) PROVE TypeOK'
  <2>1. UserSignal(r, item[r]) \in Users \X Urls
    BY <1>18 DEF Process, ListedAreLinked, Listed, BatchFromFeed, UserSignal, Items
  <2> QED BY <1>18, <2>1 DEF Process, Goto, credVars, listVars, itemVars, platformVars
<1>19. ASSUME NEW r \in Runs, ProcessFails(r) PROVE TypeOK'
  BY <1>19 DEF ProcessFails, FaultUnless, Fault, Goto, credVars, signalVars, listVars, itemVars, platformVars
<1>20. ASSUME NEW r \in Runs, MoveCursor(r) PROVE TypeOK'
  <2>1. cur[r].cred \in Creds /\ {item[r]} \in SUBSET Items
    BY <1>20 DEF MoveCursor, ListedAreLinked, Listed
  <2>2. lastSeen' \in [Creds -> SUBSET Items]
    BY <1>20, <2>1 DEF MoveCursor
  <2> QED BY <1>20, <2>2 DEF MoveCursor, Leave, ClearLocals, Goto, Items, signalVars, listVars, platformVars
<1>21. ASSUME NEW r \in Runs, MoveCursorFails(r) PROVE TypeOK'
  BY <1>21 DEF MoveCursorFails, Fault, Leave, ClearLocals, Goto, Items, credVars, signalVars, listVars, platformVars
<1>22. ASSUME NEW r \in Runs, Cancel(r) PROVE TypeOK'
  BY <1>22 DEF Cancel, Fault, ClearLocals, Goto, Items, credVars, signalVars, platformVars
<1>23. ASSUME UNCHANGED vars PROVE TypeOK'
  BY <1>23 DEF vars, credVars, signalVars, listVars, itemVars, platformVars
<1> QED
  BY <1>1, <1>2, <1>3, <1>4, <1>5, <1>6, <1>7, <1>8, <1>9, <1>10, <1>11, <1>12,
     <1>13, <1>14, <1>15, <1>16, <1>17, <1>18, <1>19, <1>20, <1>21, <1>22, <1>23
  DEF Next, Environment, RunOnce, HarvestCredential

\* Tokens, feeds and revocations only grow.
LEMMA Monotone ==
  ASSUME TypeOK, [Next]_vars
  PROVE  \A c \in Creds :
           /\ token'[c] >= token[c]
           /\ feed[c] \subseteq feed'[c]
           /\ revoked'[c] >= revoked[c]
<1> USE DEF TypeOK
<1>1. CASE Environment
  BY <1>1 DEF Environment, Link, Revoke, Post, credVars, platformVars
<1>2. CASE UNCHANGED <<token, feed, revoked>>
  BY <1>2
<1>3. CASE \E r \in Runs : StartRun(r) \/ RunOnce(r) \/ Cancel(r)
  BY <1>3
  DEF StartRun, RunOnce, Cancel, List, ListFails, NextProvider, FinishRun, Choose,
      HarvestCredential, HarvestNothing, Harvest, HarvestAuthError, HarvestFails,
      Mark, MarkFails, Skip, New, DedupFails, Take, Process, ProcessFails,
      MoveCursor, MoveCursorFails, credVars, platformVars
<1> QED
  BY <1>1, <1>2, <1>3 DEF Next, vars, credVars, platformVars


(***************************************************************************)
(* What a step does to the locals of one run.  Quiet: nothing.  Left: it   *)
(* is between two credentials.  Else it goes on with one.                  *)
(***************************************************************************)
Quiet(r) ==
  /\ at'[r] = at[r] /\ todo'[r] = todo[r] /\ cur'[r] = cur[r]
  /\ batch'[r] = batch[r] /\ item'[r] = item[r]

Left(r) ==
  /\ at'[r] \in {"idle", "choose"}
  /\ batch[r] = {} \/ at[r] \notin {"idle", "choose"}
  /\ batch'[r] = {}
  /\ \/ todo'[r] \subseteq todo[r]
     \/ \E p \in Providers : todo'[r] = ActiveCredentials(p) /\ UNCHANGED token

\* The row a run goes on with is one of its list, or the one it was at.
Goes(r) ==
  /\ at'[r] \notin {"idle", "choose"}
  /\ todo'[r] \subseteq todo[r]
  /\ \/ cur'[r] \in todo[r] /\ at'[r] = "harvest" /\ batch'[r] = {}
     \/ cur'[r] = cur[r] /\ at[r] \notin {"idle", "choose"}
  /\ at'[r] = "mark" =>
       /\ IsRefused(cur[r]) /\ UNCHANGED revoked
       /\ ProviderOf(cur[r].cred) \notin SharedClient
  /\ \A i \in batch'[r] :
       /\ at'[r] \in {"dedup", "process"}
       /\ i \in batch[r] \/ (i \in feed[AccountOf(cur[r].cred)] /\ cur'[r] = cur[r])
  /\ at'[r] = "process" => item'[r] # NoUrl /\ item'[r] \in batch[r]

LEMMA RunSteps ==
  ASSUME TypeOK, ListedAreLinked, BatchFromFeed, [Next]_vars, NEW r \in Runs
  PROVE  Quiet(r) \/ Left(r) \/ Goes(r)
<1> USE Constants, Pairs DEF TypeOK
<1>1. CASE Environment \/ UNCHANGED vars
  BY <1>1 DEF Environment, Link, Revoke, Post, Quiet, vars, listVars, itemVars
<1>2. ASSUME NEW q \in Runs, q # r, StartRun(q) \/ RunOnce(q) \/ Cancel(q) PROVE Quiet(r)
  BY <1>2
  DEF StartRun, RunOnce, Cancel, List, ListFails, NextProvider, FinishRun, Choose,
      HarvestCredential, HarvestNothing, Harvest, HarvestAuthError, HarvestFails,
      Mark, MarkFails, Skip, New, DedupFails, Take, Process, ProcessFails,
      MoveCursor, MoveCursorFails, Leave, ClearLocals, Goto, Quiet, listVars, itemVars
<1>3. CASE StartRun(r) \/ FinishRun(r) \/ Cancel(r)
  BY <1>3 DEF StartRun, FinishRun, Cancel, ClearLocals, Goto, Left, itemVars, listVars, BatchFromFeed
<1>4. ASSUME NEW p \in Providers, List(r, p) \/ ListFails(r, p) PROVE Left(r)
  BY <1>4 DEF List, ListFails, NextProvider, Left, itemVars, listVars, BatchFromFeed, credVars
<1>5. ASSUME NEW l \in todo[r], Choose(r, l) PROVE Goes(r)
  BY <1>5 DEF Choose, Goto, Goes, itemVars, BatchFromFeed
<1>6. CASE HarvestNothing(r) \/ Mark(r) \/ MarkFails(r) \/ MoveCursor(r) \/ MoveCursorFails(r)
  BY <1>6 DEF HarvestNothing, Mark, MarkFails, MoveCursor, MoveCursorFails, Leave,
      ClearLocals, Goto, Left, listVars
<1>7. CASE HarvestFails(r)
  <2>1. CASE attempt[r] + 1 < MaxRetries
    BY <1>7, <2>1 DEF HarvestFails, Quiet, listVars
  <2>2. CASE ~ (attempt[r] + 1 < MaxRetries)
    BY <1>7, <2>2 DEF HarvestFails, Leave, ClearLocals, Goto, Left, listVars
  <2> QED BY <2>1, <2>2
<1>8. CASE Harvest(r)
  BY <1>8 DEF Harvest, Goto, Goes, listVars
<1>9. CASE HarvestAuthError(r)
  BY <1>9 DEF HarvestAuthError, Goto, Goes, listVars, itemVars, platformVars, BatchFromFeed
<1>10. ASSUME NEW i \in batch[r], Skip(r, i) \/ New(r, i) \/ DedupFails(r, i) PROVE Goes(r)
  BY <1>10 DEF Skip, New, DedupFails, Take, Goto, Goes, listVars
<1>11. CASE Process(r) \/ ProcessFails(r)
  BY <1>11 DEF Process, ProcessFails, Goto, Goes, listVars, itemVars
<1> QED
  BY <1>1, <1>2, <1>3, <1>4, <1>5, <1>6, <1>7, <1>8, <1>9, <1>10, <1>11
  DEF Next, RunOnce, HarvestCredential

\* ListActiveCredentials returns rows that exist.
LEMMA ActiveAreLinked ==
  ASSUME TypeOK, NEW p \in Providers, NEW l \in ActiveCredentials(p)
  PROVE  l \in Listed /\ token[l.cred] # 0
  BY DEF ActiveCredentials, Listed, TypeOK

LEMMA LinkedStep ==
  TypeOK /\ ListedAreLinked /\ BatchFromFeed /\ [Next]_vars => ListedAreLinked'
<1> SUFFICES ASSUME TypeOK, ListedAreLinked, BatchFromFeed, [Next]_vars, NEW r \in Runs
             PROVE  /\ \A l \in todo'[r] : token'[l.cred] # 0
                    /\ at'[r] \notin {"idle", "choose"} =>
                         cur'[r] \in Listed /\ token'[cur'[r].cred] # 0
  BY DEF ListedAreLinked
<1>1. \A c \in Creds : token[c] # 0 => token'[c] # 0
  BY Monotone DEF TypeOK
<1>2. \A l \in todo[r] : l \in Listed /\ l.cred \in Creds /\ token[l.cred] # 0 /\ token'[l.cred] # 0
  BY <1>1 DEF TypeOK, Listed, ListedAreLinked
<1>3. at[r] \notin {"idle", "choose"} =>
        cur[r] \in Listed /\ cur[r].cred \in Creds /\ token'[cur[r].cred] # 0
  BY <1>1 DEF Listed, ListedAreLinked
<1>4. CASE Quiet(r)
  BY <1>2, <1>3, <1>4 DEF Quiet
<1>5. CASE Left(r)
  BY <1>2, <1>5, ActiveAreLinked DEF Left
<1>6. CASE Goes(r)
  BY <1>2, <1>3, <1>6 DEF Goes
<1> QED
  BY <1>4, <1>5, <1>6, RunSteps

LEMMA MarkedStep ==
  TypeOK /\ ListedAreLinked /\ BatchFromFeed /\ MarkedIsRefused /\ [Next]_vars
    => MarkedIsRefused'
<1> SUFFICES ASSUME TypeOK, ListedAreLinked, BatchFromFeed, MarkedIsRefused, [Next]_vars,
                    NEW r \in Runs, at'[r] = "mark"
             PROVE  revoked'[cur'[r].cred] > 0
  BY DEF MarkedIsRefused
<1>1. CASE Quiet(r)
  <2>1. revoked[cur[r].cred] > 0 /\ cur[r].cred \in Creds
    BY <1>1 DEF Quiet, MarkedIsRefused, ListedAreLinked, Listed
  <2> QED BY <1>1, <2>1, Monotone, TypeOKStep DEF Quiet, TypeOK
<1>2. CASE Left(r)
  BY <1>2 DEF Left
<1>3. CASE Goes(r)
  <2>1. /\ cur'[r] = cur[r] /\ at[r] \notin {"idle", "choose"}
        /\ IsRefused(cur[r]) /\ UNCHANGED revoked
        /\ ProviderOf(cur[r].cred) \notin SharedClient
    BY <1>3 DEF Goes
  <2>2. cur[r].cred \in Creds /\ cur[r].token \in Nat \ {0}
    BY <2>1 DEF ListedAreLinked, Listed
  <2>3. revoked[cur[r].cred] >= cur[r].token
    BY <2>1 DEF IsRefused, AccountOf
  <2> QED BY <2>1, <2>2, <2>3 DEF TypeOK
<1> QED
  BY <1>1, <1>2, <1>3, RunSteps

LEMMA BatchStep ==
  TypeOK /\ ListedAreLinked /\ BatchFromFeed /\ [Next]_vars => BatchFromFeed'
<1> SUFFICES ASSUME TypeOK, ListedAreLinked, BatchFromFeed, [Next]_vars, NEW r \in Runs
             PROVE  /\ \A i \in batch'[r] :
                         /\ at'[r] \in {"dedup", "process"}
                         /\ i \in feed'[AccountOf(cur'[r].cred)]
                    /\ at'[r] = "process" =>
                         /\ item'[r] # NoUrl
                         /\ item'[r] \in feed'[AccountOf(cur'[r].cred)]
  BY DEF BatchFromFeed, AccountOf
<1>1. at[r] \notin {"idle", "choose"} =>
        feed[AccountOf(cur[r].cred)] \subseteq feed'[AccountOf(cur[r].cred)]
  BY Pairs, Monotone DEF ListedAreLinked, Listed
<1>2. \A i \in batch[r] :
        /\ at[r] \in {"dedup", "process"}
        /\ i \in feed[AccountOf(cur[r].cred)] /\ i \in feed'[AccountOf(cur[r].cred)]
  BY <1>1 DEF BatchFromFeed
<1>3. at[r] = "process" =>
        item[r] # NoUrl /\ item[r] \in feed'[AccountOf(cur[r].cred)]
  BY <1>1 DEF BatchFromFeed
<1>4. CASE Quiet(r)
  BY <1>2, <1>3, <1>4 DEF Quiet
<1>5. CASE Left(r)
  BY <1>5 DEF Left
<1>6. CASE Goes(r)
  BY <1>1, <1>2, <1>6 DEF Goes
<1> QED
  BY <1>4, <1>5, <1>6, RunSteps

(***************************************************************************)
(* The tables.                                                             *)
(***************************************************************************)

LEMMA FlaggedStep ==
  TypeOK /\ ListedAreLinked /\ BatchFromFeed /\ MarkedIsRefused /\ FlaggedWasRevoked
    /\ [Next]_vars => FlaggedWasRevoked'
<1> SUFFICES ASSUME TypeOK, ListedAreLinked, BatchFromFeed, MarkedIsRefused,
                    FlaggedWasRevoked, [Next]_vars, NEW c \in needsReauth'
             PROVE  revoked'[c] > 0
  BY DEF FlaggedWasRevoked
<1>1. c \in needsReauth \/ \E r \in Runs : at[r] = "mark" /\ c = cur[r].cred
  BY DEF Next, Environment, Link, Revoke, Post,
      StartRun, RunOnce, Cancel, List, ListFails, NextProvider, FinishRun, Choose,
      HarvestCredential, HarvestNothing, Harvest, HarvestAuthError, HarvestFails,
      Mark, MarkFails, Skip, New, DedupFails, Take, Process, ProcessFails,
      MoveCursor, MoveCursorFails, vars, credVars
<1>2. c \in Creds /\ revoked[c] > 0
  BY <1>1 DEF TypeOK, FlaggedWasRevoked, MarkedIsRefused, ListedAreLinked, Listed
<1> QED
  BY <1>2, Monotone, TypeOKStep DEF TypeOK

LEMMA SignalsStep ==
  TypeOK /\ ListedAreLinked /\ BatchFromFeed /\ SignalsFromAccounts /\ [Next]_vars
    => SignalsFromAccounts'
<1> SUFFICES ASSUME TypeOK, ListedAreLinked, BatchFromFeed, SignalsFromAccounts,
                    [Next]_vars, NEW s \in signals'
             PROVE  \E c \in Creds : /\ UserOf(c) = s[1] /\ token'[c] # 0
                                     /\ s[2] \in feed'[AccountOf(c)]
  BY DEF SignalsFromAccounts, UserOf, AccountOf
<1>1. s \in signals \/ \E r \in Runs : at[r] = "process" /\ s = UserSignal(r, item[r])
  BY DEF Next, Environment, Link, Revoke, Post,
      StartRun, RunOnce, Cancel, List, ListFails, NextProvider, FinishRun, Choose,
      HarvestCredential, HarvestNothing, Harvest, HarvestAuthError, HarvestFails,
      Mark, MarkFails, Skip, New, DedupFails, Take, Process, ProcessFails,
      MoveCursor, MoveCursorFails, vars, signalVars
<1>2. \E c \in Creds : /\ UserOf(c) = s[1] /\ token[c] # 0
                       /\ s[2] \in feed[AccountOf(c)]
  <2>1. CASE s \in signals
    BY <2>1 DEF SignalsFromAccounts
  <2>2. ASSUME NEW r \in Runs, at[r] = "process", s = UserSignal(r, item[r])
        PROVE  \E c \in Creds : /\ UserOf(c) = s[1] /\ token[c] # 0
                                /\ s[2] \in feed[AccountOf(c)]
    <3>1. cur[r].cred \in Creds /\ token[cur[r].cred] # 0
      BY <2>2 DEF ListedAreLinked, Listed
    <3>2. s[1] = UserOf(cur[r].cred) /\ s[2] \in feed[AccountOf(cur[r].cred)]
      BY <2>2 DEF UserSignal, BatchFromFeed
    <3> QED BY <3>1, <3>2
  <2> QED BY <1>1, <2>1, <2>2
<1>3. PICK c \in Creds : /\ UserOf(c) = s[1] /\ token[c] # 0
                         /\ s[2] \in feed[AccountOf(c)]
  BY <1>2
<1>4. token'[c] # 0
  BY <1>3, Monotone DEF TypeOK
<1>5. s[2] \in feed'[AccountOf(c)]
  BY <1>3, Pairs, Monotone
<1> QED
  BY <1>3, <1>4, <1>5

(***************************************************************************)
(* Deliveries.                                                             *)
(***************************************************************************)

\* A run comes to Process with an item that the table does not hold.
Stays(r) ==
  at'[r] = "process" =>
    \/ at[r] = "process" /\ cur'[r] = cur[r] /\ item'[r] = item[r]
    \/ <<UserOf(cur'[r].cred), item'[r]>> \notin signals

LEMMA ProcessIsNew ==
  ASSUME TypeOK, [Next]_vars, NEW r \in Runs
  PROVE  Stays(r)
<1> USE Constants DEF TypeOK
<1>1. CASE Environment \/ UNCHANGED vars
  BY <1>1 DEF Environment, Link, Revoke, Post, Stays, vars, itemVars
<1>2. ASSUME NEW q \in Runs, q # r, StartRun(q) \/ RunOnce(q) \/ Cancel(q) PROVE Stays(r)
  BY <1>2
  DEF StartRun, RunOnce, Cancel, List, ListFails, NextProvider, FinishRun, Choose,
      HarvestCredential, HarvestNothing, Harvest, HarvestAuthError, HarvestFails,
      Mark, MarkFails, Skip, New, DedupFails, Take, Process, ProcessFails,
      MoveCursor, MoveCursorFails, Leave, ClearLocals, Goto, Stays, itemVars
<1>3. ASSUME NEW i \in batch[r], New(r, i) PROVE Stays(r)
  BY <1>3 DEF New, Take, Known, UserSignal, Stays
<1>4. ASSUME NEW i \in batch[r], Skip(r, i) \/ DedupFails(r, i) PROVE Stays(r)
  BY <1>4 DEF Skip, DedupFails, Take, Stays
<1>5. CASE StartRun(r) \/ FinishRun(r) \/ Cancel(r)
  BY <1>5 DEF StartRun, FinishRun, Cancel, Goto, Stays
<1>6. ASSUME NEW p \in Providers, List(r, p) \/ ListFails(r, p) PROVE Stays(r)
  BY <1>6 DEF List, ListFails, NextProvider, Stays
<1>7. ASSUME NEW l \in todo[r], Choose(r, l) PROVE Stays(r)
  BY <1>7 DEF Choose, Goto, Stays
<1>8. CASE \/ HarvestNothing(r) \/ Mark(r) \/ MarkFails(r)
           \/ MoveCursor(r) \/ MoveCursorFails(r) \/ Harvest(r)
           \/ HarvestAuthError(r) \/ Process(r) \/ ProcessFails(r)
  BY <1>8 DEF HarvestNothing, Mark, MarkFails, MoveCursor, MoveCursorFails, Harvest,
      HarvestAuthError, Process, ProcessFails, Leave, Goto, Stays
<1>9. CASE HarvestFails(r)
  <2>1. at'[r] = "harvest" \/ at'[r] = "choose"
    BY <1>9 DEF HarvestFails, Leave, Goto
  <2> QED BY <2>1 DEF Stays
<1> QED
  BY <1>1, <1>2, <1>3, <1>4, <1>5, <1>6, <1>7, <1>8, <1>9
  DEF Next, RunOnce, HarvestCredential

\* Nothing but Process changes the signals table.
LEMMA OnlyProcessDelivers ==
  ASSUME [Next]_vars
  PROVE  \/ UNCHANGED signalVars
         \/ \E r \in Runs : Process(r)
  BY DEF Next, Environment, Link, Revoke, Post,
      StartRun, RunOnce, Cancel, List, ListFails, NextProvider, FinishRun, Choose,
      HarvestCredential, HarvestNothing, Harvest, HarvestAuthError, HarvestFails,
      Mark, MarkFails, Skip, New, DedupFails, Take, ProcessFails,
      MoveCursor, MoveCursorFails, vars, credVars

LEMMA RunsAreFinite ==
  ASSUME IsFiniteSet(Requests)
  PROVE  /\ IsFiniteSet(Runs) /\ Cardinality(Runs) \in Nat
         /\ \A S \in SUBSET Runs :
              /\ IsFiniteSet(S) /\ Cardinality(S) \in Nat
              /\ Cardinality(S) <= Cardinality(Runs)
<1>1. IsFiniteSet({Ticker})
  BY FS_Singleton
<1>2. IsFiniteSet(Runs)
  BY <1>1, FS_Union DEF Runs
<1> QED
  BY <1>2, FS_Subset, FS_CardinalityType

LEMMA DeliveriesInit ==
  ASSUME IsFiniteSet(Requests), Init
  PROVE  DeliveriesAccounted
<1> SUFFICES ASSUME NEW d \in Users \X Urls
             PROVE  /\ deliveries[d] = 0
                    /\ deliveries[d] + Cardinality(Delivering(d)) <= Cardinality(Runs)
  BY DEF DeliveriesAccounted
<1>1. deliveries[d] = 0
  BY DEF Init
<1>2. Delivering(d) \in SUBSET Runs
  BY DEF Delivering
<1> QED
  BY <1>1, <1>2, RunsAreFinite

LEMMA DeliveriesStep ==
  ASSUME IsFiniteSet(Requests), TypeOK, DeliveriesAccounted, [Next]_vars
  PROVE  DeliveriesAccounted'
<1> SUFFICES ASSUME NEW d \in Users \X Urls
             PROVE  /\ d \notin signals' => deliveries'[d] = 0
                    /\ deliveries'[d] + Cardinality(Delivering(d)') <= Cardinality(Runs)
  BY DEF DeliveriesAccounted
<1>1. /\ deliveries[d] \in Nat
      /\ d \notin signals => deliveries[d] = 0
      /\ deliveries[d] + Cardinality(Delivering(d)) <= Cardinality(Runs)
  BY DEF TypeOK, DeliveriesAccounted
<1>2. Delivering(d) \in SUBSET Runs /\ Delivering(d)' \in SUBSET Runs
  BY DEF Delivering
<1>3. /\ IsFiniteSet(Delivering(d)) /\ Cardinality(Delivering(d)) \in Nat
      /\ Cardinality(Delivering(d)') \in Nat
      /\ Cardinality(Delivering(d)') <= Cardinality(Runs)
      /\ Cardinality(Runs) \in Nat
  BY <1>2, RunsAreFinite
<1>4. ASSUME d \in signals PROVE Delivering(d)' \in SUBSET Delivering(d)
  BY <1>4, ProcessIsNew DEF Delivering, Stays, UserSignal
<1>5. d \in signals => Cardinality(Delivering(d)') <= Cardinality(Delivering(d))
  BY <1>3, <1>4, FS_Subset
<1>6. CASE UNCHANGED signalVars
  <2>1. signals' = signals /\ deliveries' = deliveries
    BY <1>6 DEF signalVars
  <2>2. CASE d \in signals
    BY <1>1, <1>3, <1>5, <2>1, <2>2
  <2>3. CASE d \notin signals
    BY <1>1, <1>3, <2>1, <2>3
  <2> QED BY <2>2, <2>3
<1>7. ASSUME NEW r \in Runs, Process(r), UserSignal(r, item[r]) = d
      PROVE  /\ d \in signals'
             /\ deliveries'[d] + Cardinality(Delivering(d)') <= Cardinality(Runs)
  <2>1. d \in signals' /\ deliveries'[d] = deliveries[d] + 1
    BY <1>7 DEF Process, TypeOK
  <2>2. r \in Delivering(d)
    BY <1>7 DEF Process, Delivering
  <2>3. Delivering(d)' \in SUBSET (Delivering(d) \ {r})
    BY <1>7 DEF Process, Goto, itemVars, Delivering, UserSignal, TypeOK
  <2>4. /\ IsFiniteSet(Delivering(d) \ {r})
        /\ Cardinality(Delivering(d) \ {r}) = Cardinality(Delivering(d)) - 1
    BY <1>3, <2>2, FS_RemoveElement
  <2>5. Cardinality(Delivering(d)') <= Cardinality(Delivering(d)) - 1
    BY <2>3, <2>4, FS_Subset
  <2> QED BY <1>1, <1>3, <2>1, <2>5
<1>8. ASSUME NEW r \in Runs, Process(r), UserSignal(r, item[r]) # d
      PROVE  /\ d \in signals' <=> d \in signals
             /\ deliveries'[d] = deliveries[d]
  BY <1>8 DEF Process, TypeOK
<1> QED
  BY <1>1, <1>3, <1>5, <1>6, <1>7, <1>8, OnlyProcessDelivers

(***************************************************************************)
(* The theorems.                                                           *)
(***************************************************************************)

\* No order of runs, links, revocations and faults leaves the states the
\* coordinator is meant to be in.
THEOREM CoordinatorInvariance == Spec => []InductiveInvariant
<1>1. Init => InductiveInvariant
  <2> SUFFICES ASSUME Init PROVE InductiveInvariant
    OBVIOUS
  <2>1. TypeOK
    BY Constants DEF Init, TypeOK, Items
  <2> QED
    BY <2>1 DEF Init, InductiveInvariant, FlaggedWasRevoked, ListedAreLinked,
        MarkedIsRefused, BatchFromFeed, SignalsFromAccounts
<1>2. InductiveInvariant /\ [Next]_vars => InductiveInvariant'
  BY TypeOKStep, LinkedStep, MarkedStep, BatchStep, FlaggedStep, SignalsStep
  DEF InductiveInvariant
<1> QED
  BY <1>1, <1>2, PTL DEF Spec

\* Every variable keeps its type; in particular no run makes more than
\* MaxRetries attempts at a credential.
THEOREM CoordinatorTypeCorrect == Spec => []TypeOK
<1>1. InductiveInvariant => TypeOK
  BY DEF InductiveInvariant
<1> QED
  BY <1>1, CoordinatorInvariance, PTL

\* MarkNeedsReauth is only ever reached for an account that its platform has
\* refused: transient errors, however many, never take a credential out.
THEOREM OnlyRefusedAreFlagged == Spec => []FlaggedWasRevoked
<1>1. InductiveInvariant => FlaggedWasRevoked
  BY DEF InductiveInvariant
<1> QED
  BY <1>1, CoordinatorInvariance, PTL

\* A user's signals come from accounts that were harvested for credentials of that
\* user, whatever runs overlap, and whether or not a provider's client is shared.
THEOREM SignalsAsHarvested == Spec => []SignalsFromAccounts
<1>1. InductiveInvariant => SignalsFromAccounts
  BY DEF InductiveInvariant
<1> QED
  BY <1>1, CoordinatorInvariance, PTL

\* Tickers and requests that run together hand an item to the synthesizer at most
\* once each, for any number of them and however they interleave.
THEOREM RunsDeliverOnceEach ==
  ASSUME IsFiniteSet(Requests)
  PROVE  Spec => []DeliveredOncePerRun
<1>1. Init => DeliveriesAccounted
  BY DeliveriesInit
<1>2. InductiveInvariant /\ DeliveriesAccounted /\ [Next]_vars => DeliveriesAccounted'
  BY DeliveriesStep DEF InductiveInvariant
<1>3. InductiveInvariant /\ DeliveriesAccounted => DeliveredOncePerRun
  <2> SUFFICES ASSUME InductiveInvariant, DeliveriesAccounted, NEW d \in Users \X Urls
               PROVE  deliveries[d] <= Cardinality(Runs)
    BY DEF DeliveredOncePerRun
  <2>1. Delivering(d) \in SUBSET Runs
    BY DEF Delivering
  <2> QED
    BY <2>1, RunsAreFinite DEF InductiveInvariant, TypeOK, DeliveriesAccounted
<1> QED
  BY <1>1, <1>2, <1>3, CoordinatorInvariance, PTL DEF Spec

\* Where nobody posts /api/harvest, the ticker's runs, one after the other, hand an
\* item to the synthesizer once, however often the platform lists it.
THEOREM TickerDeliversOnce ==
  ASSUME Requests = {}
  PROVE  Spec => []DeliveredOnce
<1>1. IsFiniteSet(Requests) /\ Cardinality(Runs) = 1
  BY FS_EmptySet, FS_Singleton DEF Runs
<1>2. DeliveredOncePerRun => DeliveredOnce
  BY <1>1 DEF DeliveredOncePerRun, DeliveredOnce
<1>3. Spec => []DeliveredOncePerRun
  BY <1>1, RunsDeliverOnceEach
<1> QED
  BY <1>2, <1>3, PTL
\* Accounts stay linked and go on showing what they have shown.
LEMMA ShownGrows ==
  ASSUME TypeOK, [Next]_vars
  PROVE  Shown \subseteq Shown'
<1> SUFFICES ASSUME NEW s \in Shown PROVE s \in Shown'
  OBVIOUS
<1>1. PICK c \in Creds :
        UserOf(c) = s[1] /\ token[c] # 0 /\ s[2] \in feed[AccountOf(c)]
  BY DEF Shown
<1>2. AccountOf(c) \in Creds
  BY Constants, Pairs DEF AccountOf
<1>3. token'[c] # 0 /\ s[2] \in feed'[AccountOf(c)]
  BY <1>1, <1>2, Monotone DEF TypeOK
<1> QED
  BY <1>1, <1>3 DEF Shown

\* A call of Process delivers what its credential's account shows, and there are
\* fewer deliveries of it yet than runs, since this run is still to deliver.
LEMMA ProcessDelivers ==
  ASSUME IsFiniteSet(Requests), InductiveInvariant, DeliveriesAccounted,
         NEW r \in Runs, Process(r)
  PROVE  \E s \in Shown : Promise!Deliver(s)
<1> DEFINE s == UserSignal(r, item[r])
           c == cur[r].cred
<1>1. at[r] = "process" /\ deliveries' = [deliveries EXCEPT ![s] = @ + 1]
  BY DEF Process
<1>2. c \in Creds /\ token[c] # 0 /\ item[r] # NoUrl /\ item[r] \in feed[AccountOf(c)]
  BY <1>1 DEF InductiveInvariant, ListedAreLinked, BatchFromFeed, Listed
<1>3. s = <<UserOf(c), item[r]>> /\ s \in Users \X Urls
  BY <1>2, Pairs DEF UserSignal, InductiveInvariant, TypeOK, Items
<1>4. s \in Shown
  BY <1>2, <1>3 DEF Shown
<1>5. deliveries[s] < Cardinality(Runs)
  <2>1. r \in Delivering(s) /\ Delivering(s) \in SUBSET Runs
    BY <1>1 DEF Delivering
  <2>2. IsFiniteSet(Delivering(s)) /\ Cardinality(Delivering(s)) \in Nat
        /\ Cardinality(Runs) \in Nat
    BY <2>1, RunsAreFinite
  <2>3. Cardinality(Delivering(s)) # 0
    BY <2>1, <2>2, FS_EmptySet
  <2>4. deliveries[s] \in Nat
        /\ deliveries[s] + Cardinality(Delivering(s)) <= Cardinality(Runs)
    BY <1>3 DEF DeliveriesAccounted, InductiveInvariant, TypeOK
  <2> QED BY <2>2, <2>3, <2>4
<1>6. Shown' = Shown
  BY DEF Process, Shown, platformVars, credVars
<1> QED
  BY <1>1, <1>4, <1>5, <1>6 DEF Promise!Deliver

\* Whatever runs interleave and whatever fails: what reaches Process is shown by an
\* account that the user has linked, and reaches it once per run at the most.
THEOREM DeliveryImplemented ==
  ASSUME IsFiniteSet(Requests)
  PROVE  Spec => ImplementsDelivery
<1>1. Init => Promise!Init
  BY DEF Init, Promise!Init, Shown
<1>2. InductiveInvariant /\ DeliveriesAccounted /\ [Next]_vars
        => [Promise!Next]_<<Shown, deliveries>>
  <2> SUFFICES ASSUME InductiveInvariant, DeliveriesAccounted, [Next]_vars
               PROVE  Promise!Next
    OBVIOUS
  <2>1. CASE UNCHANGED signalVars
    BY <2>1, ShownGrows DEF InductiveInvariant, Promise!Next, Promise!Show, signalVars
  <2>2. CASE \E r \in Runs : Process(r)
    BY <2>2, ProcessDelivers DEF Promise!Next
  <2> QED BY <2>1, <2>2, OnlyProcessDelivers
<1>3. Init => DeliveriesAccounted
  BY DeliveriesInit
<1>4. InductiveInvariant /\ DeliveriesAccounted /\ [Next]_vars => DeliveriesAccounted'
  BY DeliveriesStep DEF InductiveInvariant
<1> QED
  BY <1>1, <1>2, <1>3, <1>4, CoordinatorInvariance, PTL
  DEF Spec, ImplementsDelivery, Promise!Spec
------------------------------------------------------------------------------
(***************************************************************************)
(* Why a cycle ends.  What a run has still to do gets less with each of    *)
(* its steps: providers to list, rows listed, how far it is with the row,  *)
(* attempts at it, items harvested.  The sets are finite, attempts bounded.*)
(***************************************************************************)
Fewer(S, T) == S \subseteq T /\ S # T

\* How far a run is from being done with the row.
Distance(step) ==
  CASE step = "idle" -> 0
    [] step = "choose" -> 1
    [] step \in {"mark", "dedup", "process"} -> 2
    [] step = "harvest" -> 3

LessOfRow(r) ==
  \/ Distance(at'[r]) < Distance(at[r])
  \/ at[r] = "harvest" /\ at'[r] = "harvest" /\ attempt'[r] > attempt[r]
  \/ at'[r] \in {"dedup", "process"} /\ at[r] = "dedup" /\ Fewer(batch'[r], batch[r])
  \/ at'[r] = "dedup" /\ at[r] = "process" /\ batch'[r] = batch[r]

LessToDo(r) ==
  \/ Fewer(unlisted'[r], unlisted[r])
  \/ /\ unlisted'[r] = unlisted[r]
     /\ \/ Fewer(todo'[r], todo[r])
        \/ todo'[r] = todo[r] /\ LessOfRow(r)

WorkOf(r) == <<at[r], unlisted[r], todo[r], attempt[r], batch[r]>>

CyclesWindDown ==
  \A r \in Runs : at[r] # "idle" =>
    /\ RunOnce(r) => LessToDo(r)
    /\ LessToDo(r) \/ at'[r] = "idle" \/ WorkOf(r)' = WorkOf(r)

\* The rows a run has to do with.
InHand(r) == {l.cred : l \in todo[r] \cup {cur[r]}}

FlaggedStaysOff ==
  \A c \in needsReauth :
    /\ c \in needsReauth'
    /\ \A r \in Runs : c \in InHand(r)' => c \in InHand(r)

LEMMA OwnStepIsProgress ==
  ASSUME TypeOK, NEW r \in Runs, RunOnce(r)
  PROVE  LessToDo(r)
<1> USE DEF TypeOK, LessToDo, LessOfRow, Fewer, Distance
<1>1. ASSUME NEW p \in Providers, List(r, p) \/ ListFails(r, p) PROVE LessToDo(r)
  BY <1>1 DEF List, ListFails, NextProvider
<1>2. CASE FinishRun(r)
  BY <1>2 DEF FinishRun, Goto, listVars
<1>3. ASSUME NEW l \in todo[r], Choose(r, l) PROVE LessToDo(r)
  BY <1>3 DEF Choose
<1>4. ASSUME at[r] \in {"harvest", "mark", "dedup"}, Leave(r), UNCHANGED listVars
      PROVE  LessToDo(r)
  <2>1. at'[r] = "choose" /\ unlisted'[r] = unlisted[r] /\ todo'[r] = todo[r]
    BY <1>4 DEF Leave, Goto, listVars
  <2> QED BY <1>4, <2>1
<1>5. CASE HarvestNothing(r) \/ Mark(r) \/ MarkFails(r) \/ MoveCursor(r) \/ MoveCursorFails(r)
  BY <1>4, <1>5 DEF HarvestNothing, Mark, MarkFails, MoveCursor, MoveCursorFails
<1>6. CASE HarvestFails(r)
  <2>1. CASE attempt[r] + 1 < MaxRetries
    BY <1>6, <2>1 DEF HarvestFails, listVars
  <2>2. CASE ~ (attempt[r] + 1 < MaxRetries)
    BY <1>4, <1>6, <2>2 DEF HarvestFails
  <2> QED BY <2>1, <2>2
<1>7. CASE Harvest(r) \/ HarvestAuthError(r)
  BY <1>7 DEF Harvest, HarvestAuthError, Goto, listVars
<1>8. ASSUME NEW i \in batch[r], Skip(r, i) \/ New(r, i) \/ DedupFails(r, i)
      PROVE  LessToDo(r)
  BY <1>8 DEF Skip, New, DedupFails, Take, Goto, listVars
<1>9. CASE Process(r) \/ ProcessFails(r)
  BY <1>9 DEF Process, ProcessFails, Goto, listVars, itemVars
<1> QED
  BY <1>1, <1>2, <1>3, <1>5, <1>6, <1>7, <1>8, <1>9 DEF RunOnce, HarvestCredential

\* Users, platforms and other runs give a run nothing to do.
LEMMA OthersAddNoWork ==
  ASSUME TypeOK, NEW r \in Runs, at[r] # "idle", Next, ~ RunOnce(r)
  PROVE  at'[r] = "idle" \/ UNCHANGED <<WorkOf(r), cur[r]>>
<1> USE DEF TypeOK, WorkOf
<1>1. CASE Environment
  BY <1>1 DEF Environment, Link, Revoke, Post, listVars, itemVars
<1>2. ASSUME NEW q \in Runs, q # r, StartRun(q) \/ RunOnce(q) \/ Cancel(q)
      PROVE  UNCHANGED <<WorkOf(r), cur[r]>>
  BY <1>2
  DEF StartRun, RunOnce, Cancel, List, ListFails, NextProvider, FinishRun, Choose,
      HarvestCredential, HarvestNothing, Harvest, HarvestAuthError, HarvestFails,
      Mark, MarkFails, Skip, New, DedupFails, Take, Process, ProcessFails,
      MoveCursor, MoveCursorFails, Leave, ClearLocals, Goto, listVars, itemVars
<1>3. CASE StartRun(r) \/ Cancel(r)
  BY <1>3 DEF StartRun, Cancel, Goto
<1> QED
  BY <1>1, <1>2, <1>3 DEF Next

\* A run of RunOnce makes no step that does not bring it nearer to its end, however
\* many attempts fail, items are poisoned and other runs interleave.
THEOREM CyclesMakeProgress == Spec => [][CyclesWindDown]_vars
<1>1. TypeOK /\ [Next]_vars => [CyclesWindDown]_vars
  BY OwnStepIsProgress, OthersAddNoWork DEF CyclesWindDown
<1> QED
  BY <1>1, CoordinatorTypeCorrect, PTL DEF Spec
LEMMA FlaggedNotListed ==
  ASSUME TypeOK, ListedAreLinked, Next, NEW c \in needsReauth, NEW r \in Runs, c \in InHand(r)'
  PROVE  c \in InHand(r)
<1>1. PICK l \in todo'[r] \cup {cur'[r]} : c = l.cred
  BY DEF InHand
<1>2. c # NoCred
  BY Constants DEF TypeOK
<1>3. CASE UNCHANGED <<todo[r], cur[r]>>
  BY <1>1, <1>3 DEF InHand
<1>4. CASE Environment
  BY <1>3, <1>4 DEF Environment, Link, Revoke, Post, listVars
<1>5. ASSUME NEW q \in Runs, q # r, StartRun(q) \/ RunOnce(q) \/ Cancel(q)
      PROVE  c \in InHand(r)
  <2>1. UNCHANGED <<todo[r], cur[r]>>
    BY <1>5
    DEF StartRun, RunOnce, Cancel, List, ListFails, NextProvider, FinishRun, Choose,
        HarvestCredential, HarvestNothing, Harvest, HarvestAuthError, HarvestFails,
        Mark, MarkFails, Skip, New, DedupFails, Take, Process, ProcessFails,
        MoveCursor, MoveCursorFails, Leave, ClearLocals, Goto, listVars, TypeOK
  <2> QED BY <1>3, <2>1
<1>6. ASSUME NEW p \in Providers, List(r, p) PROVE c \in InHand(r)
  <2>1. todo'[r] = ActiveCredentials(p) /\ cur'[r] = cur[r]
    BY <1>6 DEF List, NextProvider, TypeOK
  <2>2. l = cur[r]
    BY <1>1, <2>1 DEF ActiveCredentials
  <2> QED BY <1>1, <2>2 DEF InHand
<1>7. ASSUME NEW k \in todo[r], Choose(r, k) PROVE c \in InHand(r)
  <2>1. l \in todo[r]
    BY <1>1, <1>7 DEF Choose, TypeOK
  <2> QED BY <1>1, <2>1 DEF InHand
<1>8. ASSUME cur'[r] = NoneListed, todo'[r] \subseteq todo[r] PROVE c \in InHand(r)
  BY <1>1, <1>2, <1>8 DEF InHand, NoneListed
<1>9. CASE HarvestFails(r)
  <2>1. CASE attempt[r] + 1 < MaxRetries
    BY <1>3, <1>9, <2>1 DEF HarvestFails, listVars
  <2>2. CASE ~ (attempt[r] + 1 < MaxRetries)
    BY <1>8, <1>9, <2>2 DEF HarvestFails, Leave, ClearLocals, listVars, TypeOK
  <2> QED BY <2>1, <2>2
<1>10. CASE HarvestNothing(r) \/ Mark(r) \/ MarkFails(r) \/ MoveCursor(r) \/ MoveCursorFails(r)
            \/ Cancel(r)
  <2>1. cur'[r] = NoneListed /\ todo'[r] \subseteq todo[r]
    BY <1>10 DEF HarvestNothing, Mark, MarkFails, MoveCursor, MoveCursorFails, Cancel, Leave,
       ClearLocals, listVars, TypeOK
  <2> QED BY <1>8, <2>1
<1>11. CASE StartRun(r) \/ FinishRun(r) \/ Harvest(r) \/ HarvestAuthError(r)
            \/ Process(r) \/ ProcessFails(r)
            \/ (\E p \in Providers : ListFails(r, p))
            \/ (\E i \in batch[r] : Skip(r, i) \/ New(r, i) \/ DedupFails(r, i))
  BY <1>3, <1>11 DEF StartRun, FinishRun, Harvest, HarvestAuthError, Process, ProcessFails,
     ListFails, NextProvider, Skip, New, DedupFails, Take, listVars
<1> QED
  BY <1>4, <1>5, <1>6, <1>7, <1>9, <1>10, <1>11 DEF Next, RunOnce, HarvestCredential

\* The flag is never taken back, and no run lists a flagged row: those that hold it
\* from before come to it once more at most, as each step brings them nearer to
\* their end.
THEOREM FlaggedAreNotListed == Spec => [][FlaggedStaysOff]_vars
<1>1. TypeOK /\ [Next]_vars => needsReauth \subseteq needsReauth'
  <2> SUFFICES ASSUME TypeOK, Next PROVE needsReauth \subseteq needsReauth'
    BY DEF vars, credVars
  <2> QED
    BY DEF Next, Environment, Link, Revoke, Post, StartRun, RunOnce, Cancel, List, ListFails,
       NextProvider, FinishRun, Choose, HarvestCredential, HarvestNothing, Harvest,
       HarvestAuthError, HarvestFails, Mark, MarkFails, Skip, New, DedupFails, Take, Process,
       ProcessFails, MoveCursor, MoveCursorFails, credVars
<1>2. InductiveInvariant /\ [Next]_vars => [FlaggedStaysOff]_vars
  BY <1>1, FlaggedNotListed DEF FlaggedStaysOff, InductiveInvariant
<1> QED
  BY <1>2, CoordinatorInvariance, PTL DEF Spec
==============================================================================
