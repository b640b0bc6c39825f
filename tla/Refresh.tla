-------------------------------- MODULE Refresh --------------------------------
(***************************************************************************)
(* Refresh tokens that die when they are used.  A credential's row holds   *)
(* the token of an OAuth2 provider (auth/oauth2_refresher.go); the file    *)
(* session.json holds the Bluesky session that every command renews        *)
(* (cli/bluesky_resolve.go), and that login and logout write and remove    *)
(* (config/config.go).  Commands run at once, fail and are killed.         *)
(***************************************************************************)
EXTENDS Integers

CONSTANTS
  Processes,
  Rows,      \* credentials in the database
  Rotating,  \* those whose provider gives a new refresh token with each access token
  Files,     \* Bluesky sessions, one per machine
  MaxTokens  \* bound: refresh tokens issued

Places == Rows \cup Files

ASSUME RefreshAssumption ==
  /\ Rotating \subseteq Rows /\ Rows \cap Files = {}
  /\ MaxTokens \in Nat

NoToken == 0  \* no file; a row's token without a refresh token
Torn == -1    \* a file cut short

VARIABLES
  kept,      \* what each place holds: a refresh token, NoToken or Torn
  issued,    \* refresh tokens issued; they are numbered
  next,      \* the token each was exchanged for; NoToken while it is alive
  at,        \* what each process does next
  place,     \* the credential or the session it works on
  held,      \* the token it has read
  got,       \* the token it has been given and has not saved
  \* Observers.
  lost,      \* tokens that were given, and that nobody could save
  unlinked,  \* the processes whose open file was removed
  standing,  \* what a file may hold after the user's last login or logout
  crossed,   \* the files whose last login or logout met a command at work
  broken     \* the files a writer left torn

locals == <<at, place, held, got>>
vars == <<kept, issued, next, locals, lost, unlinked, standing, crossed, broken>>

Tokens == 1 .. MaxTokens

Writing == {"write", "write login"}

Init ==
  /\ kept = [c \in Places |-> NoToken]
  /\ issued = 0
  /\ next = [t \in Tokens |-> NoToken]
  /\ at = [p \in Processes |-> "idle"]
  /\ place \in [Processes -> Places]
  /\ held = [p \in Processes |-> NoToken]
  /\ got = [p \in Processes |-> NoToken]
  /\ lost = {} /\ unlinked = {}
  /\ standing = [c \in Files |-> {NoToken}]
  /\ crossed = {} /\ broken = {}
------------------------------------------------------------------------------
Goto(p, step) == at' = [at EXCEPT ![p] = step]

Return(p) ==
  /\ Goto(p, "idle")
  /\ held' = [held EXCEPT ![p] = NoToken]
  /\ got' = [got EXCEPT ![p] = NoToken]
  /\ unlinked' = unlinked \ {p}
  /\ UNCHANGED place

\* The process ends with an error, and what it was given goes with it.
GiveUp(p) ==
  /\ Return(p)
  /\ lost' = lost \cup ({got[p]} \ {NoToken})
  /\ broken' = broken \cup {c \in Files : c = place[p] /\ at[p] \in Writing /\ p \notin unlinked}

Kill(p) ==
  /\ at[p] # "idle"
  /\ GiveUp(p)
  /\ UNCHANGED <<kept, issued, next, standing, crossed>>

\* The other commands that have to do with the file.
Busy(p, c) == {q \in Processes \ {p} : at[q] # "idle" /\ place[q] = c}

\* What the user asked for last is what the file should say.
Stands(p, c, tokens, undone) ==
  /\ standing' = [standing EXCEPT ![c] = tokens]
  /\ crossed' = IF undone \/ Busy(p, c) # {} THEN crossed \cup {c} ELSE crossed \ {c}

Issue(t) ==
  /\ issued < MaxTokens
  /\ issued' = issued + 1
  /\ IF t = NoToken THEN UNCHANGED next
                    ELSE next' = [next EXCEPT ![t] = issued + 1]

------------------------------------------------------------------------------
(***************************************************************************)
(* Reading what is kept.                                                   *)
(***************************************************************************)
\* The user links a provider, with a token of his own.
Link(c) ==
  /\ c \in Rows
  /\ Issue(NoToken)
  /\ kept' = [kept EXCEPT ![c] = issued + 1]
  /\ UNCHANGED <<locals, lost, unlinked, standing, crossed, broken>>

Read(p, c) ==
  /\ at[p] = "idle"
  /\ Goto(p, "refresh")
  /\ place' = [place EXCEPT ![p] = c]
  /\ held' = [held EXCEPT ![p] = kept[c]]
  /\ UNCHANGED <<kept, issued, next, got, lost, unlinked, standing, crossed, broken>>

ReadCredential(p, c) == c \in Rows /\ Read(p, c)

\* Mutant of LoadSession: what cannot be parsed is taken as it is.
LoadSessionUnparsed(p, c) ==
  /\ c \in Files
  /\ kept[c] # NoToken
  /\ Read(p, c)

\* The command fails, and nothing changes, without a file or with a torn one.
LoadSession(p, c) ==
  /\ c \in Files
  /\ kept[c] \notin {NoToken, Torn}
  /\ Read(p, c)

------------------------------------------------------------------------------
(***************************************************************************)
(* Renewing it.                                                            *)
(***************************************************************************)
\* The row's access token is valid for more than tokenExpiryBuffer.
StillValid(p) ==
  /\ at[p] = "refresh"
  /\ place[p] \in Rows
  /\ Return(p)
  /\ UNCHANGED <<kept, issued, next, lost, standing, crossed, broken>>

\* No refresh token, a token the provider refuses, or no answer to a request that
\* did not reach it.  A Bluesky command goes on with the session it has read.
RefreshFails(p) ==
  /\ at[p] = "refresh"
  /\ Return(p)
  /\ UNCHANGED <<kept, issued, next, lost, standing, crossed, broken>>

\* The provider takes a token that is alive, and a rotating one takes it once.
Accept(p, t) ==
  /\ at[p] = "refresh"
  /\ held[p] \in Tokens
  /\ next[held[p]] = NoToken
  /\ IF place[p] \in Rotating \cup Files
     THEN Issue(held[p]) /\ t = issued + 1
     ELSE t = NoToken /\ UNCHANGED <<issued, next>>
  /\ standing' = [c \in Files |->
       IF c = place[p] /\ held[p] \in standing[c] THEN standing[c] \cup {t} ELSE standing[c]]

Exchange(p, t) ==
  /\ Accept(p, t)
  /\ got' = [got EXCEPT ![p] = t]
  /\ Goto(p, IF place[p] \in Rows THEN "save" ELSE "open")
  /\ UNCHANGED <<kept, place, held, lost, unlinked, crossed, broken>>

\* The answer does not come back.
ExchangeLost(p, t) ==
  /\ Accept(p, t)
  /\ lost' = lost \cup ({t} \ {NoToken})
  /\ Return(p)
  /\ UNCHANGED <<kept, crossed, broken>>

------------------------------------------------------------------------------
(***************************************************************************)
(* Keeping it.                                                             *)
(***************************************************************************)
\* Mutant of SaveToken: what is encrypted again is what was read.
SaveTokenRead(p) ==
  /\ at[p] = "save"
  /\ kept' = [kept EXCEPT ![place[p]] = held[p]]
  /\ Return(p)
  /\ UNCHANGED <<issued, next, lost, standing, crossed, broken>>

\* The answer as it is, with a refresh token or without.
SaveToken(p) ==
  /\ at[p] = "save"
  /\ kept' = [kept EXCEPT ![place[p]] = got[p]]
  /\ Return(p)
  /\ UNCHANGED <<issued, next, lost, standing, crossed, broken>>

\* Encrypt or SaveToken fails; the file cannot be opened, or the disk is full.
SaveFails(p) ==
  /\ at[p] \in {"save", "open", "write", "login", "write login"}
  /\ GiveUp(p)
  /\ UNCHANGED <<kept, issued, next, standing, crossed>>

\* SaveSession empties the file, and writes it.
Truncate(p) ==
  /\ at[p] \in {"open", "login"}
  /\ Goto(p, IF at[p] = "open" THEN "write" ELSE "write login")
  /\ kept' = [kept EXCEPT ![place[p]] = Torn]
  /\ UNCHANGED <<issued, next, place, held, got, lost, unlinked, standing, crossed, broken>>

\* Two writers overlap, and the shorter text leaves the end of the other's; or
\* the file was removed, and what is written is lost with it.
Write(p) ==
  /\ at[p] \in Writing
  /\ LET c == place[p] IN
       /\ IF p \in unlinked
          THEN UNCHANGED <<kept, broken>>
          ELSE \E k \in {got[p]} \cup ({Torn} \ {kept[c]}) :
                 /\ kept' = [kept EXCEPT ![c] = k]
                 /\ broken' = IF k = Torn THEN broken \cup {c} ELSE broken \ {c}
       /\ IF kept'[c] = got[p] THEN UNCHANGED lost ELSE lost' = lost \cup {got[p]}
       /\ IF at[p] = "write login"
          THEN Stands(p, c, {got[p]}, p \in unlinked)
          ELSE UNCHANGED <<standing, crossed>>
  /\ Return(p)
  /\ UNCHANGED <<issued, next>>

------------------------------------------------------------------------------
(***************************************************************************)
(* The user.                                                               *)
(***************************************************************************)
Login(p, c) ==
  /\ at[p] = "idle"
  /\ c \in Files
  /\ Issue(NoToken)
  /\ Goto(p, "login")
  /\ place' = [place EXCEPT ![p] = c]
  /\ got' = [got EXCEPT ![p] = issued + 1]
  /\ UNCHANGED <<kept, held, lost, unlinked, standing, crossed, broken>>

\* Mutant of Logout: ClearSession empties the file and leaves it.
LogoutByTruncating(p, c) ==
  /\ at[p] = "idle"
  /\ c \in Files
  /\ kept' = [kept EXCEPT ![c] = IF @ = NoToken THEN NoToken ELSE Torn]
  /\ Stands(p, c, {NoToken}, FALSE)
  /\ UNCHANGED <<issued, next, locals, lost, unlinked, broken>>

\* ClearSession.
Logout(p, c) ==
  /\ at[p] = "idle"
  /\ c \in Files
  /\ kept' = [kept EXCEPT ![c] = NoToken]
  /\ unlinked' = unlinked \cup
       {q \in Processes : at[q] \in Writing /\ place[q] = c}
  /\ Stands(p, c, {NoToken}, FALSE)
  /\ broken' = broken \ {c}
  /\ UNCHANGED <<issued, next, locals, lost>>

------------------------------------------------------------------------------
Step(p) ==
  \/ \E c \in Places : ReadCredential(p, c) \/ LoadSession(p, c) \/ Login(p, c) \/ Logout(p, c)
  \/ \E t \in {NoToken} \cup Tokens : Exchange(p, t) \/ ExchangeLost(p, t)
  \/ StillValid(p) \/ RefreshFails(p)
  \/ SaveToken(p) \/ SaveFails(p) \/ Truncate(p) \/ Write(p)
  \/ Kill(p)

Next == (\E p \in Processes : Step(p)) \/ \E c \in Places : Link(c)

Spec == Init /\ [][Next]_vars

------------------------------------------------------------------------------
Unsaved == {"save", "open", "write", "login", "write login"}

Known == 1 .. issued

TypeOK ==
  /\ issued \in 0 .. MaxTokens
  /\ kept \in [Places -> Known \cup {NoToken, Torn}]
  /\ \A c \in Rows : kept[c] # Torn
  /\ next \in [Tokens -> Known \cup {NoToken}]
  /\ at \in [Processes -> {"idle", "refresh"} \cup Unsaved]
  /\ place \in [Processes -> Places]
  /\ held \in [Processes -> Known \cup {NoToken}]
  /\ got \in [Processes -> Known \cup {NoToken}]
  /\ lost \subseteq Known
  /\ unlinked \subseteq {p \in Processes : at[p] \in Writing}
  /\ standing \in [Files -> SUBSET (Known \cup {NoToken})]
  /\ crossed \subseteq Files /\ broken \subseteq Files

\* A token that is kept can be used, whichever commands overlapped: it is dead
\* only while the one that replaces it is still to be saved, or could not be.
DeadOnlyIfUnsaved ==
  \A c \in Places : kept[c] \in Tokens /\ next[kept[c]] # NoToken =>
    \/ next[kept[c]] \in lost
    \/ \E p \in Processes : place[p] = c /\ got[p] = next[kept[c]]

\* The user's last login or logout is what the file says, unless another command
\* was at work then: the session that was logged in or a renewal of it, no file
\* after a logout, and a torn one only if a writer is at it or was stopped.
LastSignInStands ==
  \A c \in Files \ crossed :
    \/ kept[c] \in standing[c]
    \/ /\ kept[c] = Torn
       /\ \/ c \in broken
          \/ \E p \in Processes : place[p] = c /\ at[p] \in Writing
==============================================================================
