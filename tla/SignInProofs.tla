----------------------------- MODULE SignInProofs -----------------------------
(***************************************************************************)
(* Proofs about SignIn, for any processes, wishes and bounds.              *)
(***************************************************************************)
EXTENDS SignIn, TLAPS

\* A link in hand asks for what its process wants, unless no state file told so;
\* an idle process has none, and the token it got came by the link in hand.
LinkFits ==
  \A p \in Processes :
    /\ link[p] # 0 /\ ~ unchecked[p] => Asked(asked[link[p]]) = Asked(wish[p])
    /\ at[p] \in {"idle", "link", "link and wait"} => link[p] = 0
    /\ unchecked[p] => at[p] \in {"exchange", "exchange code", "clear", "done"}
    /\ got[p] # 0 => at[p] \in {"clear", "done"} /\ got[p] = link[p]
    /\ at[p] \in {"validate", "newest", "exchange", "exchange code"} => code[p] # 0

Inv == TypeOK /\ LinkFits

\* The groups of TypeOK.
LinksTypeOK ==
  /\ made \in 0 .. MaxLinks /\ consents \in 0 .. MaxCodes
  /\ asked \in [Links -> Wishes]
  /\ files \subseteq 1 .. made /\ expired \subseteq files
  /\ linkOf \in [Codes -> 0 .. made]
  /\ spent \subseteq 1 .. consents

InboxTypeOK ==
  /\ inbox \in [Processes -> SUBSET (0 .. consents)]
  /\ \A p \in Processes : \A c, d \in inbox[p] \ {0} : c = d

LocalsTypeOK ==
  /\ at \in [Processes -> {"idle", "link", "link and wait", "paste", "validate", "newest",
                           "exchange", "exchange code", "clear", "done", "browser"}]
  /\ wish \in [Processes -> Wishes]
  /\ need \in [Processes -> BOOLEAN]
  /\ link \in [Processes -> 0 .. made]
  /\ code \in [Processes -> 0 .. consents]
  /\ unchecked \in [Processes -> BOOLEAN]
  /\ got \in [Processes -> 0 .. made]

LEMMA TypeGroups == TypeOK <=> LinksTypeOK /\ InboxTypeOK /\ LocalsTypeOK
  BY DEF TypeOK, LinksTypeOK, InboxTypeOK, LocalsTypeOK

\* Some wish stands for no wish.
LEMMA UnwishedType == Unwished \in Wishes
  BY SignInAssumption DEF Unwished

\* One more link, or one more code, and what was there keeps its type.
LEMMA Bounds ==
  ASSUME NEW m \in 0 .. MaxLinks, NEW n \in 0 .. MaxCodes
  PROVE  /\ \A k \in Nat : k > m => 0 .. m \subseteq 0 .. k /\ 1 .. m \subseteq 1 .. k
         /\ m < MaxLinks => m + 1 \in 1 .. MaxLinks /\ m + 1 \in 0 .. MaxLinks
         /\ m + 1 \in 0 .. (m + 1) /\ m + 1 \in 1 .. (m + 1)
         /\ n < MaxCodes => n + 1 \in 1 .. MaxCodes /\ n + 1 \in 0 .. MaxCodes
         /\ n + 1 \in 1 .. (n + 1)
         /\ m + 1 \notin 1 .. m /\ \A k \in 0 .. m : k # 0 => k \in 1 .. m
         /\ 0 .. m \subseteq 0 .. (m + 1) /\ 1 .. m \subseteq 1 .. (m + 1)
         /\ 0 .. n \subseteq 0 .. (n + 1) /\ 1 .. n \subseteq 1 .. (n + 1)
         /\ \A k \in Links : k <= m => k \in 0 .. m
         /\ \A k \in 0 .. n : k # 0 => k \in 1 .. n
  <1>1. MaxLinks \in Nat /\ MaxCodes \in Nat
    BY SignInAssumption
  <1>2. QED
    BY <1>1 DEF Links

------------------------------------------------------------------------------
\* Every action keeps the types of the links, the files and the codes.
LEMMA LinksTypeStep == Inv /\ [Next]_vars => LinksTypeOK'
  <1> SUFFICES ASSUME Inv, [Next]_vars PROVE LinksTypeOK'
    OBVIOUS
  <1> USE DEF Inv, TypeOK, LinksTypeOK
  <1>1. ASSUME NEW l \in Links, Consent(l) PROVE LinksTypeOK'
    <2>1. l \in 0 .. made
      BY <1>1, Bounds DEF Consent
    <2>2. linkOf' \in [Codes -> 0 .. made]
      BY <1>1, <2>1 DEF Consent
    <2>3. QED
      BY <1>1, <2>2, Bounds DEF Consent, disk
  <1>2. ASSUME NEW l \in Links, Expire(l) PROVE LinksTypeOK'
    BY <1>2 DEF Expire, google
  <1>3. ASSUME NEW p \in Processes, NEW w \in Wishes, MakeLink(p, w),
               expired' \subseteq files', files' \subseteq files \cup {made'}
        PROVE  LinksTypeOK'
    <2>1. asked' \in [Links -> Wishes]
      BY <1>3, Bounds DEF MakeLink, Links
    <2>2. linkOf' \in [Codes -> 0 .. made']
      BY <1>3, Bounds DEF MakeLink
    <2>3. made' \in 0 .. MaxLinks /\ 1 .. made \subseteq 1 .. made' /\ made' \in 1 .. made'
      BY <1>3, Bounds DEF MakeLink
    <2>4. files' \subseteq 1 .. made'
      BY <1>3, <2>3
    <2>5. QED
      BY <1>3, <2>1, <2>2, <2>3, <2>4 DEF MakeLink
  <1>4. ASSUME UNCHANGED <<made, asked, consents, linkOf>>,
               files' \subseteq files, expired' \subseteq files', spent' \subseteq 1 .. consents
        PROVE  LinksTypeOK'
    BY <1>4
  <1>5. ASSUME NEW p \in Processes, NEW w \in Wishes,
               \/ \E interactive \in BOOLEAN : GiveLink(p, w, interactive)
               \/ \E c \in Codes :
                    \/ HandCode(p, w, c) \/ HandBareUrl(p, w, c)
                    \/ \E required \in BOOLEAN : HandUrl(p, w, c, required)
        PROVE  LinksTypeOK'
    BY <1>4, <1>5 DEF GiveLink, HandCode, HandBareUrl, HandUrl, Begin, Hand, LoadState, RemoveFiles, google, disk
  <1>6. ASSUME NEW p \in Processes, NEW w \in Wishes, AuthorizeServer(p, w) PROVE LinksTypeOK'
    BY <1>3, <1>6 DEF AuthorizeServer, disk
  <1>7. ASSUME NEW p \in Processes, SaveState(p) PROVE LinksTypeOK'
    BY <1>3, <1>7 DEF SaveState
  <1>8. ASSUME NEW p \in Processes,
               \/ \E c \in Codes :
                    PasteUrl(p, c) \/ PasteBareUrl(p, c) \/ CallbackCode(p, c) \/ ReceiveCode(p, c)
               \/ CallbackError(p) \/ ClearManualState(p) \/ Finish(p)
               \/ NewestState(p) \/ ValidateManualState(p)
        PROVE  LinksTypeOK'
    BY <1>4, <1>8 DEF PasteUrl, PasteBareUrl, Hand, CallbackCode, ReceiveCode, CallbackError, Callback,
       ClearManualState, Finish, NewestState, LoadState, RemoveFiles, ValidateManualState,
       google, disk
  <1>9. ASSUME NEW p \in Processes, at[p] \in {"exchange", "exchange code"}
        PROVE  code[p] \in 1 .. consents
    <2>1. code[p] # 0
      BY <1>9 DEF LinkFits
    <2>2. QED
      BY <2>1, Bounds
  <1>10. ASSUME NEW p \in Processes, Exchange(p) PROVE LinksTypeOK'
    BY <1>4, <1>9, <1>10 DEF Exchange, disk
  <1>11. ASSUME NEW p \in Processes, SignInFails(p) PROVE LinksTypeOK'
    <2>1. ASSUME at[p] \in {"exchange", "exchange code"} PROVE spent' \subseteq 1 .. consents
      <3>1. spent' \subseteq spent \cup {code[p]}
        BY <1>11 DEF SignInFails
      <3>2. QED
        BY <1>9, <2>1, <3>1
    <2>2. ASSUME at[p] \notin {"exchange", "exchange code"} PROVE spent' \subseteq 1 .. consents
      BY <1>11, <2>2 DEF SignInFails
    <2>3. spent' \subseteq 1 .. consents
      BY <2>1, <2>2
    <2>4. QED
      BY <1>4, <1>11, <2>3 DEF SignInFails, RemoveFiles
  <1>12. CASE UNCHANGED vars
    BY <1>4, <1>12 DEF vars, disk, google
  <1> HIDE DEF Inv, TypeOK, LinksTypeOK
  <1>13. ASSUME NEW p \in Processes, Step(p) PROVE LinksTypeOK'
    BY <1>5, <1>6, <1>7, <1>8, <1>10, <1>11, <1>13 DEF Step
  <1>14. QED
    BY <1>1, <1>2, <1>12, <1>13 DEF Next

\* The numbers of links and codes there are.
LEMMA Numbers ==
  ASSUME Inv
  PROVE  /\ 0 \in 0 .. made /\ 1 .. made \subseteq 0 .. made /\ 1 .. made \subseteq Links
         /\ \A l \in 1 .. made : l # 0
         /\ 0 \in 0 .. consents /\ \A c \in Codes : c # 0 /\ (c <= consents => c \in 0 .. consents)
         /\ \A c \in 0 .. consents : c # 0 => c \in Codes
  <1>1. MaxLinks \in Nat /\ MaxCodes \in Nat
    BY SignInAssumption
  <1>2. made \in 0 .. MaxLinks /\ consents \in 0 .. MaxCodes
    BY DEF Inv, TypeOK
  <1>3. QED
    BY <1>1, <1>2 DEF Links, Codes

\* Links and codes are never taken back.
LEMMA Growing ==
  ASSUME Inv, [Next]_vars
  PROVE  0 .. made \subseteq 0 .. made' /\ 0 .. consents \subseteq 0 .. consents'
  <1> USE DEF Inv, TypeOK
  <1>1. CASE UNCHANGED made /\ UNCHANGED consents
    BY <1>1
  <1>2. CASE made' = made + 1 /\ UNCHANGED consents
    BY <1>2, Bounds
  <1>3. CASE consents' = consents + 1 /\ UNCHANGED made
    BY <1>3, Bounds
  <1> HIDE DEF Inv, TypeOK
  <1>4. ASSUME NEW p \in Processes, Step(p)
        PROVE  UNCHANGED consents /\ (UNCHANGED made \/ made' = made + 1)
    BY <1>4 DEF Step, GiveLink, HandCode, HandBareUrl, HandUrl, Hand, AuthorizeServer, MakeLink, PasteUrl, PasteBareUrl,
       CallbackCode, CallbackError, Callback, ReceiveCode, SaveState, ValidateManualState,
       NewestState, Exchange, SignInFails, ClearManualState, Finish, google
  <1>5. QED
    BY <1>1, <1>2, <1>3, <1>4 DEF Next, Consent, Expire, google, vars

\* An error or, to an inbox without a code, a code is added.
LEMMA OneCode ==
  ASSUME NEW S, NEW T, NEW c, T = S \cup {c}, c = 0 \/ S \subseteq {0},
         \A d, e \in S \ {0} : d = e
  PROVE  \A d, e \in T \ {0} : d = e
  OBVIOUS

\* The inbox of a browser flow holds one code and perhaps an error.
LEMMA InboxTypeStep == Inv /\ [Next]_vars => InboxTypeOK'
  <1> SUFFICES ASSUME Inv, [Next]_vars PROVE InboxTypeOK'
    OBVIOUS
  <1> USE DEF Inv, TypeOK, InboxTypeOK
  <1>1. ASSUME inbox' = inbox PROVE InboxTypeOK'
    BY <1>1, Growing
  <1>2. ASSUME NEW p \in Processes, inbox' = [inbox EXCEPT ![p] = {}] PROVE InboxTypeOK'
    <2>1. \A q \in Processes : inbox'[q] = {} \/ inbox'[q] = inbox[q]
      BY <1>2
    <2>2. inbox' \in [Processes -> SUBSET (0 .. consents')]
      BY <1>2, Growing
    <2>3. QED
      BY <2>1, <2>2
  <1>3. ASSUME NEW p \in Processes, NEW c \in 0 .. consents, Callback(p, c),
               c = 0 \/ inbox[p] \subseteq {0}
        PROVE  InboxTypeOK'
    <2>1. inbox' = [inbox EXCEPT ![p] = inbox[p] \cup {c}] /\ consents' = consents
      BY <1>3 DEF Callback, google
    <2>2. inbox' \in [Processes -> SUBSET (0 .. consents')]
      BY <2>1
    <2>3. \A q \in Processes : inbox'[q] = inbox[q] \/ (q = p /\ inbox'[q] = inbox[q] \cup {c})
      BY <2>1
    <2>4. \A d, e \in inbox'[p] \ {0} : d = e
      <3>1. inbox'[p] = inbox[p] \cup {c}
        BY <2>1
      <3>2. QED
        BY <1>3, <3>1, OneCode
    <2>5. QED
      BY <2>2, <2>3, <2>4
  <1>4. ASSUME NEW p \in Processes,
               CallbackError(p) \/ \E c \in Codes : CallbackCode(p, c)
        PROVE  InboxTypeOK'
    BY <1>3, <1>4, Numbers DEF CallbackCode, CallbackError
  <1> HIDE DEF Inv, TypeOK, InboxTypeOK
  <1>5. ASSUME NEW p \in Processes, Step(p) PROVE InboxTypeOK'
    BY <1>1, <1>2, <1>4, <1>5 DEF Step, GiveLink, HandCode, HandBareUrl, HandUrl, Hand,
       AuthorizeServer, PasteUrl, PasteBareUrl, ReceiveCode, SaveState, ValidateManualState, NewestState,
       Exchange, SignInFails, ClearManualState, Finish, Return
  <1>6. QED
    BY <1>1, <1>5 DEF Next, Consent, Expire, locals, vars

\* What a process knows keeps its type.
LEMMA LocalsTypeStep == Inv /\ [Next]_vars => LocalsTypeOK'
  <1> SUFFICES ASSUME Inv, [Next]_vars PROVE LocalsTypeOK'
    OBVIOUS
  <1>1. LocalsTypeOK /\ 0 .. made \subseteq 0 .. made' /\ 0 .. consents \subseteq 0 .. consents'
    BY Growing, TypeGroups DEF Inv
  <1>2. ASSUME UNCHANGED locals PROVE LocalsTypeOK'
    BY <1>1, <1>2 DEF locals, LocalsTypeOK
  <1>3. 0 \in 0 .. made' /\ 0 \in 0 .. consents'
    BY <1>1, Numbers
  <1> USE <1>1, <1>3 DEF LocalsTypeOK, Goto
  <1>4. ASSUME NEW p \in Processes, Return(p) PROVE LocalsTypeOK'
    BY <1>4, UnwishedType DEF Return
  <1>5. ASSUME NEW p \in Processes, NEW w \in Wishes, NEW interactive \in BOOLEAN,
               GiveLink(p, w, interactive)
        PROVE  LocalsTypeOK'
    <2>1. link' \in [Processes -> 0 .. made']
      <3>1. Newest(w) \subseteq 0 .. made
        BY Numbers DEF Newest, Inv, TypeOK
      <3>2. QED
        BY <1>5, <3>1 DEF GiveLink
    <2>2. QED
      BY <1>5, <2>1 DEF GiveLink, Begin
  <1>6. ASSUME NEW p \in Processes, NEW w \in Wishes, NEW c \in Codes,
               NEW required \in BOOLEAN,
               HandCode(p, w, c) \/ HandBareUrl(p, w, c) \/ HandUrl(p, w, c, required)
        PROVE  LocalsTypeOK'
    <2>1. CASE HandCode(p, w, c)
      BY <2>1, Numbers DEF HandCode, Hand, Begin, google
    <2>2. CASE HandUrl(p, w, c, required)
      BY <2>2, Numbers DEF HandUrl, Hand, Begin, google
    <2>3. CASE HandBareUrl(p, w, c)
      <3>1. linkOf[c] \in 0 .. made
        BY DEF Inv, TypeOK
      <3>2. QED
        BY <2>3, <3>1, Numbers DEF HandBareUrl, Begin, google
    <2>4. QED
      BY <1>6, <2>1, <2>2, <2>3
  <1>7. ASSUME NEW p \in Processes, NEW c \in Codes, PasteUrl(p, c) \/ PasteBareUrl(p, c)
        PROVE  LocalsTypeOK'
    BY <1>7, Numbers DEF PasteUrl, PasteBareUrl, Hand, google
  <1>8. ASSUME NEW p \in Processes, NEW w \in Wishes, MakeLink(p, w)
        PROVE  link' \in [Processes -> 0 .. made']
    <2>1. made' \in 0 .. made'
      BY <1>8, Bounds DEF MakeLink, Inv, TypeOK
    <2>2. QED
      BY <1>8, <2>1 DEF MakeLink
  <1>9. ASSUME NEW p \in Processes, NEW w \in Wishes, AuthorizeServer(p, w) PROVE LocalsTypeOK'
    BY <1>8, <1>9 DEF AuthorizeServer, Begin
  <1>10. ASSUME NEW p \in Processes, SaveState(p) PROVE LocalsTypeOK'
    <2>1. link' \in [Processes -> 0 .. made']
      BY <1>8, <1>10 DEF SaveState
    <2>2. QED
      BY <1>10, <2>1 DEF SaveState
  <1>11. ASSUME NEW p \in Processes, ValidateManualState(p) PROVE LocalsTypeOK'
    <2>1. code[p] \in Codes
      BY <1>11, Numbers DEF ValidateManualState, Inv, LinkFits, TypeOK
    <2>2. linkOf[code[p]] \in 0 .. made
      BY <2>1 DEF Inv, TypeOK
    <2>3. link' \in [Processes -> 0 .. made'] /\ unchecked' \in [Processes -> BOOLEAN]
      <3>1. link' = [link EXCEPT ![p] = linkOf[code[p]]]
        BY <1>11 DEF ValidateManualState
      <3>2. unchecked' = unchecked \/ unchecked' = [unchecked EXCEPT ![p] = link[p] # linkOf[code[p]]]
        BY <1>11 DEF ValidateManualState
      <3>3. QED
        BY <2>2, <3>1, <3>2
    <2>4. QED
      BY <1>11, <2>3 DEF ValidateManualState
  <1>12. ASSUME NEW p \in Processes, NewestState(p) PROVE LocalsTypeOK'
    <2>1. Newest(wish[p]) \subseteq 0 .. made
      BY Numbers DEF Newest, Inv, TypeOK
    <2>2. QED
      BY <1>12, <2>1 DEF NewestState
  <1>13. ASSUME NEW p \in Processes, Exchange(p) PROVE LocalsTypeOK'
    BY <1>13 DEF Exchange
  <1>14. ASSUME NEW p \in Processes, SignInFails(p) \/ ClearManualState(p) \/ Finish(p)
         PROVE  LocalsTypeOK'
    BY <1>4, <1>14 DEF SignInFails, ClearManualState, Finish
  <1>15. ASSUME NEW p \in Processes, NEW c \in Codes,
                CallbackCode(p, c) \/ CallbackError(p)
         PROVE  LocalsTypeOK'
    BY <1>15 DEF CallbackCode, CallbackError, Callback
  <1>16. ASSUME NEW p \in Processes, NEW c \in Codes, ReceiveCode(p, c) PROVE LocalsTypeOK'
    <2>1. c \in 0 .. consents
      BY <1>16 DEF ReceiveCode, Inv, TypeOK
    <2>2. QED
      BY <1>16, <2>1 DEF ReceiveCode
  <1> HIDE <1>1, <1>3 DEF LocalsTypeOK, Goto
  <1>17. ASSUME NEW p \in Processes, CallbackError(p) PROVE LocalsTypeOK'
    BY <1>1, <1>17 DEF CallbackError, Callback, LocalsTypeOK
  <1>18. ASSUME NEW p \in Processes, Step(p) PROVE LocalsTypeOK'
    BY <1>5, <1>6, <1>7, <1>9, <1>10, <1>11, <1>12, <1>13, <1>14, <1>15, <1>16, <1>17, <1>18
       DEF Step
  <1>19. QED
    BY <1>2, <1>18 DEF Next, Consent, Expire, vars

------------------------------------------------------------------------------
\* A link's options are set when it is made and never again.
LEMMA AskedStays ==
  ASSUME Inv, [Next]_vars, NEW l \in 1 .. made
  PROVE  asked'[l] = asked[l]
  <1>1. l # made + 1 /\ l \in Links
    <2>1. made \in 0 .. MaxLinks /\ consents \in 0 .. MaxCodes
      BY DEF Inv, TypeOK
    <2>2. QED
      BY <2>1, Bounds, Numbers
  <1>2. ASSUME NEW p \in Processes, NEW w \in Wishes, MakeLink(p, w) PROVE asked'[l] = asked[l]
    BY <1>1, <1>2 DEF MakeLink, Inv, TypeOK
  <1>3. ASSUME NEW p \in Processes, Step(p) PROVE asked'[l] = asked[l]
    <2>1. wish[p] \in Wishes
      BY DEF Inv, TypeOK
    <2>2. QED
      BY <1>2, <1>3, <2>1 DEF Step, GiveLink, HandCode, HandBareUrl, HandUrl, Hand, AuthorizeServer, PasteUrl, PasteBareUrl,
         CallbackCode, CallbackError, Callback, ReceiveCode, SaveState, ValidateManualState,
         NewestState, Exchange, SignInFails, ClearManualState, Finish, google
  <1>4. QED
    BY <1>3 DEF Next, Consent, Expire, google, vars

\* What LinkFits says of one process.
Fits(p) ==
  /\ link[p] # 0 /\ ~ unchecked[p] => Asked(asked[link[p]]) = Asked(wish[p])
  /\ at[p] \in {"idle", "link", "link and wait"} => link[p] = 0
  /\ unchecked[p] => at[p] \in {"exchange", "exchange code", "clear", "done"}
  /\ got[p] # 0 => at[p] \in {"clear", "done"} /\ got[p] = link[p]
  /\ at[p] \in {"validate", "newest", "exchange", "exchange code"} => code[p] # 0

\* A process that does nothing keeps a link that fits.
LEMMA OthersFit ==
  ASSUME Inv, [Next]_vars, NEW q \in Processes,
         at'[q] = at[q], wish'[q] = wish[q], link'[q] = link[q], code'[q] = code[q],
         unchecked'[q] = unchecked[q], got'[q] = got[q]
  PROVE  Fits(q)'
  <1>1. link[q] # 0 => asked'[link[q]] = asked[link[q]]
    <2>1. link[q] # 0 => link[q] \in 1 .. made
      BY Bounds DEF Inv, TypeOK
    <2>2. QED
      BY <2>1, AskedStays
  <1>2. QED
    BY <1>1 DEF Inv, LinkFits, Fits, Asked

\* Every action keeps links that fit.
LEMMA FitsStep == Inv /\ [Next]_vars => LinkFits'
  <1> SUFFICES ASSUME Inv, [Next]_vars, NEW q \in Processes PROVE Fits(q)'
    BY DEF LinkFits, Fits
  <1>1. ASSUME UNCHANGED locals PROVE Fits(q)'
    BY <1>1, OthersFit DEF locals
  <1>2. ASSUME NEW p \in Processes, Step(p), p # q PROVE Fits(q)'
    <2> DEFINE Same == /\ at'[q] = at[q] /\ wish'[q] = wish[q] /\ link'[q] = link[q]
                       /\ code'[q] = code[q] /\ unchecked'[q] = unchecked[q] /\ got'[q] = got[q]
    <2> USE DEF Inv, TypeOK, Goto, Begin
    <2>1. ASSUME NEW w \in Wishes, NEW interactive \in BOOLEAN, GiveLink(p, w, interactive)
          PROVE  Same
      BY <1>2, <2>1 DEF GiveLink
    <2>2. ASSUME NEW w \in Wishes, NEW c \in Codes, HandCode(p, w, c) PROVE Same
      BY <1>2, <2>2 DEF HandCode, Hand
    <2>3. ASSUME NEW w \in Wishes, NEW c \in Codes, NEW required \in BOOLEAN, HandUrl(p, w, c, required)
          PROVE  Same
      BY <1>2, <2>3 DEF HandUrl, Hand
    <2>4. ASSUME NEW w \in Wishes, AuthorizeServer(p, w) PROVE Same
      BY <1>2, <2>4 DEF AuthorizeServer, MakeLink
    <2>5. ASSUME NEW c \in Codes, PasteUrl(p, c) \/ PasteBareUrl(p, c) PROVE Same
      BY <1>2, <2>5 DEF PasteUrl, PasteBareUrl, Hand
    <2>6. ASSUME NEW c \in Codes, ReceiveCode(p, c) PROVE Same
      <3>1. at' = [at EXCEPT ![p] = "exchange code"] /\ code' = [code EXCEPT ![p] = c]
        BY <2>6 DEF ReceiveCode
      <3>2. UNCHANGED <<wish, link, unchecked, got>>
        BY <2>6 DEF ReceiveCode
      <3>3. QED
        BY <1>2, <3>1, <3>2
    <2>7. ASSUME NEW c, Callback(p, c) PROVE Same
      BY <2>7 DEF Callback
    <2>8. ASSUME SaveState(p) PROVE Same
      BY <1>2, <2>8 DEF SaveState, MakeLink
    <2>9. ASSUME NewestState(p) PROVE Same
      BY <1>2, <2>9 DEF NewestState
    <2>10. ASSUME Exchange(p) PROVE Same
      BY <1>2, <2>10 DEF Exchange
    <2>11. ASSUME ValidateManualState(p) PROVE Same
      BY <1>2, <2>11 DEF ValidateManualState
    <2>12. ASSUME SignInFails(p) \/ ClearManualState(p) \/ Finish(p) PROVE Same
      BY <1>2, <2>12 DEF SignInFails, ClearManualState, Finish, Return
    <2>15. ASSUME NEW w \in Wishes, NEW c \in Codes, HandBareUrl(p, w, c) PROVE Same
      BY <1>2, <2>15 DEF HandBareUrl
    <2> HIDE DEF Inv, TypeOK, Goto, Begin, Same
    <2>13. Same
      BY <1>2, <2>1, <2>2, <2>3, <2>4, <2>5, <2>6, <2>7, <2>8, <2>9, <2>10, <2>11, <2>12, <2>15
         DEF Step, CallbackCode, CallbackError
    <2>14. QED
      BY <2>13, OthersFit DEF Same
  <1> SUFFICES ASSUME Step(q) PROVE Fits(q)'
    BY <1>1, <1>2 DEF Next, Consent, Expire, vars
  <1>3. Fits(q) /\ TypeOK
    BY DEF Inv, LinkFits, Fits
  <1>4. link[q] # 0 => asked'[link[q]] = asked[link[q]]
    BY Bounds, AskedStays DEF Inv, TypeOK
  <1>5. \A l \in files : asked'[l] = asked[l] /\ l # 0
    <2>1. files \subseteq 1 .. made /\ \A l \in 1 .. made : l # 0
      BY Numbers DEF Inv, TypeOK
    <2>2. QED
      BY <2>1, AskedStays
  <1> USE <1>3 DEF TypeOK, Goto
  <1>6. ASSUME NEW w \in Wishes, NEW interactive \in BOOLEAN, GiveLink(q, w, interactive)
        PROVE  Fits(q)'
    BY <1>5, <1>6 DEF GiveLink, Begin, Newest, Matches, Fits, Asked
  <1>7. ASSUME NEW w \in Wishes, NEW c \in Codes, NEW required \in BOOLEAN,
               HandCode(q, w, c) \/ HandBareUrl(q, w, c) \/ HandUrl(q, w, c, required)
        PROVE  Fits(q)'
    <2>1. c # 0
      BY Numbers
    <2>2. CASE HandCode(q, w, c)
      BY <2>1, <2>2 DEF HandCode, Hand, Begin, Fits
    <2>3. CASE HandUrl(q, w, c, required)
      BY <2>1, <2>3 DEF HandUrl, Hand, Begin, Fits
    <2>4. CASE HandBareUrl(q, w, c)
      BY <2>1, <2>4 DEF HandBareUrl, Begin, Fits
    <2>5. QED
      BY <1>7, <2>2, <2>3, <2>4
  <1>8. ASSUME NEW c \in Codes, PasteUrl(q, c) \/ PasteBareUrl(q, c) PROVE Fits(q)'
    BY <1>4, <1>8, Numbers DEF PasteUrl, PasteBareUrl, Hand, Fits, google, Asked
  <1>9. ASSUME NEW w \in Wishes, MakeLink(q, w)
        PROVE  asked'[link'[q]] = w
    <2>1. made + 1 \in Links
      BY <1>9, Bounds DEF MakeLink, Links
    <2>2. QED
      BY <1>9, <2>1 DEF MakeLink
  <1>10. ASSUME NEW w \in Wishes, AuthorizeServer(q, w) PROVE Fits(q)'
    BY <1>9, <1>10 DEF AuthorizeServer, Begin, Fits, Asked
  <1>11. CASE SaveState(q)
    BY <1>9, <1>11 DEF SaveState, Fits, Asked
  <1>12. CASE ValidateManualState(q)
    <2>1. PICK l : /\ l = linkOf[code[q]] /\ link' = [link EXCEPT ![q] = l]
                   /\ \/ l \in files /\ Matches(l, wish[q]) /\ UNCHANGED unchecked
                      \/ unchecked' = [unchecked EXCEPT ![q] = link[q] # l]
      BY <1>12 DEF ValidateManualState
    <2>2. at[q] = "validate" /\ at'[q] = "exchange" /\ UNCHANGED <<asked, wish, code, got>>
      BY <1>12 DEF ValidateManualState, google
    <2>3. QED
      BY <2>1, <2>2 DEF Fits, Matches, Asked
  <1>13. CASE NewestState(q)
    BY <1>5, <1>13 DEF NewestState, Newest, Matches, Fits, Asked
  <1>14. CASE Exchange(q)
    BY <1>4, <1>14 DEF Exchange, Fits, Asked
  <1>15. CASE SignInFails(q) \/ ClearManualState(q) \/ Finish(q)
    <2>1. Return(q)
      BY <1>15 DEF SignInFails, ClearManualState, Finish
    <2>2. QED
      BY <2>1 DEF Return, Fits
  <1>16. ASSUME NEW c, Callback(q, c) PROVE Fits(q)'
    BY <1>16, OthersFit DEF Callback
  <1>17. ASSUME NEW c \in Codes, ReceiveCode(q, c) PROVE Fits(q)'
    BY <1>4, <1>17, Numbers DEF ReceiveCode, Fits, Asked, google
  <1> HIDE <1>3 DEF TypeOK, Goto
  <1>18. QED
    BY <1>6, <1>7, <1>8, <1>10, <1>11, <1>12, <1>13, <1>14, <1>15, <1>16, <1>17
       DEF Step, CallbackCode, CallbackError

\* The inductive invariant of SignIn: the types, and links that fit.
THEOREM SignInInvariance == Spec => []Inv
  <1>1. Init => Inv
    <2> SUFFICES ASSUME Init PROVE TypeOK /\ LinkFits
      BY DEF Inv
    <2>1. MaxLinks \in Nat /\ MaxCodes \in Nat
      BY SignInAssumption
    <2>2. LinksTypeOK /\ InboxTypeOK /\ LocalsTypeOK
      BY <2>1, UnwishedType DEF Init, LinksTypeOK, InboxTypeOK, LocalsTypeOK
    <2>3. QED
      BY <2>2, TypeGroups DEF Init, LinkFits
  <1>2. Inv /\ [Next]_vars => Inv'
    <2>1. LinksTypeOK' /\ InboxTypeOK' /\ LocalsTypeOK' => TypeOK'
      BY DEF TypeOK, LinksTypeOK, InboxTypeOK, LocalsTypeOK
    <2>2. QED
      BY <2>1, LinksTypeStep, InboxTypeStep, LocalsTypeStep, FitsStep DEF Inv
  <1>3. QED
    BY <1>1, <1>2, PTL DEF Spec

\* Every variable of SignIn has its type in every reachable state.
THEOREM SignInTypeCorrect == Spec => []TypeOK
  BY SignInInvariance, PTL DEF Inv

\* The consent behind every token is for what its sign-in was to ask for, unless
\* no state was required and none was found.
THEOREM GrantAlwaysAsRequested == Spec => []GrantIsAsRequested
  <1>1. Inv => GrantIsAsRequested
    BY DEF Inv, LinkFits, GrantIsAsRequested
  <1>2. QED
    BY <1>1, SignInInvariance, PTL

------------------------------------------------------------------------------
\* The scopes of read-only options change nothing, whatever the services and the
\* drive scope.
LEMMA ReadonlyScopes ==
  ASSUME NEW o, o.readonly = TRUE, NEW scope \in ScopesForManageWithOptions(o)
  PROVE  ~ CanChange(scope)
  <1>1. \A names : \A s \in Access(names, "readonly") : ~ CanChange(s)
    BY DEF Access, CanChange
  <1>2. ~ CanChange(DriveScope(o))
    BY DEF DriveScope, CanChange
  <1>3. \A s : \A x \in ScopesForService(s, o) : ~ CanChange(x)
    BY <1>1, <1>2 DEF ScopesForService
  <1>4. QED
    BY <1>1, <1>3 DEF ScopesForManageWithOptions, Identity

\* A read-only sign-in never has the user consent to any change.
THEOREM ReadonlyAlwaysReadonly == Spec => []ReadonlyIsReadonly
  <1>1. TypeOK /\ GrantIsAsRequested => ReadonlyIsReadonly
    <2> SUFFICES ASSUME TypeOK, GrantIsAsRequested, NEW p \in Processes,
                        got[p] # 0, ~ unchecked[p], wish[p].options.readonly,
                        NEW scope \in Asked(asked[got[p]]).scopes
                 PROVE  ~ CanChange(scope)
      BY DEF ReadonlyIsReadonly
    <2>1. Asked(asked[got[p]]) = Asked(wish[p])
      BY DEF GrantIsAsRequested
    <2>2. scope \in ScopesForManageWithOptions(wish[p].options)
      BY <2>1 DEF Asked
    <2>3. wish[p].options \in Options
      BY SignInAssumption DEF TypeOK
    <2>4. wish[p].options.readonly = TRUE
      BY <2>3 DEF Options
    <2>5. QED
      BY <2>2, <2>4, ReadonlyScopes
  <1>2. QED
    BY <1>1, SignInTypeCorrect, GrantAlwaysAsRequested, PTL
==============================================================================
