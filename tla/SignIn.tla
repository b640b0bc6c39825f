-------------------------------- MODULE SignIn --------------------------------
(***************************************************************************)
(* `Authorize`: how a command gets a refresh token from Google             *)
(* (googleauth/oauth_flow.go, oauth_flow_manual.go, manual_state.go).  In  *)
(* the browser flow a local server waits for the redirect.  In the manual  *)
(* flow the user carries the redirect's URL, or only its code, from a      *)
(* browser elsewhere, to the command that gave him the link or to a later  *)
(* one; a state file per link tells what was asked.  A link is reused      *)
(* while its file lives.                                                   *)
(***************************************************************************)
EXTENDS Scopes, Integers

CONSTANTS
  Processes,
  Wishes,     \* AuthorizeOptions: client, options for the scopes, forceConsent
  MaxLinks,   \* bound: links made
  MaxCodes    \* bound: times the user consents

Wish == [client : STRING, options : Options, forceConsent : BOOLEAN]

ASSUME SignInAssumption ==
  /\ Wishes # {}
  /\ \A w \in Wishes :
       w.client \in STRING /\ w.options \in Options /\ w.forceConsent \in BOOLEAN
  /\ MaxLinks \in Nat /\ MaxCodes \in Nat

\* A link has a random state and a port of its own, and what it asks for.
Links == 1 .. MaxLinks

Codes == 1 .. MaxCodes

Asked(w) == [client |-> w.client, forceConsent |-> w.forceConsent,
             scopes |-> ScopesForManageWithOptions(w.options)]

VARIABLES
  made,      \* links made so far; they are numbered
  asked,     \* the options each was made for
  files,     \* the links with a state file
  expired,   \* those of them made longer than manualStateTTL ago
  consents,  \* codes Google has given
  linkOf,    \* the link each code came by
  spent,     \* the codes Google has taken
  at,        \* what each process does next
  wish,      \* its options
  need,      \* RequireState
  link,      \* the link it gives the user, or whose redirect URI it uses
  code,      \* the code it has; 0 for none
  inbox,     \* the browser flow's codeCh and errCh; 0 for an error
  \* Observers.
  unchecked, \* no state file told the process what the code is for
  got        \* the link whose consent gave it its token; 0 for none

disk == <<files, expired>>
google == <<made, asked, consents, linkOf, spent>>
locals == <<at, wish, need, link, code, inbox, unchecked, got>>
vars == <<disk, google, locals>>

Unwished == CHOOSE w \in Wishes : TRUE

Init ==
  /\ made = 0 /\ consents = 0
  /\ asked = [l \in Links |-> Unwished]
  /\ files = {} /\ expired = {}
  /\ linkOf = [c \in Codes |-> 0]
  /\ spent = {}
  /\ at = [p \in Processes |-> "idle"]
  /\ wish = [p \in Processes |-> Unwished]
  /\ need = [p \in Processes |-> FALSE]
  /\ link = [p \in Processes |-> 0]
  /\ code = [p \in Processes |-> 0]
  /\ inbox = [p \in Processes |-> {}]
  /\ unchecked = [p \in Processes |-> FALSE]
  /\ got = [p \in Processes |-> 0]
------------------------------------------------------------------------------
Goto(p, step) == at' = [at EXCEPT ![p] = step]

Begin(p, w) ==
  /\ at[p] = "idle"
  /\ wish' = [wish EXCEPT ![p] = w]

\* The command ends, with a token or an error.
Return(p) ==
  /\ Goto(p, "idle")
  /\ wish' = [wish EXCEPT ![p] = Unwished]
  /\ need' = [need EXCEPT ![p] = FALSE]
  /\ link' = [link EXCEPT ![p] = 0]
  /\ code' = [code EXCEPT ![p] = 0]
  /\ inbox' = [inbox EXCEPT ![p] = {}]
  /\ unchecked' = [unchecked EXCEPT ![p] = FALSE]
  /\ got' = [got EXCEPT ![p] = 0]

MakeLink(p, w) ==
  /\ made < MaxLinks
  /\ made' = made + 1
  /\ asked' = [asked EXCEPT ![made + 1] = w]
  /\ link' = [link EXCEPT ![p] = made + 1]
  /\ UNCHANGED <<consents, linkOf, spent>>

\* The user follows a link, and the browser has a code to bring back.
Consent(l) ==
  /\ l <= made
  /\ consents < MaxCodes
  /\ consents' = consents + 1
  /\ linkOf' = [linkOf EXCEPT ![consents + 1] = l]
  /\ UNCHANGED <<disk, made, asked, spent, locals>>

------------------------------------------------------------------------------
(***************************************************************************)
(* State files.                                                            *)
(***************************************************************************)
\* Time passes: the file of a link is not valid any more.
Expire(l) ==
  /\ l \in files \ expired
  /\ expired' = expired \cup {l}
  /\ UNCHANGED <<files, google, locals>>

RemoveFiles(links) ==
  /\ files' = files \ links
  /\ expired' = expired \ links

\* Mutant of Matches: the scopes are not compared.
MatchesClient(l, w) == asked[l].client = w.client

Matches(l, w) == Asked(asked[l]) = Asked(w)

\* loadManualState removes the expired files it meets and takes the newest of
\* those that match.
LoadState == RemoveFiles(expired)

Newest(w) ==
  {l \in files \ expired :
     Matches(l, w) /\ \A m \in files \ expired : Matches(m, w) => m <= l}

\* ManualAuthURL, which ends there, and authorizeManualInteractive, which waits.
GiveLink(p, w, interactive) ==
  /\ Begin(p, w)
  /\ LoadState
  /\ IF Newest(w) = {}
     THEN /\ Goto(p, IF interactive THEN "link and wait" ELSE "link")
          /\ UNCHANGED link
     ELSE /\ Goto(p, IF interactive THEN "paste" ELSE "done")
          /\ \E l \in Newest(w) : link' = [link EXCEPT ![p] = l]
  /\ UNCHANGED <<google, need, code, inbox, unchecked, got>>

SaveState(p) ==
  /\ at[p] \in {"link", "link and wait"}
  /\ MakeLink(p, wish[p])
  /\ files' = files \cup {made'}
  /\ Goto(p, IF at[p] = "link" THEN "done" ELSE "paste")
  /\ UNCHANGED <<expired, wish, need, code, inbox, unchecked, got>>

------------------------------------------------------------------------------
(***************************************************************************)
(* The manual flow, with a redirect.                                       *)
(***************************************************************************)
Hand(p, c, step) ==
  /\ c <= consents
  /\ code' = [code EXCEPT ![p] = c]
  /\ Goto(p, step)
  /\ UNCHANGED <<disk, google, inbox, unchecked, got>>

\* A later command, with the URL or, if no state is required, with the code.
HandUrl(p, w, c, required) ==
  /\ Begin(p, w)
  /\ Hand(p, c, "validate")
  /\ need' = [need EXCEPT ![p] = required]
  /\ UNCHANGED link

\* Nothing is looked up for a URL without its state: the redirect URI is its own.
HandBareUrl(p, w, c) ==
  /\ Begin(p, w)
  /\ c <= consents
  /\ code' = [code EXCEPT ![p] = c]
  /\ link' = [link EXCEPT ![p] = linkOf[c]]
  /\ unchecked' = [unchecked EXCEPT ![p] = TRUE]
  /\ Goto(p, "exchange code")
  /\ UNCHANGED <<disk, google, need, inbox, got>>

HandCode(p, w, c) ==
  /\ Begin(p, w)
  /\ Hand(p, c, "newest")
  /\ UNCHANGED <<need, link>>

\* The command that waits takes only the URL of its own link.
PasteUrl(p, c) ==
  /\ at[p] = "paste"
  /\ linkOf[c] = link[p]
  /\ Hand(p, c, "validate")
  /\ UNCHANGED <<wish, need, link>>

\* Without a state any URL will do, but the redirect URI is that of its own link.
PasteBareUrl(p, c) ==
  /\ at[p] = "paste"
  /\ Hand(p, c, "exchange")
  /\ UNCHANGED <<wish, need, link>>

\* validateManualState, when it accepts.  Without a file the redirect URI is the
\* one in the URL.
ValidateManualState(p) ==
  /\ at[p] = "validate"
  /\ LET l == linkOf[code[p]] IN
       /\ IF l \in files \ expired
          THEN Matches(l, wish[p]) /\ UNCHANGED unchecked
          ELSE ~ need[p] /\ unchecked' = [unchecked EXCEPT ![p] = link[p] # l]
       /\ link' = [link EXCEPT ![p] = l]
       /\ RemoveFiles({l} \cap expired)
  /\ Goto(p, "exchange")
  /\ UNCHANGED <<google, wish, need, code, inbox, got>>

\* A code alone goes with the redirect URI of the newest link that fits.
NewestState(p) ==
  /\ at[p] = "newest"
  /\ LoadState
  /\ \E l \in Newest(wish[p]) : link' = [link EXCEPT ![p] = l]
  /\ Goto(p, "exchange code")
  /\ UNCHANGED <<google, wish, need, code, inbox, unchecked, got>>

\* Google refuses a code it has taken, another client, and a redirect URI that is
\* not the code's.
Exchange(p) ==
  /\ at[p] \in {"exchange", "exchange code"}
  /\ code[p] \notin spent
  /\ link[p] = linkOf[code[p]]
  /\ asked[link[p]].client = wish[p].client
  /\ spent' = spent \cup {code[p]}
  /\ got' = [got EXCEPT ![p] = link[p]]
  /\ Goto(p, IF at[p] = "exchange" THEN "clear" ELSE "done")
  /\ UNCHANGED <<disk, made, asked, consents, linkOf, wish, need, link, code, inbox, unchecked>>

\* Or the answer is lost, or has no refresh token, or something was refused, or
\* no state file was good, and those that are too old were removed; or the time is
\* up, or the process is killed.
SignInFails(p) ==
  /\ at[p] # "idle"
  /\ spent' \in {spent} \cup
       {spent \cup {code[p]} : x \in {at[p]} \cap {"exchange", "exchange code"}}
  /\ \E removed \in {{}, expired} : RemoveFiles(removed)
  /\ Return(p)
  /\ UNCHANGED <<made, asked, consents, linkOf>>

\* A file that cannot be removed does not matter to the command.
ClearManualState(p) ==
  /\ at[p] = "clear"
  /\ \E removed \in {{}, {link[p]}} : RemoveFiles(removed)
  /\ Return(p)
  /\ UNCHANGED google

Finish(p) ==
  /\ at[p] = "done"
  /\ Return(p)
  /\ UNCHANGED <<disk, google>>

------------------------------------------------------------------------------
(***************************************************************************)
(* The browser flow.                                                       *)
(***************************************************************************)
AuthorizeServer(p, w) ==
  /\ Begin(p, w)
  /\ MakeLink(p, w)
  /\ Goto(p, "browser")
  /\ UNCHANGED <<disk, need, code, inbox, unchecked, got>>

Callback(p, c) ==
  /\ at[p] = "browser"
  /\ inbox' = [inbox EXCEPT ![p] = @ \cup {c}]
  /\ UNCHANGED <<disk, google, at, wish, need, link, code, unchecked, got>>

\* Mutant of CallbackCode: codeCh holds as many codes as come.
CallbackCodeUnbounded(p, c) ==
  /\ c <= consents
  /\ linkOf[c] = link[p]
  /\ Callback(p, c)

\* The redirect of its own link; codeCh holds one.
CallbackCode(p, c) ==
  /\ c <= consents
  /\ linkOf[c] = link[p]
  /\ inbox[p] \subseteq {0}
  /\ Callback(p, c)

\* The user declines, or another link's redirect comes here.
CallbackError(p) == Callback(p, 0)

\* The select takes either; an error ends the sign-in (SignInFails).
ReceiveCode(p, c) ==
  /\ at[p] = "browser"
  /\ c \in inbox[p] \ {0}
  /\ code' = [code EXCEPT ![p] = c]
  /\ inbox' = [inbox EXCEPT ![p] = {}]
  /\ Goto(p, "exchange code")
  /\ UNCHANGED <<disk, google, wish, need, link, unchecked, got>>

------------------------------------------------------------------------------
Step(p) ==
  \/ \E w \in Wishes :
       \/ \E interactive \in BOOLEAN : GiveLink(p, w, interactive)
       \/ \E c \in Codes :
            \/ HandCode(p, w, c) \/ HandBareUrl(p, w, c)
            \/ \E required \in BOOLEAN : HandUrl(p, w, c, required)
       \/ AuthorizeServer(p, w)
  \/ \E c \in Codes :
       PasteUrl(p, c) \/ PasteBareUrl(p, c) \/ CallbackCode(p, c) \/ ReceiveCode(p, c)
  \/ CallbackError(p)
  \/ SaveState(p) \/ ValidateManualState(p) \/ NewestState(p)
  \/ Exchange(p) \/ SignInFails(p) \/ ClearManualState(p) \/ Finish(p)

Next == (\E p \in Processes : Step(p)) \/ \E l \in Links : Consent(l) \/ Expire(l)

Spec == Init /\ [][Next]_vars

------------------------------------------------------------------------------
TypeOK ==
  /\ made \in 0 .. MaxLinks /\ consents \in 0 .. MaxCodes
  /\ asked \in [Links -> Wishes]
  /\ files \subseteq 1 .. made /\ expired \subseteq files
  /\ linkOf \in [Codes -> 0 .. made]
  /\ spent \subseteq 1 .. consents
  /\ at \in [Processes -> {"idle", "link", "link and wait", "paste", "validate", "newest",
                           "exchange", "exchange code", "clear", "done", "browser"}]
  /\ wish \in [Processes -> Wishes]
  /\ need \in [Processes -> BOOLEAN]
  /\ link \in [Processes -> 0 .. made]
  /\ code \in [Processes -> 0 .. consents]
  /\ inbox \in [Processes -> SUBSET (0 .. consents)]
  /\ \A p \in Processes : \A c, d \in inbox[p] \ {0} : c = d
  /\ unchecked \in [Processes -> BOOLEAN]
  /\ got \in [Processes -> 0 .. made]

\* The consent behind a sign-in's token is for the client, the scopes and the
\* prompt it was to ask for, by whichever link the code came, reused, expired or
\* of another command; unless its state was not required, and is not known.
GrantIsAsRequested ==
  \A p \in Processes :
    got[p] # 0 /\ ~ unchecked[p] => Asked(asked[got[p]]) = Asked(wish[p])

\* And so a read-only sign-in never has the user consent to any change, also when
\* the options ask for a drive scope that allows one.  (Google may add what the
\* user granted the same client before: include_granted_scopes.)
ReadonlyIsReadonly ==
  \A p \in Processes :
    got[p] # 0 /\ ~ unchecked[p] /\ wish[p].options.readonly =>
      \A scope \in Asked(asked[got[p]]).scopes : ~ CanChange(scope)
==============================================================================
