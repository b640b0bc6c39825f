-------------------------------- MODULE Scopes --------------------------------
(***************************************************************************)
(* Which scopes a sign-in asks Google for (googleauth/service.go).  A      *)
(* scope is what it opens and how: most services have a scope to change    *)
(* things and one to read them.                                            *)
(***************************************************************************)
EXTENDS FiniteSets

Services == {"gmail", "calendar", "chat", "classroom", "drive", "docs", "slides",
             "contacts", "tasks", "sheets", "people", "forms", "appscript",
             "groups", "keep", "youtube"}

Options == [services : SUBSET Services, readonly : BOOLEAN,
            driveScope : {"", "full", "readonly", "file"}]

Table(f) == [s \in Services |-> IF s \in DOMAIN f THEN f[s] ELSE {}]

\* What a service opens in the way the options ask for.
EitherWay == Table([
  calendar |-> {"calendar"},
  chat |-> {"chat.spaces", "chat.messages", "chat.memberships"},
  classroom |-> {"classroom.courses", "classroom.rosters",
    "classroom.coursework.students", "classroom.coursework.me",
    "classroom.courseworkmaterials", "classroom.announcements",
    "classroom.topics", "classroom.guardianlinks.students"},
  docs |-> {"documents"}, slides |-> {"presentations"}, sheets |-> {"spreadsheets"},
  contacts |-> {"contacts"}, tasks |-> {"tasks"}, forms |-> {"forms.body"},
  appscript |-> {"script.projects", "script.deployments"},
  youtube |-> {"youtube"}])

\* What it opens to change things only, to read only, and always to read.
WhenFull == Table([
  gmail |-> {"gmail.modify", "gmail.settings.basic", "gmail.settings.sharing"},
  appscript |-> {"script.processes"}])

WhenReadonly == Table([gmail |-> {"gmail"}])

Always == Table([
  chat |-> {"chat.users.readstate"},
  classroom |-> {"classroom.profile.emails", "classroom.profile.photos"},
  contacts |-> {"contacts.other", "directory"},
  people |-> {"profile"}, forms |-> {"forms.responses"},
  groups |-> {"cloud-identity.groups"}, keep |-> {"keep"}])

OnDrive == {"drive", "docs", "slides", "sheets"}

Access(names, how) == {<<n, how>> : n \in names}

\* Mutant of DriveScope: an explicit drive scope overrides read-only.
DriveScopeAsTold(o) ==
  <<"drive", IF o.driveScope \in {"readonly", "file"} THEN o.driveScope
             ELSE IF o.readonly THEN "readonly" ELSE "full">>

DriveScope(o) ==
  <<"drive", IF o.readonly THEN "readonly"
             ELSE IF o.driveScope \in {"readonly", "file"} THEN o.driveScope
             ELSE "full">>

ScopesForService(s, o) ==
  UNION { Access(EitherWay[s], IF o.readonly THEN "readonly" ELSE "full"),
          Access(IF o.readonly THEN WhenReadonly[s] ELSE WhenFull[s],
                 IF o.readonly THEN "readonly" ELSE "full"),
          Access(Always[s], "readonly"),
          IF s \in OnDrive THEN {DriveScope(o)} ELSE {} }

Identity == Access({"openid", "email", "userinfo.email"}, "readonly")

ScopesForManageWithOptions(o) ==
  Identity \cup UNION {ScopesForService(s, o) : s \in o.services}

CanChange(scope) == scope[2] # "readonly"
==============================================================================
