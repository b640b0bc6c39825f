----------------------------- MODULE SignalStore -----------------------------
(***************************************************************************)
(* The signals table and the repository in front of it                     *)
(* (internal/repository/postgres_signal.go, migrations 000001).            *)
(*                                                                         *)
(* The table is a value: a function from keys to rows, the key being the   *)
(* UNIQUE (source_url, tenant_id) constraint.  Each operator is the effect *)
(* or the result of one repository method, which runs as one transaction   *)
(* under the tenant its caller sets, so a module that uses them takes one  *)
(* step per call.                                                          *)
(***************************************************************************)
EXTENDS Integers, FiniteSets

CONSTANTS
  Tenants,    \* tenant ids
  Urls,       \* source URLs
  Contents,   \* raw contents that harvesting can find behind a URL
  None        \* the empty string: no content, no distillation

ASSUME NoneAssumption == None \notin Contents

Keys == Tenants \X Urls

TenantOf(key) == key[1]

Scopes == {"private", "team"}

(***************************************************************************)
(* id grows with every insert, so it also orders rows by created_at, which *)
(* the upsert keeps; id 0 is a key with no row.  A distillation is the     *)
(* content it was made from.  meta tells whose metadata the row carries:   *)
(* what the harvester found or what the analysis pass produced.            *)
(***************************************************************************)
Row == [id : Nat \ {0}, content : Contents, distillation : Contents \cup {None},
        meta : {"harvested", "analysed"}, scope : Scopes]

NoRow == [id |-> 0, content |-> None, distillation |-> None,
          meta |-> "harvested", scope |-> "private"]

Table == [Keys -> Row \cup {NoRow}]

Exists(tbl, key) == tbl[key].id # 0

\* Mutant of Visible: a connection that row level security does not apply to.
VisibleToAll(tbl, t) == {key \in Keys : Exists(tbl, key)}

\* RLS policy tenant_isolation: what a transaction of tenant t can see.
Visible(tbl, t) == {key \in Keys : TenantOf(key) = t /\ Exists(tbl, key)}

\* The signals a caller of Save builds: every one asks for ScopePrivate.
Harvested(content) ==
  [content |-> content, distillation |-> None, meta |-> "harvested",
   scope |-> "private"]

Distilled(content, distillation) ==
  [content |-> content, distillation |-> distillation, meta |-> "analysed",
   scope |-> "private"]

\* Mutants of Save: an insert that forgets the scope; an update that takes the
\* scope of the signal; one that keeps the old distillation for an empty one.
SaveWithoutScope(tbl, key, signal, newId) ==
  [tbl EXCEPT ![key] =
     [id |-> IF @.id = 0 THEN newId ELSE @.id, content |-> signal.content,
      distillation |-> signal.distillation, meta |-> signal.meta,
      scope |-> IF @.id = 0 THEN None ELSE @.scope]]

SaveTakingScope(tbl, key, signal, newId) ==
  [tbl EXCEPT ![key] =
     [id |-> IF @.id = 0 THEN newId ELSE @.id, content |-> signal.content,
      distillation |-> signal.distillation, meta |-> signal.meta,
      scope |-> signal.scope]]

SaveKeepingBrief(tbl, key, signal, newId) ==
  [tbl EXCEPT ![key] =
     [id |-> IF @.id = 0 THEN newId ELSE @.id, content |-> signal.content,
      distillation |-> IF signal.distillation = None
                       THEN @.distillation ELSE signal.distillation,
      meta |-> signal.meta, scope |-> @.scope]]

\* Save: INSERT ... ON CONFLICT (source_url, tenant_id) DO UPDATE.
Save(tbl, key, signal, newId) ==
  [tbl EXCEPT ![key] =
     IF @.id = 0
     THEN [id |-> newId, content |-> signal.content,
           distillation |-> signal.distillation, meta |-> signal.meta,
           scope |-> signal.scope]
     ELSE [id |-> @.id, content |-> signal.content,
           distillation |-> signal.distillation, meta |-> signal.meta,
           scope |-> @.scope]]

\* PromoteToTeam: one UPDATE by id, over the rows the tenant can see.
WithScope(row, scope) ==
  [id |-> row.id, content |-> row.content, distillation |-> row.distillation,
   meta |-> row.meta, scope |-> scope]

Matching(tbl, t, id) == {key \in Visible(tbl, t) : tbl[key].id = id}

PromoteToTeam(tbl, t, id) ==
  [key \in Keys |-> IF key \in Matching(tbl, t, id)
                    THEN WithScope(tbl[key], "team")
                    ELSE tbl[key]]

\* FindUnsynthesized: WHERE distillation = '' ORDER BY created_at DESC LIMIT n.
Unsynthesized(tbl, t) == {key \in Visible(tbl, t) : tbl[key].distillation = None}

FindUnsynthesized(tbl, t, n) ==
  {key \in Unsynthesized(tbl, t) :
     Cardinality({k \in Unsynthesized(tbl, t) : tbl[k].id > tbl[key].id}) < n}
==============================================================================
