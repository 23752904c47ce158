----------------------------- MODULE ModelRoles -----------------------------
(***************************************************************************)
(* Which model each role of the core calls, and where: the settings row    *)
(* (core/features/settings/server/service.ts, repository.ts), the backends *)
(* it names (core/features/backends/server), and the two read caches.  A   *)
(* save that repoints a role, and an edit that repoints a backend, ask the *)
(* new endpoint for its models and clear the selections it does not serve. *)
(* A request awaits between its reads, the listing, its write and the      *)
(* upkeep of the cache: others run in between.                             *)
(***************************************************************************)
EXTENDS Naturals

CONSTANTS
  Roles, Chat, Audio, \* the chat role is what the others fall back to
  Unnamed,            \* the roles rolesUsingBackend does not ask about
  Backends, Models, None,
  Endpoints, Serves,  \* [Endpoints -> the models it lists]
  Befores,            \* the settings and catalogs there may be at the start
  Patches,            \* the saves that are made
  AtOnce,             \* how many requests may be under way together
  MaxRequests         \* bound on the requests that are made

Requests == 1..AtOnce
Modes == {"transcriptions", "chat"}

VARIABLES
  settings,      \* the row: [backend, model: by role, mode]
  catalog,       \* [Backends -> its endpoint, or None when there is no row]
  settingsCache, \* the row last read or written, or NoCache
  catalogCache,  \* the rows last read, or NoCache
  job,           \* what each request is at
  made,          \* requests made
  \* What the properties remember.
  excused,       \* roles whose model nobody had to prove: chosen in a save, not
                 \* listed, exempt
  crossed,       \* a change met another one under way, or a stale cache
  overtaken,     \* caches whose rows were written while a value was on its way
  wronged        \* a served model was cleared

rolesVars == <<settings, catalog, settingsCache, catalogCache, job, made, excused,
               crossed, overtaken, wronged>>

NoCache == <<>>
NoColumns == [role \in {} |-> None]
NoPatch == [backend |-> NoColumns, model |-> NoColumns, mode |-> None]

\* A request: what it does, to which backend (id, endpoint), the patch it will write,
\* the row it was judged by, the roles still to check, and a value on its way.
Idle == [kind |-> "none", at |-> "idle", id |-> None, endpoint |-> None, patch |-> NoPatch,
         before |-> NoCache, todo |-> {}, proven |-> {}, failed |-> {}, got |-> NoCache]

Changes == {"save", "edit", "create", "remove"}

Init ==
  /\ \E b \in Befores : settings = b.settings /\ catalog = b.catalog
  /\ settingsCache = NoCache /\ catalogCache = NoCache
  /\ job = [r \in Requests |-> Idle] /\ made = 0
  /\ excused = {} /\ crossed = FALSE /\ overtaken = {} /\ wronged = FALSE

-----------------------------------------------------------------------------
\* The rules.

\* The backend a role runs on.
Effective(rec, role) ==
  IF rec.backend[role] # None THEN rec.backend[role] ELSE rec.backend[Chat]

\* The row once a patch is applied over it.
Over(rec, patch) ==
  LET merged(new, old) ==
        [role \in Roles |-> IF role \in DOMAIN new THEN new[role] ELSE old[role]] IN
  [backend |-> merged(patch.backend, rec.backend), model |-> merged(patch.model, rec.model),
   mode    |-> IF patch.mode = None THEN rec.mode ELSE patch.mode]

listedModelRoles(mode) == IF mode = "chat" THEN Roles ELSE Roles \ {Audio}

\* A mutation: roles that inherit the chat backend are taken for not repointed.
RepointedItself(before, patch) ==
  {role \in listedModelRoles(Over(before, patch).mode) \ DOMAIN patch.model :
     /\ before.model[role] # None
     /\ Over(before, patch).backend[role] \notin {None, before.backend[role]}}

\* The roles a save repoints and whose stored selection it has to verify.
Repointed(before, patch) ==
  LET after == Over(before, patch) IN
  {role \in listedModelRoles(after.mode) \ DOMAIN patch.model :
     /\ DOMAIN patch.backend # {}
     /\ before.model[role] # None
     /\ Effective(after, role) \notin {None, Effective(before, role)}}

\* The roles an edit of a backend repoints.
Affected(rec, id) ==
  {role \in listedModelRoles(rec.mode) :
     Effective(rec, role) = id /\ rec.model[role] # None}

Named(patch) == {patch.backend[role] : role \in DOMAIN patch.backend} \ {None}

rolesUsingBackend(rec, id) == {role \in Roles \ Unnamed : rec.backend[role] = id}

-----------------------------------------------------------------------------
\* Requests and their reads.

\* What a request does next; it ends when there is nothing.
Goes(r, j) == job' = [job EXCEPT ![r] = j]
Ends(r) == Goes(r, Idle)

\* Another change is under way.
Meets(r) == \E q \in Requests \ {r} : job[q].kind \in Changes

\* The writes that were overtaken by one of these rows.
Overtakes(r, at) == \E q \in Requests \ {r} : job[q].at \in at

Begin(r) ==
  /\ job[r] = Idle /\ made < MaxRequests
  /\ made' = made + 1
  /\ \/ \E patch \in Patches :
          Goes(r, [Idle EXCEPT !.kind = "save", !.patch = patch,
                               !.at = IF Named(patch) # {} THEN "catalog" ELSE "settings"])
     \/ \E id \in Backends, to \in Endpoints :
          Goes(r, [Idle EXCEPT !.kind = "edit", !.id = id, !.endpoint = to, !.at = "catalog"])
     \/ \E id \in Backends, to \in Endpoints :
          /\ catalog[id] = None /\ \A q \in Requests : job[q].kind = "create" => job[q].id # id
          /\ Goes(r, [Idle EXCEPT !.kind = "create", !.id = id, !.endpoint = to, !.at = "change"])
     \/ \E id \in Backends :
          Goes(r, [Idle EXCEPT !.kind = "remove", !.id = id, !.at = "settings"])
     \/ Goes(r, [Idle EXCEPT !.kind = "resolve", !.at = "settings"])
  /\ UNCHANGED <<settings, catalog, settingsCache, catalogCache, excused, crossed,
                 overtaken, wronged>>

\* updateSettings and clearRoleModelsNotServed, once they know the row.
Judge(j, rec) ==
  LET todo == IF j.kind = "save" THEN Repointed(rec, j.patch) ELSE Affected(rec, j.id) IN
  IF todo # {}
    THEN [j EXCEPT !.before = rec, !.todo = todo, !.got = NoCache,
                   !.at = IF j.kind = "save" THEN "catalog" ELSE "list"]
    ELSE IF j.kind = "save" THEN [j EXCEPT !.before = rec, !.got = NoCache, !.at = "write"]
                            ELSE Idle

\* What a request does with the settings record.
WithSettings(j, rec) ==
  CASE j.kind = "remove" ->
         IF rolesUsingBackend(rec, j.id) # {} THEN Idle
                                              ELSE [j EXCEPT !.at = "change", !.got = NoCache]
    [] j.kind = "resolve" -> [j EXCEPT !.at = "catalog", !.got = NoCache]
    [] OTHER -> Judge(j, rec)

\* The next group of a save's checks: the roles now on one backend.
Group(j, id) == {role \in j.todo : Effective(Over(j.before, j.patch), role) = id}

\* What a request does with the backends: a save validates the ids of its patch, and
\* later finds the backend to list; an edit finds the row it changes.
WithCatalog(j, rows) ==
  CASE j.kind = "resolve" -> {Idle}
    [] j.kind = "edit" ->
         {IF rows[j.id] = None THEN Idle
          ELSE [j EXCEPT !.at = "change", !.before = rows[j.id], !.got = NoCache]}
    [] j.kind = "save" /\ j.before = NoCache ->
         {IF \E id \in Named(j.patch) : rows[id] = None THEN Idle
          ELSE [j EXCEPT !.at = "settings", !.got = NoCache]}
    [] OTHER ->
         {IF rows[id] # None
            THEN [j EXCEPT !.at = "list", !.id = id, !.endpoint = rows[id], !.got = NoCache]
            ELSE [j EXCEPT !.todo = @ \ Group(j, id), !.failed = @ \cup Group(j, id),
                           !.got = NoCache,
                           !.at = IF j.todo = Group(j, id) THEN "write" ELSE "catalog"] :
          id \in {Effective(Over(j.before, j.patch), role) : role \in j.todo}}

\* getSettingsRecord: from the cache, or a query whose answer is cached when it comes.
ReadSettings(r) ==
  /\ job[r].at = "settings"
  /\ IF settingsCache = NoCache
       THEN Goes(r, [job[r] EXCEPT !.at = "row", !.got = settings]) /\ UNCHANGED crossed
       ELSE /\ Goes(r, WithSettings(job[r], settingsCache))
            /\ crossed' = (crossed \/ (job[r].kind \in Changes /\ settingsCache # settings))
  /\ UNCHANGED <<settings, catalog, settingsCache, catalogCache, made, excused, overtaken,
                 wronged>>

KeepSettings(r) ==
  /\ job[r].at = "row"
  /\ settingsCache' = job[r].got
  /\ Goes(r, WithSettings(job[r], job[r].got))
  /\ UNCHANGED <<settings, catalog, catalogCache, made, excused, crossed, overtaken, wronged>>

\* listBackends, behind getBackendById.
ReadCatalog(r) ==
  /\ job[r].at = "catalog"
  /\ IF catalogCache = NoCache
       THEN Goes(r, [job[r] EXCEPT !.at = "rows", !.got = catalog]) /\ UNCHANGED crossed
       ELSE /\ \E j \in WithCatalog(job[r], catalogCache) : Goes(r, j)
            /\ crossed' = (crossed \/ (job[r].kind \in Changes /\ catalogCache # catalog))
  /\ UNCHANGED <<settings, catalog, settingsCache, catalogCache, made, excused, overtaken,
                 wronged>>

KeepCatalog(r) ==
  /\ job[r].at = "rows"
  /\ catalogCache' = job[r].got
  /\ \E j \in WithCatalog(job[r], job[r].got) : Goes(r, j)
  /\ UNCHANGED <<settings, catalog, settingsCache, made, excused, crossed, overtaken, wronged>>

-----------------------------------------------------------------------------
\* Listing and writing.

\* An edit checks all the roles of its backend, a save one group after the other.
Checked(j) == IF j.kind = "edit" THEN j.todo ELSE Group(j, j.id)
Then(j) == IF j.todo # Checked(j) THEN "catalog" ELSE "write"

\* A patch of the models that clears those of some roles as well.
Clearing(model, gone) ==
  [role \in gone \cup DOMAIN model |-> IF role \in gone THEN None ELSE model[role]]

\* The endpoint answers: the selections it does not list are cleared in the patch.
Listed(r) ==
  LET j == job[r]
      gone == {role \in Checked(j) : j.before.model[role] \notin Serves[j.endpoint]}
      next == [j EXCEPT !.todo = @ \ Checked(j), !.proven = @ \cup Checked(j), !.at = Then(j),
                        !.patch.model = Clearing(@, gone)] IN
  /\ j.at = "list"
  /\ IF j.kind = "edit" /\ gone = {} THEN Ends(r) ELSE Goes(r, next)
  /\ excused' = IF j.kind = "edit" /\ gone = {} THEN excused \ Checked(j) ELSE excused
  /\ UNCHANGED <<settings, catalog, settingsCache, catalogCache, made, crossed, overtaken,
                 wronged>>

\* It does not: nothing is cleared on unproven absence.
ListingFails(r) ==
  LET j == job[r] IN
  /\ j.at = "list"
  /\ IF j.kind = "edit"
       THEN Ends(r) /\ excused' = excused \cup Checked(j)
       ELSE /\ Goes(r, [j EXCEPT !.todo = @ \ Checked(j), !.failed = @ \cup Checked(j),
                                 !.at = Then(j)])
            /\ UNCHANGED excused
  /\ UNCHANGED <<settings, catalog, settingsCache, catalogCache, made, crossed, overtaken,
                 wronged>>

\* Bookkeeping of a write of the row: what it leaves unproven, and whom it wrongs.
Remember(r, row) ==
  LET j == job[r]
      cleared == {role \in j.proven \cap DOMAIN j.patch.model : j.patch.model[role] = None}
      chosen == DOMAIN j.patch.model \ cleared
      exempt == IF "transcriptions" \in {settings.mode, row.mode} THEN {Audio} ELSE {}
      served(role) ==
        LET id == Effective(row, role) IN
        /\ id # None /\ catalog[id] # None
        /\ settings.model[role] \in Serves[catalog[id]] IN
  /\ excused' = (excused \cup chosen \cup j.failed \cup exempt) \ j.proven
  /\ wronged' = (wronged \/ \E role \in cleared : served(role))
  /\ crossed' = (crossed \/ Meets(r))

\* upsertSettings: only the patched columns; a backend that is gone is refused by the
\* foreign key.
Upsert(r) ==
  LET j == job[r]
      row == Over(settings, j.patch) IN
  /\ j.at = "write"
  /\ IF \A id \in Named(j.patch) : catalog[id] # None
       THEN /\ settings' = row /\ Goes(r, [j EXCEPT !.at = "written", !.got = row])
            /\ Remember(r, row)
            /\ overtaken' = IF Overtakes(r, {"row", "written"})
                              THEN overtaken \cup {"settings"} ELSE overtaken
       ELSE Ends(r) /\ UNCHANGED <<settings, excused, wronged, crossed, overtaken>>
  /\ UNCHANGED <<catalog, settingsCache, catalogCache, made>>

Written(r) ==
  /\ job[r].at = "written"
  /\ settingsCache' = job[r].got
  /\ Ends(r)
  /\ UNCHANGED <<settings, catalog, catalogCache, made, excused, crossed, overtaken, wronged>>

\* insertBackend, updateBackend, deleteBackend: the row of the catalog.  A backend a
\* role names is not deleted (on delete restrict).
Change(r) ==
  LET j == job[r]
      gone == catalog[j.id] = None /\ j.kind # "create" IN
  /\ j.at = "change"
  /\ IF j.kind = "remove" /\ \E role \in Roles : settings.backend[role] = j.id
       THEN Ends(r) /\ UNCHANGED <<catalog, crossed, overtaken>>
       ELSE /\ catalog' = IF gone THEN catalog
                          ELSE [catalog EXCEPT ![j.id] = IF j.kind = "remove" THEN None
                                                                             ELSE j.endpoint]
            /\ Goes(r, [j EXCEPT !.at = "changed", !.endpoint = IF gone THEN j.before ELSE @])
            /\ crossed' = (crossed \/ Meets(r))
            /\ overtaken' = IF Overtakes(r, {"rows"}) THEN overtaken \cup {"catalog"}
                                                      ELSE overtaken
  /\ UNCHANGED <<settings, settingsCache, catalogCache, made, excused, wronged>>

\* Its cache is dropped; an edit that moved the endpoint goes on to the roles.
Changed(r) ==
  LET j == job[r] IN
  /\ j.at = "changed"
  /\ catalogCache' = NoCache
  /\ IF j.kind = "edit" /\ j.endpoint # j.before
       THEN Goes(r, [j EXCEPT !.at = "settings"])
       ELSE Ends(r)
  /\ overtaken' = IF Overtakes(r, {"rows"}) THEN overtaken ELSE overtaken \ {"catalog"}
  /\ UNCHANGED <<settings, catalog, settingsCache, made, excused, crossed, wronged>>

\* The three seconds of a cache are over.
Expire ==
  /\ \/ /\ settingsCache # NoCache /\ settingsCache' = NoCache
        /\ overtaken' = IF \E q \in Requests : job[q].at \in {"row", "written"}
                          THEN overtaken ELSE overtaken \ {"settings"}
        /\ UNCHANGED catalogCache
     \/ /\ catalogCache # NoCache /\ catalogCache' = NoCache
        /\ overtaken' = IF \E q \in Requests : job[q].at = "rows"
                          THEN overtaken ELSE overtaken \ {"catalog"}
        /\ UNCHANGED settingsCache
  /\ UNCHANGED <<settings, catalog, job, made, excused, crossed, wronged>>

Next ==
  \/ \E r \in Requests :
       \/ Begin(r)
       \/ ReadSettings(r) \/ KeepSettings(r) \/ ReadCatalog(r) \/ KeepCatalog(r)
       \/ Listed(r) \/ ListingFails(r)
       \/ Upsert(r) \/ Written(r) \/ Change(r) \/ Changed(r)
  \/ Expire

-----------------------------------------------------------------------------
\* Properties.

Rows == [backend : [Roles -> Backends \cup {None}], model : [Roles -> Models \cup {None}],
         mode : Modes]
Catalogs == [Backends -> Endpoints \cup {None}]
Columns(values) == UNION {[some -> values \cup {None}] : some \in SUBSET Roles}
PatchSet == [backend : Columns(Backends), model : Columns(Models), mode : Modes \cup {None}]

RolesTypeOK ==
  /\ settings \in Rows /\ settingsCache \in Rows \cup {NoCache}
  /\ catalog \in Catalogs /\ catalogCache \in Catalogs \cup {NoCache}
  /\ \A r \in Requests :
       job[r].at \in {"idle", "settings", "row", "catalog", "rows", "list", "write", "written",
                      "change", "changed"}
  /\ made \in 0..MaxRequests /\ excused \subseteq Roles
  /\ crossed \in BOOLEAN /\ overtaken \subseteq {"settings", "catalog"} /\ wronged \in BOOLEAN

\* The roles whose stored model the endpoint they run on does not list, though a
\* listing would tell.
UnservedIn(rec, rows) ==
  {role \in listedModelRoles(rec.mode) :
     LET id == Effective(rec, role) IN
     /\ rec.model[role] # None /\ id # None /\ rows[id] # None
     /\ rec.model[role] \notin Serves[rows[id]]}
Unserved == UnservedIn(settings, catalog)

\* After any sequence of saves and edits, a role is left with a model its backend
\* does not list only when nobody had to prove it: the operator chose it in the same
\* save, the listing failed, or it is an audio model in transcriptions mode.
StaleIsCleared ==
  ~crossed /\ (\A r \in Requests : job[r].kind \notin Changes) => Unserved \subseteq excused

\* A model the backend does list is never cleared by a check, unless two changes
\* crossed: configuration is not destroyed on unproven absence.
ServedIsKept == ~crossed => ~wronged

\* A cache differs from its rows only while a write is on its way to it, or after a
\* write came while an older value was: never longer than its time.
CachesTellRows ==
  /\ settingsCache \notin {NoCache, settings} =>
       "settings" \in overtaken \/ \E r \in Requests : job[r].at = "written"
  /\ catalogCache \notin {NoCache, catalog} =>
       "catalog" \in overtaken \/ \E r \in Requests : job[r].at = "changed"

\* No role points to a backend that is gone, whoever deletes while whoever saves.
Stand(rec, rows) ==
  \A role \in Roles : rec.backend[role] # None => rows[rec.backend[role]] # None
NamedBackendsStand == Stand(settings, catalog)

RolesKept == StaleIsCleared /\ ServedIsKept /\ CachesTellRows /\ NamedBackendsStand

=============================================================================
