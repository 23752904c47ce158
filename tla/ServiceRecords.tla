--------------------------- MODULE ServiceRecords ---------------------------
(***************************************************************************)
(* The services the theorems are about, which keep records of people, of   *)
(* what was said and of how the core is set up: identity links and         *)
(* accounts, the memory, the insights, the model roles, and the feedback   *)
(* on replies.  Services runs them beside the others.                      *)
(***************************************************************************)
EXTENDS Naturals, FiniteSets, Sequences

CONSTANTS
  Roles, Chat, Audio, Unnamed, Backends, Models, Unset, Endpoints, Serves,
  RoleBefores, Patches, RolesAtOnce, MaxRoleRequests,        \* of ModelRoles
  Replies, PressesAtOnce, MaxReactions, MaxAnswers, MaxRuns, MaxMishaps,    \* of Feedback
  Accounts, Identities, LinkBefores, LinksAtOnce, MaxLinkRequests,   \* of IdentityLinks
  UserFacts, GeneralFacts, DayFacts, MaxNotes, MaxEdits,     \* of MemoryNight
  NHours, HoursPerDay, Started, Seeded, Safety, MaxHours, MaxPeriods,      \* of Insights
  MaxDrops, MaxFaults

VARIABLES
  \* ModelRoles
  settings, catalog, settingsCache, catalogCache, job, made, excused, crossed,
  overtakenCaches, wronged,
  \* Feedback
  row, menus, chain, press, learner, daily, reactions, pressed, runs, mishaps,
  answers, answered, folded, crossedRows, stale, astray, cutShort,
  \* IdentityLinks
  role, activeAccounts, assistants, docs, linkOf, links, codes, run, requests, operated,
  parted, joined, told, crossedMatters,
  \* MemoryNight
  pending, doc, marked, pass, unqueued, backlog, folding, base, budget, said, given,
  handed, crossedNotes, docEdits,
  \* Insights
  now, has, score, rollup, floor, request, lost, faults, importing, step, from,
  asOf, target, owed, touched, unproven, spoiled, narrowed

rolesVars ==
  <<settings, catalog, settingsCache, catalogCache, job, made, excused, crossed,
    overtakenCaches, wronged>>
feedbackVars ==
  <<row, menus, chain, press, learner, daily, reactions, pressed, runs, mishaps,
    answers, answered, folded, crossedRows, stale, astray, cutShort>>
linkVars ==
  <<role, activeAccounts, assistants, docs, linkOf, links, codes, run, requests, operated,
    parted, joined, told, crossedMatters>>
memoryVars ==
  <<pending, doc, marked, pass, unqueued, backlog, folding, base, budget, said, given,
    handed, crossedNotes, docEdits>>
insightVars ==
  <<now, has, score, rollup, floor, request, lost, faults, importing, step, from,
    asOf, target, owed, touched, unproven, spoiled, narrowed>>

MR == INSTANCE ModelRoles WITH
        None <- Unset, Befores <- RoleBefores, AtOnce <- RolesAtOnce,
        MaxRequests <- MaxRoleRequests, overtaken <- overtakenCaches
FB == INSTANCE Feedback WITH
        AtOnce <- PressesAtOnce, run <- daily, given <- answered, crossed <- crossedRows
IL == INSTANCE IdentityLinks WITH
        Befores <- LinkBefores, AtOnce <- LinksAtOnce, MaxRequests <- MaxLinkRequests,
        active <- activeAccounts, made <- requests, crossed <- crossedMatters
MN == INSTANCE MemoryNight WITH edits <- docEdits, crossed <- crossedNotes
HI == INSTANCE Insights WITH drops <- lost

\* A link there is at the start joins no two accounts, and some account is in none.
ASSUME LinksAssumption ==
  /\ LinksAtOnce \in Nat /\ MaxLinkRequests \in Nat
  /\ IsFiniteSet(Accounts) /\ IsFiniteSet(Identities)
  /\ Accounts # {} /\ Accounts \cap Identities = {}
  /\ \A s \in LinkBefores :
       /\ s \subseteq IL!Refs /\ Cardinality(s) >= 2 /\ Cardinality(s \cap Accounts) <= 1
       /\ Accounts \ s # {}

\* A person's facts are not those for everybody, and the extraction finds facts.
ASSUME MemoryAssumption ==
  /\ IsFiniteSet(MN!Facts) /\ UserFacts \cap GeneralFacts = {} /\ DayFacts \subseteq MN!Facts
  /\ MaxNotes \in Nat /\ MaxEdits \in Nat

\* The insights begin at one of the hours, and a day has some.
ASSUME InsightsAssumption ==
  /\ {NHours, Safety, MaxPeriods, MaxDrops, MaxFaults} \subseteq Nat
  /\ {HoursPerDay, MaxHours} \subseteq Nat \ {0}
  /\ Started \in HI!Hours /\ Seeded \subseteq HI!Hours

\* A save names roles of the core, backends and models; the rows of the start name
\* backends that stand and models that these serve.
ASSUME RolesAssumption ==
  /\ Unset \notin Backends \cup Models \cup Endpoints \cup MR!Modes /\ Backends # {}
  /\ {Chat, Audio} \subseteq Roles /\ MaxRoleRequests \in Nat
  /\ Patches \subseteq MR!PatchSet
  /\ \A b \in RoleBefores :
       /\ b.settings \in MR!Rows /\ b.catalog \in MR!Catalogs
       /\ MR!Stand(b.settings, b.catalog) /\ MR!UnservedIn(b.settings, b.catalog) = {}

\* The numbers of presses, reactions, answers, runs and mishaps are numbers.
ASSUME FeedbackAssumption ==
  {PressesAtOnce, MaxReactions, MaxAnswers, MaxRuns, MaxMishaps} \subseteq Nat
=============================================================================
