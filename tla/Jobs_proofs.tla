----------------------------- MODULE Jobs_proofs -----------------------------
(***************************************************************************)
(* Theorems about the jobs of the clock: the daily job, the poller of      *)
(* timed tasks, their wall clock, and the summaries of the days; and about *)
(* the jobs of a quiet chat: the vision backfill and the search index; and *)
(* about the gate their calls to the model wait at.                        *)
(***************************************************************************)
EXTENDS TimedJobs, IdleJobs, PriorityGate, FiniteSetTheorems, WellFoundedInduction, TLAPS

\* A set of numbers that is not empty has a least element.
LEMMA Least ==
  ASSUME NEW T, T \subseteq Nat, T # {}
  PROVE  \E x \in T : \A y \in T : x <= y
<1> DEFINE R == OpToRel(<, Nat)
<1>1. \A x, y \in Nat : y < x => <<y, x>> \in R
  <2>1. R = {p \in Nat \X Nat : p[1] < p[2]}
    BY Zenon DEF OpToRel
  <2> HIDE DEF R
  <2> QED BY <2>1
<1>2. IsWellFoundedOn(R, Nat)
  BY Zenon, NatLessThanWellFounded
<1> HIDE DEF R
<1>3. PICK x \in T : \A y \in T : ~ (<<y, x>> \in R)
  BY <1>2, WFMin, Zenon
<1>4. \A y \in T : x <= y
  <2> TAKE y \in T
  <2>1. x \in Nat /\ y \in Nat
    OBVIOUS
  <2>2. ~ (y < x)
    BY <1>1, <1>3, <2>1, Zenon
  <2> QED  BY <2>1, <2>2
<1> QED BY <1>4

\* A set of numbers up to N that is not empty has a greatest element.
LEMMA Greatest ==
  ASSUME NEW N \in Nat, NEW T, T \subseteq 1 .. N, T # {}
  PROVE  \E x \in T : \A y \in T : y <= x
<1> DEFINE U == {N - x : x \in T}
<1>0. \A x \in T : x \in Nat /\ N - x \in Nat
  OBVIOUS
<1>1. U \subseteq Nat /\ U # {}
  BY <1>0
<1>2. PICK u \in U : \A v \in U : u <= v
  BY <1>1, Least
<1>3. PICK x \in T : u = N - x
  OBVIOUS
<1>4. ASSUME NEW y \in T PROVE y <= x
  <2>1. u <= N - y
    BY <1>2
  <2>2. x \in Nat /\ y \in Nat
    BY <1>0
  <2> QED  BY <1>3, <2>1, <2>2
<1> QED  BY <1>4

\* A set of numbers up to N is finite: what adding and removing one do to its size.
LEMMA Cards ==
  ASSUME NEW N \in Nat, NEW S, S \subseteq 1 .. N
  PROVE  /\ IsFiniteSet(S) /\ Cardinality(S) \in Nat /\ (Cardinality(S) = 0 <=> S = {})
         /\ \A d : Cardinality(S \cup {d}) <= Cardinality(S) + 1
         /\ \A d \in S : Cardinality(S \ {d}) = Cardinality(S) - 1
         /\ \A T : T \subseteq S => Cardinality(T) <= Cardinality(S)
<1>1. IsFiniteSet(1 .. N)
  BY FS_Interval
<1>2. IsFiniteSet(S)
  BY <1>1, FS_Subset
<1>3. \A d : Cardinality(S \cup {d}) = Cardinality(S) \/ Cardinality(S \cup {d}) = Cardinality(S) + 1
  BY <1>2, FS_AddElement
<1>4. \A d \in S : Cardinality(S \ {d}) = Cardinality(S) - 1
  BY <1>2, FS_RemoveElement
<1>5. \A T : T \subseteq S => Cardinality(T) <= Cardinality(S)
  BY <1>2, FS_Subset
<1>6. Cardinality(S) \in Nat
  BY <1>2, FS_CardinalityType
<1>7. Cardinality(S) = 0 <=> S = {}
  BY <1>2, FS_EmptySet
<1>8. ASSUME NEW d PROVE Cardinality(S \cup {d}) <= Cardinality(S) + 1
  <2> DEFINE n == Cardinality(S \cup {d})
  <2> DEFINE m == Cardinality(S)
  <2>1. m \in Nat /\ (n = m \/ n = m + 1)
    BY <1>3, <1>6
  <2> HIDE DEF n, m
  <2>2. n <= m + 1
    BY <2>1
  <2> QED  BY <2>2 DEF n, m
<1> QED  BY <1>2, <1>4, <1>5, <1>6, <1>7, <1>8, Zenon

\* The numbers of a set before another.
Before(S, x) == {y \in S : y < x}

\* F is the first b of a set of numbers.
FirstOf(F, S, b) ==
  F \subseteq S /\ \A x \in S : x \in F <=> Cardinality(Before(S, x)) < b

\* The first b of a set of numbers, as the jobs fetch them (ORDER BY ... LIMIT b): at
\* most b, not none of some, and b before every number they leave out.
LEMMA FirstFew ==
  ASSUME NEW N \in Nat, NEW b \in Nat, NEW S, S \subseteq 1 .. N, NEW F, FirstOf(F, S, b)
  PROVE  /\ F \subseteq S /\ Cardinality(F) \in Nat /\ Cardinality(F) <= b
         /\ b # 0 /\ S # {} => F # {}
         /\ \A x \in S \ F : b <= Cardinality(Before(F, x))
         /\ ~ (S \subseteq F) => b <= Cardinality(F)
<1>0. F \subseteq S /\ \A x \in S : x \in F <=> Cardinality(Before(S, x)) < b
  BY DEF FirstOf
<1>1. S \subseteq Nat /\ \A x : Before(S, x) \subseteq S /\ Before(S, x) \subseteq 1 .. N
  <2>1. \A x : Before(S, x) \subseteq S
    BY DEF Before
  <2>2. S \subseteq Nat
    OBVIOUS
  <2> QED  BY <2>1, <2>2
<1>2. F \subseteq 1 .. N /\ Cardinality(F) \in Nat
  BY <1>0, Cards
<1>3. Cardinality(F) <= b
  <2>1. CASE F = {}
    <3>1. Cardinality(F) = 0
      BY <2>1, FS_EmptySet, Zenon
    <3> QED  BY <3>1
  <2>2. CASE F # {}
    <3>1. PICK d \in F : \A k \in F : k <= d
      BY <1>2, <2>2, Greatest
    <3>2. Cardinality(Before(S, d)) < b
      BY <1>0, <3>1
    <3>3. F \ {d} \subseteq Before(S, d)
      <4> SUFFICES ASSUME NEW k \in F, k # d PROVE k \in S /\ k < d
        BY DEF Before
      <4>1. k \in Nat /\ d \in Nat /\ k <= d
        BY <1>0, <1>1, <3>1
      <4> QED  BY <1>0, <4>1
    <3>4. Cardinality(F \ {d}) <= Cardinality(Before(S, d)) /\ Cardinality(Before(S, d)) \in Nat
      BY <1>1, <3>3, Cards
    <3>5. Cardinality(F \ {d}) = Cardinality(F) - 1
      BY <1>2, <3>1, Cards
    <3> QED  BY <1>2, <3>2, <3>4, <3>5
  <2> QED  BY <2>1, <2>2
<1>4. ASSUME b # 0, S # {} PROVE F # {}
  <2>1. PICK x \in S : \A y \in S : x <= y
    BY <1>1, <1>4, Least
  <2>2. Before(S, x) = {}
    <3> SUFFICES ASSUME NEW y \in S, y < x PROVE FALSE
      BY DEF Before
    <3>1. x \in Nat /\ y \in Nat /\ x <= y
      BY <1>1, <2>1
    <3> QED  BY <3>1
  <2>3. Cardinality(Before(S, x)) = 0
    BY <2>2, FS_EmptySet
  <2>4. 0 < b
    BY <1>4
  <2> QED  BY <1>0, <2>1, <2>3, <2>4
<1>5. ASSUME NEW x \in S \ F PROVE b <= Cardinality(Before(F, x))
  <2> DEFINE T == S \ F
  <2> DEFINE G == Before(F, x)
  <2>1. PICK d \in T : \A k \in T : d <= k
    <3>1. T \subseteq Nat /\ T # {}
      BY <1>1
    <3> HIDE DEF T
    <3> QED  BY <3>1, Least
  <2>2. ~ (Cardinality(Before(S, d)) < b) /\ d \in Nat /\ x \in Nat /\ d <= x
    BY <1>0, <1>1, <2>1
  <2>3. Before(S, d) \subseteq G
    <3> SUFFICES ASSUME NEW k \in S, k < d PROVE k \in F /\ k < x
      BY DEF Before
    <3>1. k \in Nat
      BY <1>1
    <3>2. k \in F
      BY <2>1, <2>2, <3>1
    <3> QED  BY <2>2, <3>1, <3>2
  <2>4. G \subseteq 1 .. N
    BY <1>2 DEF Before
  <2> HIDE DEF G
  <2>5. Cardinality(Before(S, d)) <= Cardinality(G) /\ Cardinality(Before(S, d)) \in Nat
        /\ Cardinality(G) \in Nat
    BY <1>1, <2>3, <2>4, Cards
  <2>6. b <= Cardinality(G)
    BY <2>2, <2>5
  <2> QED  BY <2>6 DEF G
<1>6. ASSUME ~ (S \subseteq F) PROVE b <= Cardinality(F)
  <2>1. PICK x \in S \ F : TRUE
    BY <1>6
  <2> DEFINE G == Before(F, x)
  <2>2. b <= Cardinality(G)
    BY <1>5
  <2>3. G \subseteq F /\ G \subseteq 1 .. N
    BY <1>2 DEF Before
  <2> HIDE DEF G
  <2>4. Cardinality(G) <= Cardinality(F) /\ Cardinality(G) \in Nat
    BY <1>2, <2>3, Cards
  <2> QED  BY <1>2, <2>2, <2>4
<1> QED  BY <1>0, <1>2, <1>3, <1>4, <1>5, <1>6

-----------------------------------------------------------------------------
\* A step of the jobs is a step of each of them, or leaves it alone.
LEMMA Moves ==
  ASSUME [Next]_allVars
  PROVE  /\ [DJ!Next]_(DJ!dailyVars) /\ [TP!Next]_(TP!taskVars)
         /\ [CA!Next]_(CA!calendarVars) /\ [DS!Next]_(DS!dayVars)
<1> USE DEF Next, allVars, dailyVars, taskVars, calendarVars, summaryVars
<1>1. [DJ!Next]_(DJ!dailyVars)
  BY DEF DJ!dailyVars, DJ!clock
<1>2. [TP!Next]_(TP!taskVars)
  BY DEF TP!taskVars, TP!tick, TP!bounds, TP!books
<1>3. [CA!Next]_(CA!calendarVars)
  BY DEF CA!calendarVars
<1>4. [DS!Next]_(DS!dayVars)
  BY DEF DS!dayVars, DS!stores, DS!sweep
<1> QED  BY <1>1, <1>2, <1>3, <1>4

-----------------------------------------------------------------------------
\* The daily job (DailyJob).

\* The instant today began at.
midnight == DJ!now - slot

\* The types; the stamp is not of the future.
ClockInv ==
  /\ day \in 0 .. NDays /\ slot \in DJ!Slots /\ runAt \in DJ!Slots
  /\ tick \in {"none", "asking", "body"}
  /\ forced => tick = "body"
  /\ lastDailyRunAt \in Int /\ DJ!Never <= lastDailyRunAt /\ lastDailyRunAt <= DJ!now
  /\ restarts \in 0 .. MaxRestarts /\ restartsToday \in 0 .. restarts
  /\ changes \in 0 .. MaxChanges /\ dueRuns \in [DJ!Slots -> Nat]

FlagInv == looked \in BOOLEAN /\ armed \in BOOLEAN

\* An instant the stamp has passed had one run more than the day had restarts, an
\* instant still ahead of it has none that the restarts do not excuse.
StampInv ==
  \A s \in DJ!Slots :
    /\ dueRuns[s] <= 1 + restartsToday
    /\ lastDailyRunAt < midnight + s => dueRuns[s] <= restartsToday

\* A stamp of today stands for a run of today, and a ticker that has looked has
\* left nothing undone.
covered == \E s \in DJ!Slots : dueRuns[s] > 0
LookInv ==
  /\ endedDay # "missed"
  /\ midnight <= lastDailyRunAt => covered
  /\ looked => slot < runAt \/ covered

DailyInv == ClockInv /\ StampInv /\ LookInv

\* Instants are numbers, and a day is as many slots long as it has.
LEMMA DayLength ==
  ASSUME NEW d \in Nat
  PROVE  d * NSlots \in Nat /\ (d + 1) * NSlots = d * NSlots + NSlots
  BY DailyAssumption

\* A midnight is a multiple of the day.
LEMMA Midnight ==
  ASSUME day \in Nat, slot \in DJ!Slots
  PROVE  DJ!now \in Nat /\ midnight \in Nat /\ midnight = day * NSlots /\ DJ!now = midnight + slot
<1>1. day * NSlots \in Nat
  BY DayLength
<1> QED  BY <1>1, DailyAssumption DEF midnight, DJ!now, DJ!Slots

\* A new day moves the midnight by the length of a day; a new slot does not move it.
LEMMA NextMidnight ==
  ASSUME day \in Nat, slot \in DJ!Slots, day' \in Nat, slot' \in DJ!Slots
  PROVE  /\ DJ!now' \in Nat /\ midnight' \in Nat /\ DJ!now' = midnight' + slot'
         /\ day' = day => midnight' = midnight
         /\ day' = day + 1 => midnight' = midnight + NSlots
<1>1. midnight = day * NSlots
  BY Midnight
<1>2. midnight' = day' * NSlots /\ DJ!now' = midnight' + slot' /\ midnight' \in Nat /\ DJ!now' \in Nat
  <2>1. \A s \in DJ!Slots : s \in Nat
    BY DEF DJ!Slots
  <2>2. \A m, s \in Nat : m + s \in Nat /\ (m + s) - s = m
    OBVIOUS
  <2>3. day' * NSlots \in Nat /\ slot' \in Nat
    BY <2>1, DayLength
  <2>4. DJ!now' = day' * NSlots + slot'
    BY DEF DJ!now
  <2>5. midnight' = DJ!now' - slot'
    BY DEF midnight
  <2> QED  BY <2>2, <2>3, <2>4, <2>5, Zenon
<1>3. day' = day + 1 => day' * NSlots = day * NSlots + NSlots
  BY DayLength
<1> QED  BY <1>1, <1>2, <1>3, Zenon

\* Without a tick of the clock the instant and its midnight stay.
LEMMA SameInstant ==
  ASSUME UNCHANGED <<day, slot>>
  PROVE  DJ!now' = DJ!now /\ midnight' = midnight
  BY DEF DJ!now, midnight

\* The flags of the daily job stay flags.
LEMMA FlagTypes == Spec => []FlagInv
<1>1. DJ!Init => FlagInv
  BY Zenon DEF DJ!Init, FlagInv
<1>2. FlagInv /\ [DJ!Next]_(DJ!dailyVars) => FlagInv'
  BY Zenon
    DEF FlagInv, DJ!Next, DJ!DailyStep, DJ!TimePasses, DJ!ChangeTime, DJ!Interval, DJ!RunNow, DJ!Ask,
      DJ!EndBody, DJ!Stop, DJ!Restart, DJ!clock, DJ!dailyVars
<1>3. Init => FlagInv
  BY <1>1 DEF Init
<1>4. FlagInv /\ [Next]_allVars => FlagInv'
  BY <1>2, Moves
<1> QED  BY <1>3, <1>4, PTL DEF Spec

\* The daily job starts with no day stamped ahead of the clock.
LEMMA InitDaily == DJ!Init => DailyInv
<1> SUFFICES ASSUME DJ!Init PROVE DailyInv
  OBVIOUS
<1> USE DailyAssumption DEF DJ!Init, DJ!Never, DJ!Slots, DJ!noRuns
<1>1. midnight = 0 /\ DJ!now = 0
  BY DEF DJ!now, midnight
<1>2. ClockInv
  BY <1>1 DEF ClockInv
<1>3. StampInv
  BY <1>1 DEF StampInv
<1>4. LookInv
  BY <1>1 DEF LookInv
<1> QED  BY <1>2, <1>3, <1>4 DEF DailyInv

\* Every step of the daily job keeps its invariant.
LEMMA StepDaily == DailyInv /\ [DJ!Next]_(DJ!dailyVars) => DailyInv'
<1> SUFFICES ASSUME DailyInv, [DJ!Next]_(DJ!dailyVars) PROVE DailyInv'
  OBVIOUS
<1> USE DailyAssumption DEF DailyInv, DJ!clock
<1>0. DJ!now \in Nat /\ midnight \in Nat /\ DJ!now = midnight + slot /\ slot \in Nat /\ slot < NSlots
  BY Midnight DEF ClockInv, DJ!Slots
\* The steps that run nothing and do not touch the clock.
<1>q. ASSUME UNCHANGED <<day, slot, dueRuns, lastDailyRunAt, endedDay, restarts, restartsToday>>,
             runAt' \in DJ!Slots, tick' \in {"none", "asking", "body"}, forced' => tick' = "body",
             changes' \in 0 .. MaxChanges,
             looked' => slot < runAt' \/ covered
      PROVE  DailyInv'
  <2>1. DJ!now' = DJ!now /\ midnight' = midnight
    BY <1>q, SameInstant
  <2>2. ClockInv'
    BY <1>q, <2>1 DEF ClockInv
  <2>3. StampInv'
    BY <1>q, <2>1 DEF StampInv
  <2>4. LookInv'
    BY <1>q, <2>1 DEF LookInv, covered
  <2> QED  BY <1>q, <2>2, <2>3, <2>4
<1>1. CASE DJ!TimePasses
  <2>1. looked' = FALSE
        /\ UNCHANGED <<runAt, armed, tick, forced, forceNext, lastDailyRunAt, restarts, changes>>
    BY <1>1 DEF DJ!TimePasses
  <2>2. CASE slot < NSlots - 1
    <3>1. slot' = slot + 1 /\ UNCHANGED <<day, dueRuns, restartsToday, endedDay>>
      BY <1>1, <2>2 DEF DJ!TimePasses
    <3>2. slot' \in DJ!Slots /\ day' \in Nat
      BY <1>0, <2>2, <3>1 DEF ClockInv, DJ!Slots
    <3>3. midnight' = midnight /\ DJ!now' = DJ!now + 1
      BY <1>0, <3>1, <3>2, NextMidnight DEF ClockInv
    <3>4. ClockInv'
      BY <1>0, <2>1, <3>1, <3>2, <3>3 DEF ClockInv
    <3>5. StampInv' /\ LookInv'
      BY <2>1, <3>1, <3>3 DEF StampInv, LookInv, covered
    <3> QED  BY <3>4, <3>5
  <2>3. CASE ~ (slot < NSlots - 1)
    <3>1. /\ tick # "asking" /\ day < NDays /\ day' = day + 1 /\ slot' = 0
          /\ dueRuns' = DJ!noRuns /\ restartsToday' = 0
          /\ endedDay' = IF covered THEN "covered"
                         ELSE IF ~armed \/ tick = "body" THEN "excused" ELSE "missed"
          /\ (armed /\ tick # "body") => looked
      BY <1>1, <2>3 DEF DJ!TimePasses, covered
    <3>2. ~ (slot < runAt)
      BY <1>0, <2>3 DEF ClockInv, DJ!Slots
    <3>3. endedDay' # "missed"
      BY <3>1, <3>2 DEF LookInv
    <3>4. dueRuns' \in [DJ!Slots -> Nat] /\ \A s \in DJ!Slots : dueRuns'[s] = 0
      BY <3>1 DEF DJ!noRuns
    <3>5. slot' \in DJ!Slots /\ day' \in 0 .. NDays
      BY <3>1 DEF ClockInv, DJ!Slots
    <3>6. midnight' \in Nat /\ DJ!now' = midnight' /\ DJ!now < DJ!now'
      BY <1>0, <3>1, <3>5, NextMidnight DEF ClockInv
    <3>7. ClockInv'
      BY <1>0, <2>1, <3>1, <3>4, <3>5, <3>6 DEF ClockInv
    <3>8. StampInv'
      BY <3>1, <3>4 DEF StampInv
    <3>9. LookInv'
      BY <1>0, <2>1, <3>3, <3>6 DEF LookInv, ClockInv
    <3> QED  BY <3>7, <3>8, <3>9
  <2> QED  BY <2>2, <2>3
<1>2. CASE DJ!ChangeTime
  BY <1>2, <1>q DEF DJ!ChangeTime, ClockInv
<1>3. CASE DJ!Interval \/ DJ!RunNow
  <2>1. UNCHANGED <<day, slot, looked, runAt, armed, lastDailyRunAt, restarts, changes,
                    dueRuns, restartsToday, endedDay>>
    BY <1>3 DEF DJ!Interval, DJ!RunNow
  <2>2. tick' \in {"none", "asking", "body"} /\ (forced' => tick' = "body")
    BY <1>3 DEF DJ!Interval, DJ!RunNow, DJ!BeginTick, ClockInv
  <2> QED  BY <1>q, <2>1, <2>2 DEF ClockInv, LookInv
<1>4. CASE DJ!Ask
  <2>1. CASE DJ!Due(lastDailyRunAt)
    <3>1. /\ tick' = "body" /\ lastDailyRunAt' = DJ!now /\ looked' = TRUE
          /\ dueRuns' = [dueRuns EXCEPT ![runAt] = IF @ < 3 THEN @ + 1 ELSE @]
          /\ UNCHANGED <<day, slot, runAt, armed, forced, forceNext, restarts,
                         changes, restartsToday, endedDay>>
      BY <1>4, <2>1 DEF DJ!Ask
    <3>2. DJ!now' = DJ!now /\ midnight' = midnight
      BY <3>1, SameInstant
    <3>3. slot >= runAt /\ (lastDailyRunAt = DJ!Never \/ lastDailyRunAt < midnight + runAt)
      BY <2>1, Midnight DEF DJ!Due, ClockInv
    <3>4. lastDailyRunAt < midnight + runAt
      BY <1>0, <3>3 DEF ClockInv, DJ!Slots, DJ!Never
    <3>5. /\ dueRuns' \in [DJ!Slots -> Nat]
          /\ dueRuns'[runAt] > 0 /\ dueRuns'[runAt] <= dueRuns[runAt] + 1
          /\ \A s \in DJ!Slots \ {runAt} : dueRuns'[s] = dueRuns[s]
      BY <3>1 DEF ClockInv
    <3>6. ClockInv'
      BY <1>0, <3>1, <3>2, <3>5 DEF ClockInv, DJ!Never
    <3>7. ASSUME NEW s \in DJ!Slots
          PROVE  /\ dueRuns'[s] <= 1 + restartsToday
                 /\ DJ!now < midnight + s => dueRuns'[s] <= restartsToday
      <4>1. CASE s = runAt
        BY <1>0, <3>3, <3>4, <3>5, <4>1 DEF StampInv, ClockInv, DJ!Slots
      <4>2. CASE s # runAt
        BY SMTT(30), <1>0, <3>5, <4>2 DEF StampInv, ClockInv, DJ!Slots
      <4> QED  BY <4>1, <4>2
    <3>8. StampInv'
      BY <3>1, <3>2, <3>7 DEF StampInv
    <3>9. LookInv'
      BY <3>1, <3>5 DEF LookInv, covered, ClockInv
    <3> QED  BY <3>6, <3>8, <3>9
  <2>2. CASE ~ DJ!Due(lastDailyRunAt)
    <3>1. /\ tick' = "none" /\ looked' = TRUE /\ tick = "asking"
          /\ UNCHANGED <<day, slot, runAt, armed, forced, forceNext, restarts, lastDailyRunAt,
                         dueRuns, changes, restartsToday, endedDay>>
      BY <1>4, <2>2 DEF DJ!Ask
    <3>2. slot < runAt \/ midnight + runAt <= lastDailyRunAt
      BY <1>0, <2>2, Midnight DEF DJ!Due, ClockInv, DJ!Slots
    <3>3. slot < runAt \/ covered
      BY <1>0, <3>2 DEF LookInv, ClockInv, DJ!Slots
    <3> QED  BY <1>q, <3>1, <3>3 DEF ClockInv
  <2> QED  BY <2>1, <2>2
<1>5. CASE DJ!EndBody \/ DJ!Stop
  BY <1>5, <1>q DEF DJ!EndBody, DJ!Stop, ClockInv, LookInv
<1>6. CASE DJ!Restart
  <2>1. /\ restarts < MaxRestarts /\ restarts' = restarts + 1 /\ restartsToday' = restartsToday + 1
        /\ armed' = TRUE /\ tick' = "none" /\ forced' = FALSE /\ lastDailyRunAt' = DJ!Never
        /\ looked' = FALSE /\ UNCHANGED <<day, slot, runAt, changes, dueRuns, endedDay>>
    BY <1>6 DEF DJ!Restart
  <2>2. DJ!now' = DJ!now /\ midnight' = midnight
    BY <2>1, SameInstant
  <2>3. ClockInv'
    BY <1>0, <2>1, <2>2 DEF ClockInv, DJ!Never
  <2>4. StampInv'
    <3> SUFFICES ASSUME NEW s \in DJ!Slots PROVE dueRuns[s] <= restartsToday + 1
      BY <2>1, <2>2 DEF StampInv, ClockInv
    <3> QED  BY DEF StampInv, ClockInv
  <2>5. LookInv'
    BY <1>0, <2>1, <2>2 DEF LookInv, DJ!Never
  <2> QED  BY <2>3, <2>4, <2>5
<1>7. CASE UNCHANGED DJ!dailyVars
  BY <1>7, <1>q DEF DJ!dailyVars, ClockInv, LookInv
<1> QED
  BY <1>1, <1>2, <1>3, <1>4, <1>5, <1>6, <1>7 DEF DJ!Next, DJ!DailyStep

\* A day has its run, and has it once (daily-due.ts: the stamp is compared with the run
\* instant of today, interval-scheduler.ts: it is set before the work): plus once
\* for every restart of the day, which forgets the stamp.
THEOREM OneRunADayHolds == Spec => []OneRunADay
<1>1. Init => DailyInv
  BY InitDaily DEF Init
<1>2. DailyInv /\ [Next]_allVars => DailyInv'
  BY StepDaily, Moves
<1>3. DailyInv /\ FlagInv => OneRunADay
  <2> SUFFICES ASSUME DailyInv, FlagInv PROVE DJ!DailyTypeOK /\ DJ!OneRunADay
    BY DEF OneRunADay
  <2> USE DEF DailyInv
  <2>1. DJ!now \in Nat
    BY Midnight, DailyAssumption DEF ClockInv
  <2>2. lastDailyRunAt \in DJ!Never .. DJ!now /\ restartsToday \in 0 .. MaxRestarts
    BY <2>1, DailyAssumption DEF ClockInv, DJ!Never
  <2>3. DJ!DailyTypeOK
    BY <2>2 DEF DJ!DailyTypeOK, ClockInv, FlagInv
  <2>4. DJ!OneRunADay
    BY DEF StampInv, LookInv, DJ!OneRunADay, DJ!OncePerInstant, DJ!NoDayMissed
  <2> QED  BY <2>3, <2>4
<1> QED  BY <1>1, <1>2, <1>3, FlagTypes, PTL DEF Spec

-----------------------------------------------------------------------------
\* The poller of timed tasks (TaskPoller).

Rows ==
  [kind : TP!Kinds, enabled : BOOLEAN, attempts : 0 .. MaxAttempts, next : {"none", "later", "due"}]

\* A task that is switched on has attempts left and a next run.
RowInv ==
  \A t \in TP!exists :
    /\ rows[t] \in Rows
    /\ rows[t].enabled => rows[t].attempts < MaxAttempts /\ rows[t].next # "none"

\* The types; the tick read only tasks that are switched on and due.
BatchInv ==
  /\ TP!exists \subseteq Tasks /\ DOMAIN batch \subseteq Tasks
  /\ \A t \in DOMAIN batch :
       /\ batch[t] \in Rows /\ batch[t].enabled /\ batch[t].attempts < MaxAttempts
       /\ batch[t].next = "due"
  /\ current = TP!NoTask \/ current \in DOMAIN batch
  /\ fired \in {"ok", "failed"} /\ (current = TP!NoTask => fired = "ok")
  /\ tries \in [Tasks -> 0 .. MaxAttempts]
  /\ eaten \cap TP!exists = {} /\ eaten \cup stopped \cup spent \subseteq Tasks

\* The tick settles a task by the row that is still in the table, unless the task
\* is raced.
ReadInv == \A t \in DOMAIN batch \ raced : t \in TP!exists /\ rows[t] = batch[t]

\* The books of a task that is not raced: a one-shot in the table came through only
\* if its settle failed or is still to come, the one in hand fired as the tick says,
\* and its row counts no attempt it has not made.
SpentInv ==
  \A t \in TP!exists \ raced :
    /\ rows[t].kind = "once" /\ t \in spent => t \in unsettled \/ (t = current /\ fired = "ok")
    /\ rows[t].attempts <= tries[t]
    /\ t = current /\ fired = "ok" => t \in spent
    /\ t = current /\ fired = "failed" => rows[t].attempts < tries[t]

\* A task the poller has switched off is off, and it did not come through.
StoppedInv ==
  \A t \in stopped \ raced : t \in TP!exists /\ ~rows[t].enabled /\ tries[t] = MaxAttempts

TaskInv == RowInv /\ BatchInv /\ ReadInv /\ SpentInv /\ StoppedInv /\ TP!NothingEaten

\* A task as it is written: no attempts, and a next run if it is on.
LEMMA FreshRow ==
  ASSUME NEW k \in TP!Kinds, NEW on \in BOOLEAN
  PROVE  /\ TP!Fresh(k, on) \in Rows /\ TP!Fresh(k, on).attempts = 0
         /\ TP!Fresh(k, on).enabled => TP!Fresh(k, on).next # "none"
  BY TaskAssumption DEF TP!Fresh, Rows

\* A batch without a task keeps the others as they were.
LEMMA Without ==
  ASSUME NEW f, NEW t
  PROVE  /\ DOMAIN TP!without(f, t) = DOMAIN f \ {t}
         /\ \A u \in DOMAIN f \ {t} : TP!without(f, t)[u] = f[u]
  BY DEF TP!without

\* One row is rewritten or goes.
LEMMA RowStep ==
  ASSUME RowInv, NEW c, TP!exists' \subseteq TP!exists, \A u \in TP!exists' \ {c} : rows'[u] = rows[u],
         c \in TP!exists' =>
           /\ rows'[c] \in Rows
           /\ rows'[c].enabled => rows'[c].attempts < MaxAttempts /\ rows'[c].next # "none"
  PROVE  RowInv'
<1> SUFFICES ASSUME NEW u \in TP!exists'
    PROVE  /\ rows'[u] \in Rows
           /\ rows'[u].enabled => rows'[u].attempts < MaxAttempts /\ rows'[u].next # "none"
  BY DEF RowInv, TP!exists
<1>1. CASE u = c
  BY <1>1
<1>2. CASE u # c
  BY <1>2 DEF RowInv
<1> QED  BY <1>1, <1>2

\* A task is settled: the tick goes on with the others.
Dropped ==
  /\ current \in DOMAIN batch \cap Tasks /\ current # TP!NoTask
  /\ DOMAIN batch' = DOMAIN batch \ {current}
  /\ \A u \in DOMAIN batch' : batch'[u] = batch[u]
  /\ current' = TP!NoTask /\ fired' = "ok"

\* Settling a task drops it from the batch.
LEMMA SettleDrops ==
  ASSUME BatchInv, NEW k \in TP!Kinds, TP!Settles(k)
  PROVE  Dropped /\ batch[current].kind = k
<1>1. batch' = TP!without(batch, current) /\ current # TP!NoTask /\ batch[current].kind = k
      /\ current' = TP!NoTask /\ fired' = "ok"
  BY DEF TP!Settles
<1>2. /\ DOMAIN TP!without(batch, current) = DOMAIN batch \ {current}
      /\ \A u \in DOMAIN batch \ {current} : TP!without(batch, current)[u] = batch[u]
  BY Without
<1> QED  BY <1>1, <1>2 DEF BatchInv, Dropped

\* At first every task is fresh and no batch is read.
LEMMA InitTasks == TP!Init => TaskInv
<1> SUFFICES ASSUME TP!Init PROVE TaskInv
  OBVIOUS
<1> USE DEF TP!exists
<1>1. TP!exists = Tasks /\ \A t \in Tasks : rows[t] = TP!Fresh("once", TRUE)
  BY DEF TP!Init
<1>2. DOMAIN batch = {} /\ raced = {} /\ spent = {} /\ eaten = {} /\ stopped = {}
      /\ current = TP!NoTask /\ fired = "ok" /\ \A t \in Tasks : tries[t] = 0
  BY DEF TP!Init
<1>3. tries \in [Tasks -> 0 .. MaxAttempts]
  BY TaskAssumption DEF TP!Init
<1>4. \A t \in Tasks : rows[t] \in Rows /\ rows[t].attempts = 0 /\ rows[t].next # "none"
  BY <1>1, FreshRow DEF TP!Kinds, TP!Fresh
<1>5. BatchInv
  BY <1>1, <1>2, <1>3, <1>4, TaskAssumption DEF BatchInv
<1>6. RowInv
  BY <1>1, <1>4, TaskAssumption DEF RowInv
<1> QED
  BY <1>1, <1>2, <1>4, <1>5, <1>6, TaskAssumption
    DEF TaskInv, ReadInv, SpentInv, StoppedInv, TP!NothingEaten

\* A task is written (an edit, a deletion): its books begin anew, and it is raced if the
\* tick has it.
LEMMA WriteTask ==
  ASSUME TaskInv, NEW t \in TP!exists, TP!Written(t),
         UNCHANGED <<batch, current, fired, eaten>>,
         TP!exists' \in {TP!exists, TP!exists \ {t}},
         \A u \in TP!exists \ {t} : rows'[u] = rows[u],
         t \in TP!exists' => /\ rows'[t] \in Rows /\ rows'[t].attempts = 0
                             /\ rows'[t].enabled => rows'[t].next # "none"
  PROVE  TaskInv'
<1> USE TaskAssumption DEF TaskInv, TP!exists
<1>1. /\ raced' = IF t \in DOMAIN batch THEN raced \cup {t} ELSE raced \ {t}
      /\ unsettled' = unsettled \ {t} /\ stopped' = stopped \ {t} /\ spent' = spent \ {t}
      /\ t \in Tasks /\ tries' \in [Tasks -> 0 .. MaxAttempts] /\ tries'[t] = 0
      /\ \A u \in Tasks \ {t} : tries'[u] = tries[u]
  BY DEF TP!Written, BatchInv
<1>2. BatchInv'
  BY <1>1 DEF BatchInv
<1>7. RowInv'
  BY RowStep
<1>3. ReadInv'
  BY <1>1 DEF ReadInv
<1>4. SpentInv'
  <2> SUFFICES ASSUME NEW u \in TP!exists' \ raced'
      PROVE  /\ rows'[u].kind = "once" /\ u \in spent'
                  => u \in unsettled' \/ (u = current /\ fired = "ok")
             /\ rows'[u].attempts <= tries'[u]
             /\ u = current /\ fired = "ok" => u \in spent'
             /\ u = current /\ fired = "failed" => rows'[u].attempts < tries'[u]
    BY DEF SpentInv
  <2>1. CASE u = t
    BY <1>1, <2>1 DEF BatchInv
  <2>2. CASE u # t
    BY <1>1, <2>2 DEF BatchInv, SpentInv
  <2> QED  BY <2>1, <2>2
<1>5. StoppedInv'
  BY <1>1 DEF StoppedInv, BatchInv
<1>6. TP!NothingEaten'
  BY <1>1 DEF TP!NothingEaten, BatchInv
<1> QED  BY <1>2, <1>3, <1>4, <1>5, <1>6, <1>7

\* Every step of the poller and of its owners keeps the invariant.
LEMMA StepTasks == TaskInv /\ [TP!Next]_(TP!taskVars) => TaskInv'
<1> SUFFICES ASSUME TaskInv, [TP!Next]_(TP!taskVars) PROVE TaskInv'
  OBVIOUS
<1> USE TaskAssumption DEF TP!exists, TaskInv, TP!tick, TP!bounds, TP!books
<1>1. ASSUME NEW t \in Tasks, TP!TimePasses(t) PROVE TaskInv'
  <2>1. /\ t \in TP!exists /\ rows[t].next = "later" /\ TP!exists' = TP!exists
        /\ rows'[t] = [rows[t] EXCEPT !.next = "due"] /\ \A u \in TP!exists \ {t} : rows'[u] = rows[u]
        /\ UNCHANGED <<batch, current, fired, spent, tries, raced, unsettled, eaten, stopped>>
    BY <1>1 DEF TP!TimePasses
  <2>2. /\ rows'[t] \in Rows /\ rows'[t].kind = rows[t].kind /\ rows'[t].attempts = rows[t].attempts
        /\ (rows'[t].enabled <=> rows[t].enabled) /\ rows'[t].next = "due"
    BY <2>1 DEF Rows, RowInv
  <2>7. RowInv'
    BY <2>1, <2>2, RowStep DEF RowInv
  <2>3. BatchInv'
    BY <2>1, <2>2 DEF BatchInv
  <2>4. ReadInv'
    BY <2>1 DEF ReadInv, BatchInv
  <2>5. SpentInv'
    BY ZenonT(30), <2>1, <2>2 DEF SpentInv
  <2>6. StoppedInv' /\ TP!NothingEaten'
    BY <2>1, <2>2 DEF StoppedInv, TP!NothingEaten
  <2> QED  BY <2>3, <2>4, <2>5, <2>6, <2>7
<1>2. ASSUME NEW t \in Tasks, TP!Edit(t) PROVE TaskInv'
  <2>1. PICK k \in TP!Kinds, on \in BOOLEAN : rows' = [rows EXCEPT ![t] = TP!Fresh(k, on)]
    BY <1>2 DEF TP!Edit
  <2>2. t \in TP!exists /\ TP!Written(t) /\ UNCHANGED <<batch, current, fired, eaten>>
    BY <1>2 DEF TP!Edit
  <2>3. TP!exists' = TP!exists /\ rows'[t] = TP!Fresh(k, on)
        /\ \A u \in TP!exists \ {t} : rows'[u] = rows[u]
    BY <2>1, <2>2
  <2> QED  BY <2>2, <2>3, FreshRow, WriteTask
<1>3. ASSUME NEW t \in Tasks, TP!Remove(t) PROVE TaskInv'
  <2>1. t \in TP!exists /\ TP!Written(t) /\ UNCHANGED <<batch, current, fired, eaten>>
        /\ rows' = TP!without(rows, t)
    BY <1>3 DEF TP!Remove
  <2>2. TP!exists' = TP!exists \ {t} /\ \A u \in TP!exists \ {t} : rows'[u] = rows[u]
    BY <2>1, Without
  <2> QED  BY <2>1, <2>2, WriteTask
<1>4. ASSUME \/ UNCHANGED TP!taskVars
             \/ \E h \in TP!Pauses : TP!Pause(h) \/ TP!Resume(h)
             \/ \E t \in Tasks : TP!Silence(t) \/ TP!Reactivate(t)
      PROVE  TaskInv'
  <2>1. /\ UNCHANGED <<rows, batch, current, fired, spent, tries, raced, unsettled, eaten, stopped>>
    BY <1>4 DEF TP!Pause, TP!Resume, TP!Silence, TP!Reactivate, TP!taskVars
  <2> QED  BY <2>1 DEF RowInv, BatchInv, ReadInv, SpentInv, StoppedInv, TP!NothingEaten
<1>5. CASE TP!StartTick \/ TP!StartTickBlind
  <2>1. /\ DOMAIN batch' = {u \in Tasks : TP!served(u)} /\ \A u \in DOMAIN batch' : batch'[u] = rows[u]
        /\ DOMAIN batch = {}
        /\ UNCHANGED <<rows, current, fired, spent, tries, raced, unsettled, eaten, stopped>>
    BY <1>5 DEF TP!StartTick, TP!StartTickBlind, TP!ReadsDue
  <2>2. \A u \in DOMAIN batch' : u \in TP!exists /\ rows[u].enabled /\ rows[u].next = "due"
    BY <2>1 DEF TP!served, TP!due
  <2>3. BatchInv' /\ RowInv'
    BY <2>1, <2>2 DEF BatchInv, RowInv
  <2>4. ReadInv'
    BY <2>1, <2>2 DEF ReadInv
  <2>5. SpentInv' /\ StoppedInv' /\ TP!NothingEaten'
    BY <2>1 DEF SpentInv, StoppedInv, TP!NothingEaten
  <2> QED  BY <2>3, <2>4, <2>5
<1>6. ASSUME NEW t \in Tasks, TP!Fire(t) PROVE TaskInv'
  <2>1. /\ current = TP!NoTask /\ t \in DOMAIN batch /\ current' = t
        /\ UNCHANGED <<rows, batch, raced, unsettled, eaten, stopped>>
    BY <1>6 DEF TP!Fire
  <2>2. \/ fired' = "ok" /\ spent' = spent \cup {t} /\ tries' = tries
        \/ /\ fired' = "failed" /\ spent' = spent
           /\ tries' = [tries EXCEPT ![t] = IF @ < MaxAttempts THEN @ + 1 ELSE @]
    BY <1>6 DEF TP!Fire
  <2>3. /\ tries' \in [Tasks -> 0 .. MaxAttempts]
        /\ \A u \in Tasks : tries[u] <= tries'[u]
        /\ fired' = "failed" => tries'[t] > tries[t] \/ tries'[t] = MaxAttempts
        /\ \A u \in Tasks : tries[u] = MaxAttempts => tries'[u] = MaxAttempts
    BY <2>2 DEF BatchInv
  <2>4. BatchInv'
    BY <2>1, <2>2, <2>3 DEF BatchInv
  <2>5. ReadInv' /\ TP!NothingEaten' /\ RowInv'
    BY <2>1 DEF ReadInv, TP!NothingEaten, RowInv
  <2>6. SpentInv'
    <3> SUFFICES ASSUME NEW u \in TP!exists \ raced
        PROVE  /\ rows[u].kind = "once" /\ u \in spent'
                    => u \in unsettled \/ (u = t /\ fired' = "ok")
               /\ rows[u].attempts <= tries'[u]
               /\ u = t /\ fired' = "ok" => u \in spent'
               /\ u = t /\ fired' = "failed" => rows[u].attempts < tries'[u]
      BY <2>1 DEF SpentInv
    <3>1. /\ rows[u].kind = "once" /\ u \in spent => u \in unsettled
          /\ rows[u].attempts <= tries[u] /\ u \in Tasks
          /\ rows[u].attempts \in Nat
      BY <2>1 DEF SpentInv, BatchInv, RowInv, Rows
    <3>2. u = t => rows[u].attempts < MaxAttempts
      BY <2>1 DEF ReadInv, BatchInv
    <3>3. rows[u].attempts <= tries'[u]
      BY <2>3, <3>1 DEF BatchInv
    <3>4. u = t /\ fired' = "failed" => rows[u].attempts < tries'[u]
      BY <2>3, <3>1, <3>2 DEF BatchInv
    <3> QED  BY <2>2, <3>1, <3>3, <3>4
  <2>7. StoppedInv'
    BY <2>1, <2>3 DEF StoppedInv, BatchInv
  <2> QED  BY <2>4, <2>5, <2>6, <2>7
<1>7. CASE TP!Advance
  <2>1. TP!Settles("every") /\ UNCHANGED <<spent, tries, raced, unsettled, eaten, stopped>>
        /\ rows' = IF current \in TP!exists THEN [rows EXCEPT ![current].next = "later"] ELSE rows
    BY <1>7 DEF TP!Advance
  <2>s. Dropped /\ batch[current].kind = "every"
    BY <2>1, SettleDrops DEF TP!Kinds
  <2>2. /\ TP!exists' = TP!exists /\ \A u \in TP!exists \ {current} : rows'[u] = rows[u]
        /\ current \in TP!exists => rows'[current] = [rows[current] EXCEPT !.next = "later"]
    BY <2>1
  <2>3. current \in TP!exists =>
          /\ rows'[current] \in Rows /\ rows'[current].kind = rows[current].kind
          /\ rows'[current].attempts = rows[current].attempts
          /\ (rows'[current].enabled <=> rows[current].enabled) /\ rows'[current].next = "later"
    BY <2>2 DEF Rows, RowInv
  <2>4. BatchInv'
    BY <2>s, <2>1, <2>2 DEF BatchInv, Dropped
  <2>5. ReadInv'
    BY <2>s, <2>1, <2>2 DEF ReadInv, Dropped
  <2>6. SpentInv'
    <3> SUFFICES ASSUME NEW u \in TP!exists \ raced
        PROVE  /\ rows'[u].kind = "once" /\ u \in spent => u \in unsettled
               /\ rows'[u].attempts <= tries[u]
      BY <2>s, <2>1, <2>2 DEF SpentInv, Dropped, BatchInv
    <3>1. u = current => rows[u].kind = "every"
      BY <2>s DEF ReadInv, Dropped
    <3>2. rows'[u].kind = rows[u].kind /\ rows'[u].attempts = rows[u].attempts
      BY <2>2, <2>3
    <3> QED  BY <3>1, <3>2 DEF SpentInv
  <2>7. StoppedInv' /\ TP!NothingEaten'
    BY <2>1, <2>2, <2>3 DEF StoppedInv, TP!NothingEaten
  <2>8. RowInv'
    BY <2>2, <2>3, RowStep DEF RowInv
  <2> QED  BY <2>4, <2>5, <2>6, <2>7, <2>8
<1>8. CASE TP!DeleteSpent
  <2>1. /\ TP!Settles("once") /\ fired = "ok" /\ rows' = TP!without(rows, current)
        /\ eaten' = IF current \in TP!exists \ spent THEN eaten \cup {current} ELSE eaten
        /\ spent' = spent \ {current} /\ tries' = [tries EXCEPT ![current] = 0]
        /\ unsettled' = unsettled \ {current} /\ UNCHANGED <<raced, stopped>>
    BY <1>8 DEF TP!DeleteSpent, TP!Deleted
  <2>s. Dropped /\ batch[current].kind = "once"
    BY <2>1, SettleDrops DEF TP!Kinds
  <2>2. TP!exists' = TP!exists \ {current} /\ \A u \in TP!exists' : rows'[u] = rows[u]
    BY <2>1, Without
  <2>3. /\ tries' \in [Tasks -> 0 .. MaxAttempts] /\ \A u \in Tasks \ {current} : tries'[u] = tries[u]
    <3>1. 0 \in 0 .. MaxAttempts
      OBVIOUS
    <3> QED  BY <2>1, <3>1 DEF BatchInv
  <2>4. current \in TP!exists /\ current \notin spent => current \in raced
    BY <2>1 DEF SpentInv
  <2>5. BatchInv'
    BY <2>s, <2>1, <2>2, <2>3 DEF BatchInv, Dropped
  <2>6. ReadInv'
    BY <2>s, <2>1, <2>2 DEF ReadInv, Dropped
  <2>7. SpentInv'
    BY <2>s, <2>1, <2>2, <2>3 DEF SpentInv, BatchInv, Dropped
  <2>8. StoppedInv'
    BY <2>s, <2>1, <2>2, <2>3 DEF StoppedInv, ReadInv, BatchInv, Dropped
  <2>9. TP!NothingEaten'
    BY <2>1, <2>4 DEF TP!NothingEaten
  <2>10. RowInv'
    BY <2>2, RowStep
  <2> QED  BY <2>5, <2>6, <2>7, <2>8, <2>9, <2>10
<1>9. CASE TP!CountFailure
  <2> DEFINE n == batch[current].attempts + 1
  <2>1. /\ TP!Settles("once") /\ fired = "failed"
        /\ UNCHANGED <<spent, tries, raced, unsettled, eaten>>
    BY <1>9 DEF TP!CountFailure
  <2>s. Dropped /\ batch[current].kind = "once"
    BY <2>1, SettleDrops DEF TP!Kinds
  <2>2. n \in 1 .. MaxAttempts
    BY <2>s DEF BatchInv, Rows, Dropped
  <2>b. BatchInv' \/ TP!exists' # TP!exists \/ ~ (stopped' \subseteq Tasks)
    BY <2>s, <2>1 DEF BatchInv, Dropped
  <2>3. CASE current \in TP!exists
    <3>1. /\ rows' = [rows EXCEPT ![current].attempts = n,
                                  ![current].enabled = @ /\ ~TP!GivesUp(n)]
          /\ stopped' = IF TP!GivesUp(n) THEN stopped \cup {current} ELSE stopped
      BY <1>9, <2>3 DEF TP!CountFailure
    <3>2. TP!exists' = TP!exists /\ \A u \in TP!exists \ {current} : rows'[u] = rows[u]
      BY <3>1
    <3>3. rows'[current] = [rows[current] EXCEPT !.attempts = n, !.enabled = @ /\ ~TP!GivesUp(n)]
      BY <2>3, <3>1
    <3>4. rows[current] \in Rows
      BY <2>3 DEF RowInv
    <3>a. n \in 1 .. MaxAttempts /\ n = batch[current].attempts + 1
      BY <2>2
    <3> HIDE DEF n
    <3>5. /\ rows'[current] \in Rows /\ rows'[current].kind = rows[current].kind
          /\ rows'[current].attempts = n /\ rows'[current].next = rows[current].next
          /\ rows'[current].enabled <=> (rows[current].enabled /\ ~TP!GivesUp(n))
      <4> DEFINE s == rows'[current]
      <4> DEFINE on == rows[current].enabled /\ ~TP!GivesUp(n)
      <4>1. s = [rows[current] EXCEPT !.attempts = n, !.enabled = on]
        BY <3>3
      <4>2. on \in BOOLEAN
        BY DEF TP!GivesUp
      <4>3. on <=> (rows[current].enabled /\ ~TP!GivesUp(n))
        OBVIOUS
      <4> DEFINE r == rows[current]
      <4>4. n \in 0 .. MaxAttempts /\ r \in Rows /\ s = [r EXCEPT !.attempts = n, !.enabled = on]
        BY <3>4, <3>a, <4>1
      <4> HIDE DEF s, on, r
      <4>5. /\ s \in Rows /\ s.kind = r.kind /\ s.attempts = n /\ s.next = r.next
            /\ s.enabled = on
        BY <4>2, <4>4 DEF Rows
      <4> QED  BY <4>3, <4>5, Zenon DEF s, r
    <3>6. TP!GivesUp(n) <=> n = MaxAttempts
      BY <3>a DEF TP!GivesUp
    <3>7. current \notin raced => rows[current] = batch[current] /\ n <= tries[current]
      BY <2>s, <2>1, <3>a, <2>3 DEF ReadInv, SpentInv, BatchInv, Rows, Dropped
    <3>8. BatchInv'
      BY <2>b, <2>s, <3>1, <3>2 DEF BatchInv, Dropped
    <3>9. ReadInv'
      BY <2>s, <2>1, <3>2 DEF ReadInv, Dropped
    <3>10. SpentInv'
      <4> SUFFICES ASSUME NEW u \in TP!exists \ raced
          PROVE  /\ rows'[u].kind = "once" /\ u \in spent => u \in unsettled
                 /\ rows'[u].attempts <= tries[u]
        BY <2>s, <2>1, <3>2 DEF SpentInv, Dropped, BatchInv
      <4>1. CASE u = current
        BY <2>1, <3>5, <3>7, <4>1 DEF SpentInv
      <4>2. CASE u # current
        BY <3>2, <4>2 DEF SpentInv
      <4> QED  BY <4>1, <4>2
    <3>11. StoppedInv'
      <4> SUFFICES ASSUME NEW u \in stopped' \ raced
          PROVE  u \in TP!exists /\ ~rows'[u].enabled /\ tries[u] = MaxAttempts
        BY <2>1, <3>2 DEF StoppedInv
      <4>1. CASE u = current
        <5>1. CASE TP!GivesUp(n)
          BY <2>s, <3>a, <2>3, <3>5, <3>6, <3>7, <4>1, <5>1 DEF BatchInv, Dropped
        <5>2. CASE ~ TP!GivesUp(n)
          BY <3>1, <3>5, <4>1, <5>2 DEF StoppedInv
        <5> QED  BY <5>1, <5>2
      <4>2. CASE u # current
        BY <3>1, <3>2, <4>2 DEF StoppedInv
      <4> QED  BY <4>1, <4>2
    <3>12. TP!NothingEaten'
      BY <2>1 DEF TP!NothingEaten
    <3>13. RowInv'
      <4>1. rows[current].enabled => rows[current].next # "none"
        BY <2>3 DEF RowInv
      <4>2. rows'[current].enabled => rows'[current].attempts < MaxAttempts
            /\ rows'[current].next # "none"
        BY <3>a, <3>5, <3>6, <4>1
      <4> QED  BY <3>2, <3>5, <4>2, RowStep
    <3> QED  BY <3>8, <3>9, <3>10, <3>11, <3>12, <3>13
  <2>4. CASE current \notin TP!exists
    <3>1. UNCHANGED <<rows, stopped>>
      BY <1>9, <2>4 DEF TP!CountFailure
    <3>2. BatchInv' /\ RowInv'
      BY <2>b, <3>1 DEF RowInv, BatchInv
    <3>3. ReadInv' /\ StoppedInv' /\ TP!NothingEaten'
      BY <2>s, <2>1, <2>4, <3>1 DEF ReadInv, StoppedInv, TP!NothingEaten, Dropped
    <3>4. SpentInv'
      BY <2>s, <2>1, <2>4, <3>1 DEF SpentInv, BatchInv, Dropped
    <3> QED  BY <3>2, <3>3, <3>4
  <2> QED  BY <2>3, <2>4
<1>10. CASE TP!SettleFails
  <2>1. PICK k \in TP!Kinds : TP!Settles(k)
    BY <1>10 DEF TP!SettleFails
  <2>s. Dropped
    BY <2>1, SettleDrops
  <2>2. unsettled' = unsettled \cup {current}
        /\ UNCHANGED <<rows, spent, tries, raced, eaten, stopped>>
    BY <1>10 DEF TP!SettleFails
  <2>3. BatchInv' /\ RowInv'
    BY <2>s, <2>2 DEF BatchInv, RowInv, Dropped
  <2>4. ReadInv' /\ StoppedInv' /\ TP!NothingEaten'
    BY <2>s, <2>2 DEF ReadInv, StoppedInv, TP!NothingEaten, Dropped
  <2>5. SpentInv'
    BY <2>s, <2>2 DEF SpentInv, BatchInv, Dropped
  <2> QED  BY <2>3, <2>4, <2>5
<1>11. CASE TP!Crash
  <2>1. /\ unsettled' = IF current = TP!NoTask THEN unsettled ELSE unsettled \cup {current}
        /\ DOMAIN batch' = {} /\ current' = TP!NoTask /\ fired' = "ok"
        /\ UNCHANGED <<rows, spent, tries, raced, eaten, stopped>>
    BY <1>11 DEF TP!Crash
  <2>2. BatchInv' /\ RowInv'
    BY <2>1 DEF BatchInv, RowInv
  <2>3. ReadInv' /\ SpentInv' /\ StoppedInv' /\ TP!NothingEaten'
    BY <2>1 DEF ReadInv, SpentInv, StoppedInv, TP!NothingEaten, BatchInv
  <2> QED  BY <2>2, <2>3
<1> QED
  BY <1>1, <1>2, <1>3, <1>4, <1>5, <1>6, <1>7, <1>8, <1>9, <1>10, <1>11 DEF TP!Next, TP!TickStep

\* What keeps a tick from firing is one of the pauses or a task of the table.
PauseInv == paused \subseteq TP!Pauses /\ silenced \subseteq Tasks

LEMMA PausesHold == Spec => []PauseInv
<1>1. Init => PauseInv
  BY DEF Init, TP!Init, PauseInv
<1>2. PauseInv /\ [TP!Next]_(TP!taskVars) => PauseInv'
  BY DEF PauseInv, TP!Next, TP!TickStep, TP!StartTick, TP!StartTickBlind, TP!ReadsDue, TP!Fire,
    TP!Settles, TP!Advance, TP!DeleteSpent, TP!CountFailure, TP!SettleFails, TP!Crash, TP!Pause,
    TP!Resume, TP!Silence, TP!Reactivate, TP!TimePasses, TP!Edit, TP!Remove, TP!taskVars
<1>3. PauseInv /\ [Next]_allVars => PauseInv'
  BY <1>2, Moves
<1> QED  BY <1>1, <1>3, PTL DEF Spec

\* What becomes of a task is what its fires came to.
LEMMA TasksAsTheyWent == Spec => [](TP!TaskTypeOK /\ TP!SettledAsItWent)
<1>1. Init => TaskInv
  BY InitTasks DEF Init
<1>2. TaskInv /\ [Next]_allVars => TaskInv'
  BY StepTasks, Moves
<1>3. TaskInv /\ PauseInv => TP!TaskTypeOK /\ TP!SettledAsItWent
  <2> SUFFICES ASSUME TaskInv, PauseInv PROVE TP!TaskTypeOK /\ TP!SettledAsItWent
    OBVIOUS
  <2> USE DEF TaskInv, BatchInv, RowInv, TP!exists
  <2>1. TP!TaskTypeOK
    BY DEF TP!TaskTypeOK, Rows, PauseInv
  <2>2. TP!FiresOnce
    BY DEF TP!FiresOnce, TP!due, SpentInv
  <2>3. TP!TriedBeforeStopped
    BY TaskAssumption DEF TP!TriedBeforeStopped, StoppedInv
  <2> QED  BY <2>1, <2>2, <2>3 DEF TP!SettledAsItWent
<1> QED  BY <1>1, <1>2, <1>3, PausesHold, PTL DEF Spec

-----------------------------------------------------------------------------
\* The wall clock of a task (Calendar).

\* Division by a period: the quotient and the rest, and that there is one of each.
LEMMA Divided ==
  ASSUME NEW H \in Nat \ {0}, NEW n \in Int
  PROVE  n \div H \in Int /\ n % H \in 0 .. H - 1 /\ n = (n \div H) * H + (n % H)
OBVIOUS

\* A later day begins a day later, or more.
LEMMA DaysApart ==
  ASSUME NEW H \in Nat, NEW d \in Int, NEW e \in Int, d < e
  PROVE  d * H \in Int /\ e * H \in Int /\ d * H + H <= e * H
<1>1. PICK k \in Nat : e = d + 1 + k
  <2> WITNESS e - d - 1 \in Nat
  <2> QED  OBVIOUS
<1>2. e * H = d * H + H + k * H /\ k * H >= 0 /\ d * H \in Int /\ k * H \in Int
  BY <1>1
<1> QED  BY <1>2

LEMMA DayAndHour ==
  ASSUME NEW H \in Nat \ {0}, NEW d \in Int, NEW h \in 0 .. H - 1
  PROVE  /\ d * H + h \in Int
         /\ (d * H + h) \div H = d /\ (d * H + h) % H = h
<1> DEFINE n == d * H + h
<1> DEFINE q == n \div H
<1> DEFINE r == n % H
<1>1. n \in Int /\ d * H \in Int
  OBVIOUS
<1>2. q \in Int /\ r \in 0 .. H - 1 /\ n = q * H + r
  BY <1>1, Divided
<1>3. q * H \in Int
  BY <1>2
<1>4. ~ (q < d)
  <2> SUFFICES ASSUME q < d PROVE FALSE
    OBVIOUS
  <2>1. q * H + H <= d * H
    BY <1>2, DaysApart
  <2> HIDE DEF q, r
  <2> QED  BY <2>1, <1>1, <1>2, <1>3
<1>5. ~ (d < q)
  <2> SUFFICES ASSUME d < q PROVE FALSE
    OBVIOUS
  <2>1. d * H + H <= q * H
    BY <1>2, DaysApart
  <2> HIDE DEF q, r
  <2> QED  BY <2>1, <1>1, <1>2, <1>3
<1>6. q = d
  BY <1>2, <1>4, <1>5
<1> HIDE DEF q, r
<1>7. r = h
  BY <1>1, <1>2, <1>6
<1> QED  BY <1>1, <1>6, <1>7 DEF q, r

\* Every day of the week comes within a week.
LEMMA WithinAWeek ==
  ASSUME NEW W \in Nat \ {0}, NEW d \in Int, NEW w \in 0 .. W - 1
  PROVE  \E o \in 1 .. W : (d + o) % W = w
<1> DEFINE n == w - d - 1
<1> DEFINE q == n \div W
<1> DEFINE m == n % W
<1>0. n \in Int
  OBVIOUS
<1> HIDE DEF n
<1>1. q \in Int /\ m \in 0 .. W - 1 /\ n = q * W + m
  BY <1>0, Divided
<1> HIDE DEF q, m
<1> DEFINE k == 0 - q
<1>2. k \in Int /\ d + (m + 1) = k * W + w
  BY <1>1 DEF n
<1> HIDE DEF k
<1>3. (k * W + w) % W = w
  BY <1>2, DayAndHour
<1>4. m + 1 \in 1 .. W
  BY <1>1
<1> DEFINE o == m + 1
<1>5. o \in 1 .. W /\ d + o = k * W + w
  BY <1>2, <1>4
<1> HIDE DEF o
<1> QED  BY <1>3, <1>5

\* The wall clock goes on, but for an hour it shows twice, and skips one hour.
LEMMA Walls ==
  ASSUME NEW z, ZoneOK(z), NEW s \in Int, NEW t \in Int
  PROVE  /\ CA!wall(t, z) \in Int /\ CA!ChangedHour(z) \in Int
         /\ s <= t => CA!wall(s, z) <= CA!wall(t, z)
         /\ s < t /\ CA!wall(s, z) = CA!wall(t, z) =>
              CA!Repeats(z) /\ CA!wall(s, z) = CA!ChangedHour(z)
         /\ CA!Skips(z) => /\ CA!wall(t, z) # CA!ChangedHour(z)
                           /\ t < z.at <=> CA!wall(t, z) < CA!ChangedHour(z)
                           /\ t < z.at - 1 <=> CA!wall(t, z) < CA!ChangedHour(z) - 1
BY DEF ZoneOK, CA!wall, CA!offset, CA!Repeats, CA!Skips, CA!ChangedHour

\* The instant of a local time.
instant(n, z) == n - CA!offset(n - CA!offset(n, z), z)

LEMMA Converts ==
  ASSUME NEW z, ZoneOK(z), NEW n \in Int
  PROVE  /\ instant(n, z) \in Int
         /\ \/ CA!wall(instant(n, z), z) = n
            \/ CA!Skips(z) /\ n = CA!ChangedHour(z) /\ instant(n, z) \in {z.at - 1, z.at}
BY DEF ZoneOK, instant, CA!wall, CA!offset, CA!Skips, CA!ChangedHour

\* The first of the days D asked for, at the hour h: today's if it is still ahead, or
\* that of the first later day.  It is the first instant ahead whose wall clock shows
\* what is asked for, or comes within an hour of the change that skips it.
LEMMA FirstAsked ==
  ASSUME NEW z, ZoneOK(z), NEW from \in Int, NEW D \in SUBSET Int, NEW d \in D,
         NEW h \in 0 .. Hours - 1, NEW x \in Int, x = instant(d * Hours + h, z),
         NEW first \in Int, first = CA!wall(from, z) \div Hours,
         \/ x > from /\ \A e \in D : first <= e => d <= e
         \/ /\ first < d /\ \A e \in D : first < e => d <= e
            /\ first \in D => instant(first * Hours + h, z) <= from
  PROVE  /\ \/ CA!wall(x, z) = d * Hours + h
            \/ CA!Skips(z) /\ d * Hours + h = CA!ChangedHour(z) /\ x \in {z.at - 1, z.at}
         /\ x >= from
         /\ x > from \/ (CA!Skips(z) /\ d * Hours + h = CA!ChangedHour(z) /\ h = 0)
         /\ \A t \in from + 1 .. x - 1 :
              CA!wall(t, z) \div Hours \in D /\ CA!wall(t, z) % Hours = h =>
                CA!Repeats(z) /\ CA!wall(t, z) = CA!ChangedHour(z)
<1> DEFINE n == d * Hours + h
<1> DEFINE changed == CA!ChangedHour(z)
<1>h. Hours \in Nat \ {0} /\ 1 < Hours
  BY CalendarAssumption
<1>1. n \in Int /\ first * Hours \in Int /\ d * Hours \in Int /\ h \in Nat /\ h < Hours
  BY <1>h
<1>2. CA!wall(from, z) \in Int /\ CA!wall(x, z) \in Int /\ changed \in Int
  BY Walls
<1>3. /\ first * Hours <= CA!wall(from, z) /\ CA!wall(from, z) < first * Hours + Hours
  <2> DEFINE v == CA!wall(from, z)
  <2>1. v \in Int /\ first = v \div Hours
    BY <1>2
  <2> HIDE DEF v
  <2>2. v % Hours \in 0 .. Hours - 1 /\ v = (v \div Hours) * Hours + (v % Hours)
    BY <1>h, <2>1, Divided
  <2> DEFINE r == v % Hours
  <2>3. r \in 0 .. Hours - 1 /\ v = first * Hours + r
    BY <2>1, <2>2
  <2> HIDE DEF r
  <2>4. first * Hours <= v /\ v < first * Hours + Hours
    BY <1>h, <1>1, <2>3
  <2> QED  BY <2>4 DEF v
<1>4. CA!wall(x, z) = n \/ (CA!Skips(z) /\ n = changed /\ x \in {z.at - 1, z.at})
  BY <1>1, Converts
<1>5. z.at \in Int
  BY DEF ZoneOK
<1> HIDE DEF n, changed
<1>6. x >= from /\ (x > from \/ (CA!Skips(z) /\ n = changed /\ h = 0))
  <2>1. CASE x > from
    BY <2>1
  <2>2. CASE first < d
    <3>1. first * Hours + Hours <= d * Hours
      BY <1>h, <2>2, DaysApart
    <3>2. CA!wall(from, z) < n - h
      BY <1>h, <1>1, <1>2, <1>3, <3>1 DEF n
    <3>3. CASE CA!wall(x, z) = n
      BY <1>1, <1>2, <3>2, <3>3, Walls
    <3>4. CASE CA!Skips(z) /\ n = changed /\ x \in {z.at - 1, z.at}
      <4>1. CA!wall(from, z) < changed /\ (h # 0 => CA!wall(from, z) < changed - 1)
        BY <1>1, <1>2, <3>2, <3>4
      <4>2. from < z.at /\ (h # 0 => from < z.at - 1)
        BY <3>4, <4>1, Walls DEF changed
      <4> QED  BY <1>5, <3>4, <4>2
    <3> QED  BY <1>4, <3>3, <3>4
  <2> QED  BY <2>1, <2>2
<1>7. ASSUME NEW t \in from + 1 .. x - 1,
             CA!wall(t, z) \div Hours \in D, CA!wall(t, z) % Hours = h
      PROVE  CA!Repeats(z) /\ CA!wall(t, z) = changed
  <2> DEFINE k == CA!wall(t, z) \div Hours
  <2>1. t \in Int /\ from < t /\ t < x
    OBVIOUS
  <2>2. CA!wall(t, z) \in Int /\ CA!wall(from, z) <= CA!wall(t, z) /\ CA!wall(t, z) <= CA!wall(x, z)
    BY <2>1, Walls
  <2>3. k \in D /\ k \in Int /\ CA!wall(t, z) = k * Hours + h /\ k * Hours \in Int
    <3> DEFINE v == CA!wall(t, z)
    <3>1. v \in Int /\ v \div Hours \in D /\ v % Hours = h
      BY <1>7, <2>2
    <3> HIDE DEF v
    <3>2. v = (v \div Hours) * Hours + (v % Hours)
      BY <1>h, <3>1, Divided
    <3>3. v = (v \div Hours) * Hours + h /\ v \div Hours \in Int
      BY <3>1, <3>2
    <3>4. (v \div Hours) * Hours \in Int
      BY <1>h, <3>3
    <3> QED  BY <3>1, <3>3, <3>4 DEF v
  <2> HIDE DEF k
  <2>4. CA!Skips(z) => CA!wall(t, z) # changed
    BY <2>1, Walls DEF changed
  <2>5. first <= k
    <3> SUFFICES ASSUME k < first PROVE FALSE
      BY <2>3
    <3>1. k * Hours + Hours <= first * Hours
      BY <1>h, <2>3, DaysApart
    <3> QED  BY <1>h, <1>1, <1>2, <1>3, <2>2, <2>3, <3>1
  <2>6. CA!wall(t, z) <= n
    <3>1. CASE CA!wall(x, z) = n
      BY <2>2, <3>1
    <3>2. CASE CA!Skips(z) /\ n = changed /\ x \in {z.at - 1, z.at}
      <4>1. t < z.at
        BY <1>5, <2>1, <3>2
      <4>2. CA!wall(t, z) < changed
        BY <2>1, <3>2, <4>1, Walls DEF changed
      <4> QED  BY <1>1, <1>2, <2>2, <3>2, <4>2
    <3> QED  BY <1>4, <3>1, <3>2
  <2>7. k <= d
    <3> SUFFICES ASSUME d < k PROVE FALSE
      BY <2>3
    <3>1. d * Hours + Hours <= k * Hours
      BY <1>h, <2>3, DaysApart
    <3> QED  BY <1>h, <1>1, <2>2, <2>3, <2>6, <3>1 DEF n
  <2>8. CASE k = d
    <3>1. CA!wall(t, z) = n
      BY <2>3, <2>8 DEF n
    <3>2. CA!wall(x, z) = n
      BY <1>4, <2>4, <3>1
    <3> QED  BY <2>1, <3>1, <3>2, Walls DEF changed
  <2>9. CASE k # d
    <3>1. k = first /\ instant(first * Hours + h, z) <= from
      BY <2>3, <2>5, <2>7, <2>9
    <3> DEFINE c == instant(first * Hours + h, z)
    <3>2. /\ c \in Int
          /\ CA!wall(c, z) = first * Hours + h
             \/ (CA!Skips(z) /\ first * Hours + h = CA!ChangedHour(z))
      BY <1>1, Converts
    <3>3. CA!wall(t, z) = first * Hours + h
      BY <2>3, <3>1
    <3>4. CA!wall(c, z) = CA!wall(t, z)
      BY <2>4, <3>2, <3>3 DEF changed
    <3>5. c \in Int /\ c < t
      BY <2>1, <3>1, <3>2
    <3> HIDE DEF c
    <3> QED  BY <2>1, <3>4, <3>5, Walls DEF changed
  <2> QED  BY <2>8, <2>9
<1> QED  BY <1>4, <1>6, <1>7 DEF n, changed

\* What is asked for on the days D, at the first of them that comes, is what the next
\* run promises (NextFits and NextIsAhead).
Fits(x, from, z) ==
  /\ CA!AskedAt(CA!wall(x, z))
     \/ (CA!Skips(z) /\ CA!AskedAt(CA!ChangedHour(z)) /\ x \in {z.at - 1, z.at})
  /\ \A t \in from + 1 .. x - 1 :
       CA!AskedAt(CA!wall(t, z)) => CA!Repeats(z) /\ CA!wall(t, z) = CA!ChangedHour(z)
Ahead(x, from, z) ==
  x > from \/ (CA!Skips(z) /\ CA!AtMidnight(z) /\ CA!AskedAt(CA!ChangedHour(z)))

\* Of the days D, d is the first whose run x is still ahead.
ComesFirst(x, d, D, from, z) ==
  \/ x > from /\ \A e \in D : CA!zonedDate(from, z) <= e => d <= e
  \/ /\ CA!zonedDate(from, z) < d /\ \A e \in D : CA!zonedDate(from, z) < e => d <= e
     /\ CA!zonedDate(from, z) \in D =>
          CA!zonedWallClockToUtc(CA!zonedDate(from, z), trigger.hour, z) <= from

LEMMA FirstFits ==
  ASSUME NEW z, ZoneOK(z), NEW from \in Int, NEW D \in SUBSET Int, NEW d \in D,
         trigger.hour \in 0 .. Hours - 1, \A e \in Int : CA!Asked(e) <=> e \in D,
         NEW x \in Int, x = CA!zonedWallClockToUtc(d, trigger.hour, z),
         ComesFirst(x, d, D, from, z)
  PROVE  x >= from /\ Fits(x, from, z) /\ Ahead(x, from, z)
<1> DEFINE h == trigger.hour
<1> DEFINE first == CA!zonedDate(from, z)
<1> DEFINE n == d * Hours + h
<1>h. Hours \in Nat \ {0}
  BY CalendarAssumption
<1>1. \A e : CA!zonedWallClockToUtc(e, h, z) = instant(e * Hours + h, z)
  BY DEF CA!zonedWallClockToUtc, instant
<1>2. first \in Int /\ first = CA!wall(from, z) \div Hours
  <2>1. CA!wall(from, z) \in Int
    BY Walls
  <2> QED  BY <1>h, <2>1, Divided DEF CA!zonedDate
<1> HIDE DEF h, first
<1>3. h \in 0 .. Hours - 1 /\ x = instant(d * Hours + h, z)
  BY <1>1 DEF h
<1>4. /\ CA!wall(x, z) = n \/ (CA!Skips(z) /\ n = CA!ChangedHour(z) /\ x \in {z.at - 1, z.at})
      /\ x >= from
      /\ x > from \/ (CA!Skips(z) /\ n = CA!ChangedHour(z) /\ h = 0)
      /\ \A t \in from + 1 .. x - 1 :
           CA!wall(t, z) \div Hours \in D /\ CA!wall(t, z) % Hours = h =>
             CA!Repeats(z) /\ CA!wall(t, z) = CA!ChangedHour(z)
  <2>1. \/ x > from /\ \A e \in D : first <= e => d <= e
        \/ /\ first < d /\ \A e \in D : first < e => d <= e
           /\ first \in D => instant(first * Hours + h, z) <= from
    BY <1>1 DEF h, first, ComesFirst
  <2> QED  BY <1>2, <1>3, <2>1, FirstAsked
<1>5. n \div Hours = d /\ n % Hours = h
  BY <1>h, <1>3, DayAndHour
<1> HIDE DEF n
<1>6. CA!AskedAt(n)
  BY <1>5 DEF CA!AskedAt, h
<1>7. ASSUME NEW t \in from + 1 .. x - 1, CA!AskedAt(CA!wall(t, z))
      PROVE  CA!wall(t, z) \div Hours \in D /\ CA!wall(t, z) % Hours = h
  <2>1. CA!wall(t, z) \in Int
    BY Walls
  <2>2. CA!wall(t, z) \div Hours \in Int
    BY <1>h, <2>1, Divided
  <2> QED  BY <1>7, <2>2 DEF CA!AskedAt, h
<1>8. Fits(x, from, z)
  BY <1>4, <1>6, <1>7 DEF Fits
<1>9. Ahead(x, from, z)
  <2>1. CASE CA!Skips(z) /\ n = CA!ChangedHour(z) /\ h = 0
    BY <1>5, <1>6, <2>1 DEF Ahead, CA!AtMidnight
  <2> QED  BY <1>4, <2>1 DEF Ahead
<1> QED  BY <1>4, <1>8, <1>9

\* The next run is one the wall clock has (computeNextTriggerRun), and a task that
\* recurs has one.
LEMMA NextRun ==
  ASSUME trigger \in Triggers, NEW z, ZoneOK(z), NEW from \in Nat,
         NEW x, x = CA!computeNextTriggerRun(trigger, from, z)
  PROVE  /\ x \in Int
         /\ trigger.kind \in {"once", "daily", "weekly"} /\ x # CA!Never => Fits(x, from, z)
         /\ trigger.kind \in {"daily", "weekly", "interval"} => x # CA!Never
         /\ x # CA!Never => Ahead(x, from, z) /\ x >= from
<1> DEFINE h == trigger.hour
<1> DEFINE first == CA!zonedDate(from, z)
<1> DEFINE askedRun(e) == CA!zonedWallClockToUtc(e, h, z)
<1>h. Hours \in Nat \ {0} /\ Week \in Nat \ {0} /\ TriggerOK(trigger) /\ from \in Int
  BY CalendarAssumption
<1>1. h \in 0 .. Hours - 1
  BY <1>h DEF TriggerOK
<1>2. first \in Int
  <2>1. CA!wall(from, z) \in Int
    BY Walls
  <2> QED  BY <1>h, <2>1, Divided DEF CA!zonedDate
<1>3. ASSUME NEW e \in Int PROVE askedRun(e) \in Int
  <2>1. e * Hours + h \in Int
    BY <1>h, <1>1
  <2>2. instant(e * Hours + h, z) \in Int
    BY <2>1, Converts
  <2> QED  BY <2>2 DEF CA!zonedWallClockToUtc, instant
<1>4. CA!Never = -1 /\ CA!Never < 0
  BY DEF CA!Never
<1> HIDE DEF h, first, askedRun
<1>5. CASE trigger.kind = "once"
  <2>1. x = IF askedRun(trigger.date) > from THEN askedRun(trigger.date) ELSE CA!Never
    BY <1>5 DEF CA!computeNextTriggerRun, CA!NextOnce, askedRun, h
  <2>2. askedRun(trigger.date) \in Int /\ trigger.date \in Int
    BY <1>h, <1>3 DEF TriggerOK
  <2>3. CASE askedRun(trigger.date) > from
    <3> DEFINE D == {trigger.date}
    <3>1. /\ \A e \in Int : CA!Asked(e) <=> e \in D
          /\ D \in SUBSET Int /\ trigger.date \in D
      BY <1>5, <2>2 DEF CA!Asked
    <3>2. x > from /\ x \in Int /\ x = CA!zonedWallClockToUtc(trigger.date, trigger.hour, z)
      BY <2>1, <2>2, <2>3 DEF askedRun, h
    <3>3. \A e \in D : CA!zonedDate(from, z) <= e => trigger.date <= e
      BY <2>2
    <3> HIDE DEF D
    <3>4. ComesFirst(x, trigger.date, D, from, z)
      BY <3>2, <3>3 DEF ComesFirst
    <3>5. x >= from /\ Fits(x, from, z) /\ Ahead(x, from, z)
      BY <1>h, <1>1, <3>1, <3>2, <3>4, FirstFits, Zenon DEF h
    <3> QED  BY <1>5, <3>2, <3>5
  <2> QED  BY <1>4, <1>5, <2>1, <2>3
<1>6. CASE trigger.kind = "daily"
  <2>1. x = IF askedRun(first) > from THEN askedRun(first) ELSE askedRun(first + 1)
    BY <1>6 DEF CA!computeNextTriggerRun, CA!NextDaily, askedRun, h, first
  <2>2. askedRun(first) \in Int /\ askedRun(first + 1) \in Int
    BY <1>2, <1>3
  <2> DEFINE D == Int
  <2>3. (\A e \in Int : CA!Asked(e) <=> e \in D) /\ D \in SUBSET Int
    BY <1>6 DEF CA!Asked
  <2>4. x >= from /\ Fits(x, from, z) /\ Ahead(x, from, z)
    <3>1. CASE askedRun(first) > from
      <4>1. x > from /\ x \in Int /\ x = CA!zonedWallClockToUtc(first, trigger.hour, z)
        BY <2>1, <2>2, <3>1 DEF askedRun, h
      <4>2. first \in D /\ \A e \in D : CA!zonedDate(from, z) <= e => first <= e
        BY <1>2 DEF first
      <4> HIDE DEF D
      <4>3. ComesFirst(x, first, D, from, z)
        BY <4>1, <4>2 DEF ComesFirst
      <4> QED  BY <1>h, <1>1, <2>3, <4>1, <4>2, <4>3, FirstFits, Zenon DEF h
    <3>2. CASE ~ (askedRun(first) > from)
      <4>1. x \in Int /\ x = CA!zonedWallClockToUtc(first + 1, trigger.hour, z)
        BY <2>1, <2>2, <3>2 DEF askedRun, h
      <4>2. /\ CA!zonedDate(from, z) < first + 1 /\ first + 1 \in D
            /\ \A e \in D : CA!zonedDate(from, z) < e => first + 1 <= e
        BY <1>2 DEF first
      <4>3. CA!zonedWallClockToUtc(CA!zonedDate(from, z), trigger.hour, z) <= from
        BY <2>2, <3>2 DEF askedRun, h, first
      <4> HIDE DEF D
      <4>4. ComesFirst(x, first + 1, D, from, z)
        BY <4>2, <4>3 DEF ComesFirst
      <4> QED  BY <1>h, <1>1, <2>3, <4>1, <4>2, <4>4, FirstFits, Zenon DEF h
    <3> QED  BY <3>1, <3>2
  <2>5. x \in Int
    BY <2>1, <2>2
  <2> QED  BY <1>4, <1>6, <2>4, <2>5
<1>7. CASE trigger.kind = "weekly"
  <2> DEFINE D == {e \in Int : e % Week \in trigger.days}
  <2> DEFINE offsets == {o \in 0 .. Week : /\ CA!weekdayOf(first + o) \in trigger.days
                                           /\ o = 0 => askedRun(first) > from}
  <2>1. trigger.days \subseteq 0 .. Week - 1 /\ trigger.days # {}
    BY <1>h, <1>7 DEF TriggerOK
  <2>2. \E o \in 1 .. Week : (first + o) % Week \in trigger.days
    <3>1. PICK w \in trigger.days : w \in 0 .. Week - 1
      BY <2>1
    <3>2. \E o \in 1 .. Week : (first + o) % Week = w
      BY <1>h, <1>2, <3>1, WithinAWeek
    <3> QED  BY <3>1, <3>2
  <2>3. offsets # {} /\ offsets \subseteq Nat
    <3>1. PICK o \in 1 .. Week : (first + o) % Week \in trigger.days
      BY <2>2
    <3>2. o \in 0 .. Week /\ o # 0
      BY <1>h
    <3>3. o \in offsets
      BY <3>1, <3>2 DEF CA!weekdayOf
    <3> QED  BY <1>h, <3>3
  <2>4. x = IF offsets = {} THEN CA!Never ELSE askedRun(first + CA!Min(offsets))
    BY <1>7 DEF CA!computeNextTriggerRun, CA!NextWeekly, askedRun, h, first
  <2> DEFINE m == CA!Min(offsets)
  <2> HIDE DEF offsets
  <2>5. m \in offsets /\ \A o \in offsets : m <= o
    BY <2>3, Least DEF CA!Min
  <2>6. x = askedRun(first + m)
    BY <2>3, <2>4
  <2> HIDE DEF m
  <2>7. m \in 0 .. Week /\ (first + m) % Week \in trigger.days /\ (m = 0 => askedRun(first) > from)
    BY <2>5 DEF offsets, CA!weekdayOf
  <2>8. first + m \in D /\ D \in SUBSET Int
    BY <1>2, <2>7
  <2>9. \A e \in Int : CA!Asked(e) <=> e \in D
    BY <1>7 DEF CA!Asked, CA!weekdayOf
  <2>10. x \in Int /\ x = CA!zonedWallClockToUtc(first + m, trigger.hour, z)
    BY <1>3, <2>6, <2>8 DEF askedRun, h
  <2>11. x >= from /\ Fits(x, from, z) /\ Ahead(x, from, z)
    <3>1. CASE m = 0
      <4>1. first + m = first /\ x > from
        BY <1>2, <2>6, <2>7, <3>1
      <4>2. \A e \in D : CA!zonedDate(from, z) <= e => first + m <= e
        BY <1>2, <4>1 DEF first
      <4> HIDE DEF D
      <4>3. ComesFirst(x, first + m, D, from, z)
        BY <4>1, <4>2 DEF ComesFirst
      <4> QED  BY <1>h, <1>1, <2>8, <2>9, <2>10, <4>3, FirstFits, Zenon DEF h
    <3>2. CASE m # 0
      <4>1. CA!zonedDate(from, z) < first + m
        BY <1>2, <2>7, <3>2 DEF first
      <4>2. ASSUME NEW e \in D, first < e PROVE first + m <= e
        <5>1. e \in Int /\ e % Week \in trigger.days
          OBVIOUS
        <5> DEFINE o == e - first
        <5>2. o \in Int /\ 0 < o /\ first + o = e
          BY <1>2, <4>2, <5>1
        <5> HIDE DEF o
        <5>3. CASE o <= Week
          <6>1. o \in 0 .. Week /\ o # 0
            BY <1>h, <5>2, <5>3
          <6>2. o \in offsets
            BY <5>1, <5>2, <6>1 DEF offsets, CA!weekdayOf
          <6>3. m <= o
            BY <2>5, <6>2
          <6> QED  BY <1>2, <2>7, <5>2, <6>3
        <5>4. CASE Week < o
          BY <1>h, <1>2, <2>7, <5>2, <5>4
        <5> QED  BY <1>h, <5>2, <5>3, <5>4
      <4>3. ASSUME first \in D PROVE askedRun(first) <= from
        <5>1. 0 \notin offsets
          BY <2>5, <2>7, <3>2
        <5>2. first + 0 = first /\ 0 \in 0 .. Week
          BY <1>h, <1>2
        <5>3. ~ (askedRun(first) > from)
          BY <4>3, <5>1, <5>2 DEF offsets, CA!weekdayOf
        <5>4. askedRun(first) \in Int
          BY <1>2, <1>3
        <5> QED  BY <5>3, <5>4
      <4> HIDE DEF D
      <4>4. /\ \A e \in D : CA!zonedDate(from, z) < e => first + m <= e
            /\ CA!zonedDate(from, z) \in D =>
                 CA!zonedWallClockToUtc(CA!zonedDate(from, z), trigger.hour, z) <= from
        BY <4>2, <4>3 DEF first, askedRun, h
      <4>5. ComesFirst(x, first + m, D, from, z)
        BY <4>1, <4>4 DEF ComesFirst
      <4> QED  BY <1>h, <1>1, <2>8, <2>9, <2>10, <4>5, FirstFits, Zenon DEF h
    <3> QED  BY <3>1, <3>2
  <2> QED  BY <1>4, <1>7, <2>10, <2>11
<1>8. CASE trigger.kind = "interval"
  <2>1. x = from + trigger.every /\ trigger.every \in Nat \ {0}
    BY <1>h, <1>8 DEF CA!computeNextTriggerRun, TriggerOK
  <2> QED  BY <1>4, <1>8, <2>1 DEF Ahead
<1>9. CASE trigger.kind = "timeout"
  BY <1>4, <1>9 DEF CA!computeNextTriggerRun
<1> QED  BY <1>h, <1>5, <1>6, <1>7, <1>8, <1>9 DEF TriggerOK

\* The task's next run is the one computed at asOf, and a tick holds a task due.
Moments == [at : 0 .. LastHour, zone : Zones \cup {Elsewhere, UTC}]
NextInv ==
  /\ trigger.kind \in {"once", "daily", "weekly"} /\ next # CA!Never =>
       Fits(next, asOf.at, asOf.zone)
  /\ trigger.kind \in {"daily", "weekly", "interval"} => next # CA!Never
  /\ next # CA!Never => Ahead(next, asOf.at, asOf.zone)
CalendarInv ==
  /\ zone \in Zones \cup {Elsewhere} /\ trigger \in Triggers
  /\ now \in 0 .. LastHour /\ next \in Int /\ fires \in {0, 1}
  /\ asOf \in Moments /\ calendarTick \in Moments \cup {CA!NoTick}
  /\ NextInv
  /\ ~moved => asOf.zone = zone /\ (calendarTick # CA!NoTick => calendarTick.zone = zone)
  /\ calendarTick # CA!NoTick => next # CA!Never /\ next <= calendarTick.at
  /\ trigger.kind = "once" /\ next # CA!Never =>
       next = CA!zonedWallClockToUtc(trigger.date, trigger.hour, asOf.zone)
  /\ CA!OneShotOnce

LEMMA InitCalendar ==
  ASSUME CA!Init
  PROVE  CalendarInv
<1>1. /\ zone \in Zones /\ trigger \in Triggers /\ now \in 0 .. Hours - 1
      /\ next = CA!FirstRun(trigger, now, zone) /\ next # CA!Never
      /\ asOf = [at |-> now, zone |-> zone] /\ calendarTick = CA!NoTick /\ fires = 0
  BY DEF CA!Init
<1>2. ZoneOK(zone) /\ TriggerOK(trigger) /\ now \in 0 .. LastHour /\ now \in Nat
  BY <1>1, CalendarAssumption
<1>3. asOf \in Moments /\ asOf.at = now /\ asOf.zone = zone
  BY <1>1, <1>2 DEF Moments
<1>4. CA!Never < 0 /\ CA!Never \in Int
  BY DEF CA!Never
<1>5. CASE trigger.kind = "timeout"
  <2>1. next = now + trigger.every /\ trigger.every \in Nat \ {0}
    BY <1>1, <1>2, <1>5 DEF CA!FirstRun, TriggerOK
  <2>2. Ahead(next, now, zone) /\ next \in Int
    BY <1>2, <2>1 DEF Ahead
  <2> QED  BY <1>1, <1>2, <1>3, <1>5, <2>2 DEF CalendarInv, NextInv, CA!OneShotOnce
<1>6. CASE trigger.kind # "timeout"
  <2>1. next = CA!computeNextTriggerRun(trigger, now, zone)
    BY <1>1, <1>6 DEF CA!FirstRun
  <2>2. next \in Int /\ NextInv
    BY <1>1, <1>2, <1>3, <2>1, NextRun DEF NextInv
  <2>3. trigger.kind = "once" =>
          next = CA!zonedWallClockToUtc(trigger.date, trigger.hour, zone)
    BY <1>1, <2>1 DEF CA!computeNextTriggerRun, CA!NextOnce
  <2> QED  BY <1>1, <1>2, <1>3, <2>2, <2>3 DEF CalendarInv, CA!OneShotOnce
<1> QED  BY <1>5, <1>6

LEMMA StepCalendar ==
  ASSUME CalendarInv, [CA!Next]_(CA!calendarVars)
  PROVE  CalendarInv'
<1>0. ASSUME UNCHANGED <<trigger, next, asOf>> PROVE NextInv'
  <2>1. \A w : CA!AskedAt(w)' <=> CA!AskedAt(w)
    BY <1>0 DEF CA!AskedAt, CA!Asked
  <2>2. NextInv
    BY DEF CalendarInv
  <2> QED  BY <1>0, <2>1, <2>2 DEF NextInv, Fits, Ahead
<1>1. CASE UNCHANGED CA!calendarVars
  <2>1. NextInv'
    BY <1>0, <1>1 DEF CA!calendarVars
  <2> QED  BY <1>1, <2>1 DEF CalendarInv, CA!OneShotOnce, CA!calendarVars
<1>2. CASE CA!Pass
  <2>1. NextInv'
    BY <1>0, <1>2 DEF CA!Pass
  <2> QED  BY <1>2, <2>1, CalendarAssumption DEF CA!Pass, CalendarInv, CA!OneShotOnce
<1>3. CASE CA!Move
  <2>1. NextInv'
    BY <1>0, <1>3 DEF CA!Move
  <2> QED  BY <1>3, <2>1 DEF CA!Move, CalendarInv, CA!OneShotOnce
<1>4. CASE CA!StartTick
  <2>1. [at |-> now, zone |-> zone] \in Moments /\ [at |-> now, zone |-> UTC] \in Moments
    BY DEF Moments, CalendarInv
  <2>2. NextInv'
    BY <1>0, <1>4 DEF CA!StartTick
  <2> QED  BY <1>4, <2>1, <2>2 DEF CA!StartTick, CalendarInv, CA!OneShotOnce
<1>5. CASE CA!Settle
  <2> DEFINE from == calendarTick.at
  <2> DEFINE z == calendarTick.zone
  <2>1. /\ calendarTick # CA!NoTick /\ calendarTick \in Moments
        /\ next' = CA!computeNextTriggerRun(trigger, from, z)
        /\ asOf' = calendarTick /\ calendarTick' = CA!NoTick /\ fires' = 1
        /\ UNCHANGED <<zone, now, trigger, moved>>
    BY <1>5 DEF CA!Settle, CalendarInv
  <2>2. ZoneOK(z) /\ from \in Nat
    BY <2>1, CalendarAssumption DEF Moments
  <2>3. next' \in Int /\ NextInv'
    <3>1. trigger \in Triggers /\ asOf'.at = from /\ asOf'.zone = z
      BY <2>1 DEF CalendarInv
    <3> DEFINE x == next'
    <3>2. x = CA!computeNextTriggerRun(trigger, from, z)
      BY <2>1
    <3> HIDE DEF x, from, z
    <3>3. /\ x \in Int
          /\ trigger.kind \in {"once", "daily", "weekly"} /\ x # CA!Never => Fits(x, from, z)
          /\ trigger.kind \in {"daily", "weekly", "interval"} => x # CA!Never
          /\ x # CA!Never => Ahead(x, from, z) /\ x >= from
      BY <2>2, <3>1, <3>2, NextRun
    <3> QED  BY <2>1, <3>1, <3>3 DEF x, NextInv, Fits, Ahead, CA!AskedAt, CA!Asked
  <2>4. trigger.kind = "once" /\ next' # CA!Never =>
          next' = CA!zonedWallClockToUtc(trigger.date, trigger.hour, z)
    BY <2>1 DEF CA!computeNextTriggerRun, CA!NextOnce
  <2>5. trigger.kind = "timeout" => next' = CA!Never
    BY <2>1 DEF CA!computeNextTriggerRun
  <2>6. ASSUME trigger.kind = "once", ~ moved PROVE next' = CA!Never
    <3>1. z = asOf.zone /\ next <= from
      BY <2>1, <2>6 DEF CalendarInv
    <3>2. next = CA!zonedWallClockToUtc(trigger.date, trigger.hour, z)
      BY <2>1, <2>6, <3>1 DEF CalendarInv
    <3>3. next \in Int /\ from \in Int
      BY <2>2 DEF CalendarInv
    <3>4. ~ (CA!zonedWallClockToUtc(trigger.date, trigger.hour, z) > from)
      BY <3>1, <3>2, <3>3
    <3> QED  BY <2>1, <2>6, <3>4 DEF CA!computeNextTriggerRun, CA!NextOnce
  <2>7. ~ moved => z = zone
    BY <2>1 DEF CalendarInv
  <2>8. zone \in Zones \cup {Elsewhere} /\ trigger \in Triggers /\ now \in 0 .. LastHour
    BY DEF CalendarInv
  <2> QED  BY <2>1, <2>3, <2>4, <2>5, <2>6, <2>7, <2>8 DEF CalendarInv, CA!OneShotOnce
<1>6. CASE CA!SettleFailed
  <2>1. NextInv'
    BY <1>0, <1>6 DEF CA!SettleFailed
  <2> QED  BY <1>6, <2>1 DEF CA!SettleFailed, CalendarInv, CA!OneShotOnce
<1> QED  BY <1>1, <1>2, <1>3, <1>4, <1>5, <1>6 DEF CA!Next

\* A day's bounds hold the message of now, unless the clock changes at midnight.
LEMMA LoadedThere ==
  ASSUME NEW z, ZoneOK(z), NEW t \in Int, NEW d, d = CA!zonedDate(t, z)
  PROVE  \/ /\ CA!zonedWallClockToUtc(d, 0, z) <= t
            /\ t < CA!zonedWallClockToUtc(d + 1, 0, z)
         \/ CA!AtMidnight(z)
<1>h. Hours \in Nat \ {0} /\ 1 < Hours /\ 0 \in 0 .. Hours - 1
  BY CalendarAssumption
<1> DEFINE v == CA!wall(t, z)
<1> DEFINE b == d * Hours
<1> DEFINE c == (d + 1) * Hours
<1>1. v \in Int /\ d = v \div Hours
  BY Walls DEF CA!zonedDate
<1> HIDE DEF v
<1>2. d \in Int /\ b \in Int /\ c = b + Hours /\ b <= v /\ v < c
  <2> DEFINE r == v % Hours
  <2>1. d \in Int /\ r \in 0 .. Hours - 1 /\ v = d * Hours + r
    BY <1>h, <1>1, Divided
  <2> HIDE DEF r
  <2>2. d * Hours \in Int /\ (d + 1) * Hours = d * Hours + Hours
    BY <1>h, <2>1
  <2> QED  BY <1>h, <2>1, <2>2
<1>3. b % Hours = 0 /\ c % Hours = 0
  <2>1. ASSUME NEW e \in Int PROVE (e * Hours) % Hours = 0
    <3>1. (e * Hours + 0) % Hours = 0 /\ e * Hours \in Int
      BY <1>h, DayAndHour
    <3> QED  BY <3>1
  <2>2. d + 1 \in Int
    BY <1>2
  <2> QED  BY <1>2, <2>1, <2>2
<1>4. /\ CA!zonedWallClockToUtc(d, 0, z) = instant(b, z)
      /\ CA!zonedWallClockToUtc(d + 1, 0, z) = instant(c, z)
  <2>1. b + 0 = b /\ c + 0 = c
    BY <1>h, <1>2
  <2> QED  BY <2>1 DEF CA!zonedWallClockToUtc, instant
<1> HIDE DEF b, c
<1>5. \A n \in {b, c} : n \in Int
  BY <1>h, <1>2
<1>6. ASSUME ~ CA!AtMidnight(z), NEW n \in {b, c}
      PROVE  /\ instant(n, z) \in Int /\ CA!wall(instant(n, z), z) = n
             /\ CA!Repeats(z) => n # CA!ChangedHour(z)
  BY <1>3, <1>5, <1>6, Converts DEF CA!AtMidnight
<1>7. ASSUME ~ CA!AtMidnight(z), ~ (instant(b, z) <= t) PROVE FALSE
  <2> DEFINE i == instant(b, z)
  <2>1. i \in Int /\ CA!wall(i, z) = b /\ (CA!Repeats(z) => b # CA!ChangedHour(z)) /\ t < i
    BY <1>6, <1>7
  <2> HIDE DEF i
  <2>2. v <= b /\ (v = b => CA!Repeats(z) /\ v = CA!ChangedHour(z))
    BY <2>1, Walls DEF v
  <2> QED  BY <1>1, <1>2, <2>1, <2>2
<1>8. ASSUME ~ CA!AtMidnight(z), ~ (t < instant(c, z)) PROVE FALSE
  <2> DEFINE i == instant(c, z)
  <2>1. i \in Int /\ CA!wall(i, z) = c /\ i <= t
    BY <1>6, <1>8
  <2> HIDE DEF i
  <2>2. c <= v
    BY <2>1, Walls DEF v
  <2> QED  BY <1>h, <1>1, <1>2, <2>2
<1> QED  BY <1>4, <1>7, <1>8

LEMMA CalendarHolds == Spec => [](CA!CalendarTypeOK /\ CA!CalendarKept)
<1>1. Init => CalendarInv
  BY InitCalendar DEF Init
<1>2. CalendarInv /\ [Next]_allVars => CalendarInv'
  BY StepCalendar, Moves
<1>3. CalendarInv => CA!CalendarTypeOK /\ CA!CalendarKept
  <2> SUFFICES ASSUME CalendarInv PROVE CA!CalendarTypeOK /\ CA!CalendarKept
    OBVIOUS
  <2>1. CA!CalendarTypeOK
    BY DEF CA!CalendarTypeOK, CalendarInv, Moments
  <2>2. CA!NextFits
    BY DEF CA!NextFits, CalendarInv, NextInv, Fits
  <2>3. CA!NextIsAhead
    BY DEF CA!NextIsAhead, CalendarInv, NextInv, Ahead
  <2>4. CA!OneShotOnce
    BY DEF CalendarInv
  <2>5. ZoneOK(zone) /\ now \in Int
    BY CalendarAssumption DEF CalendarInv
  <2>6. CA!LoadedWhereCounted
    BY <2>5, LoadedThere DEF CA!LoadedWhereCounted
  <2> QED  BY <2>1, <2>2, <2>3, <2>4, <2>6 DEF CA!CalendarKept
<1> QED  BY <1>1, <1>2, <1>3, PTL DEF Spec

\* A task that has come through is not due again, and one is deleted or stopped only
\* when its fires came to that (scheduler.ts); its next run is the first instant ahead
\* whose wall clock shows what it asks for, and a message is summarised with the day
\* it is counted in (schedule.ts, summary.ts).
THEOREM SettledAsItWentHolds == Spec => []SettledAsItWent
<1>1. /\ TP!TaskTypeOK /\ TP!SettledAsItWent
      /\ CA!CalendarTypeOK /\ CA!CalendarKept
      => SettledAsItWent
  BY DEF SettledAsItWent
<1> QED  BY <1>1, TasksAsTheyWent, CalendarHolds, PTL

-----------------------------------------------------------------------------
\* The summaries of the days (DaySummaries).

\* The cardinality of the instance is the cardinality.
LEMMA OneCardinality == \A S : DS!Cardinality(S) = Cardinality(S)
BY DEF DS!Cardinality, Cardinality

\* The days of a run that are done, failed, or still to be taken up.
taken == done + Cardinality(bad) + Cardinality(page) + (IF atDay = DS!NoDay THEN 0 ELSE 1)

\* The types; a run takes up no more days than it may, and what is left of its
\* last page.
SweepInv ==
  /\ count \in [DS!Days -> 0 .. MaxCount] /\ grown \in [DS!Days -> 0 .. MaxCount]
  /\ topics \in [DS!Days -> 0 .. MaxCount] /\ marker \in [DS!Days -> 0 .. DS!NoMarker]
  /\ today \in {HistoryDays, HistoryDays + 1}
  /\ \A d \in DS!Days : count[d] <= grown[d]
  /\ at \in {"off", "scanning", "page", "loaded", "replaced"}
  /\ page \subseteq DS!Days /\ bad \subseteq DS!Days /\ torn \subseteq DS!Days
  /\ atDay \in DS!Days \cup {DS!NoDay} /\ (atDay # DS!NoDay <=> at \in {"loaded", "replaced"})
  /\ read \in 0 .. MaxCount /\ done \in Nat
  /\ taken <= MaxDays + PageSize
  /\ at \in {"off", "scanning"} => page = {}

\* A marker stands for topics built from as many messages as it counts, unless the
\* topics were replaced behind it.
MarkerInv ==
  /\ \A d \in DS!Days : marker[d] # DS!NoMarker => topics[d] = marker[d] \/ d \in torn
  /\ at = "replaced" => topics[atDay] = read

\* A set of days is finite: what adding and removing a day do to its size.
LEMMA DayCards ==
  ASSUME NEW S, S \subseteq DS!Days
  PROVE  /\ IsFiniteSet(S) /\ Cardinality(S) \in Nat /\ (Cardinality(S) = 0 <=> S = {})
         /\ \A d : Cardinality(S \cup {d}) <= Cardinality(S) + 1
         /\ \A d \in S : Cardinality(S \ {d}) = Cardinality(S) - 1
         /\ \A T : T \subseteq S => Cardinality(T) <= Cardinality(S)
<1>1. HistoryDays \in Nat /\ S \subseteq 1 .. HistoryDays
  BY SummariesAssumption DEF DS!Days
<1> QED  BY <1>1, Cards

\* The days listed are due, and the due days are days.
LEMMA DueDays == DS!dueDays \subseteq DS!Days /\ DS!listDue \subseteq DS!dueDays
  BY DEF DS!dueDays, DS!listDue

\* A scan fetches the first page of them: a page at most, and a full one if it leaves a
\* due day out.
LEMMA PageIsFull ==
  /\ Cardinality(DS!listDue) <= PageSize
  /\ ~ (DS!dueDays \subseteq DS!listDue) => PageSize <= Cardinality(DS!listDue)
<1>1. \A d : {k \in DS!dueDays : k < d} = Before(DS!dueDays, d)
  BY DEF Before
<1>2. FirstOf(DS!listDue, DS!dueDays, PageSize)
  BY <1>1, OneCardinality DEF DS!listDue, FirstOf
<1>3. DS!dueDays \subseteq 1 .. HistoryDays /\ HistoryDays \in Nat /\ PageSize \in Nat
  BY DueDays, SummariesAssumption DEF DS!Days
<1> QED  BY <1>2, <1>3, FirstFew

\* The sweep rests at first.
LEMMA InitSweep == DS!Init => SweepInv /\ MarkerInv
<1> SUFFICES ASSUME DS!Init PROVE SweepInv /\ MarkerInv
  OBVIOUS
<1>1. Cardinality(bad) = 0 /\ Cardinality(page) = 0
  BY FS_EmptySet DEF DS!Init
<1>2. taken = 0
  BY <1>1 DEF DS!Init, taken
<1>3. count \in [DS!Days -> 0 .. MaxCount]
  BY SummariesAssumption DEF DS!Init
<1>4. /\ grown = count /\ \A d \in DS!Days : count[d] <= grown[d]
  BY <1>3 DEF DS!Init
<1>5. topics \in [DS!Days -> 0 .. MaxCount] /\ marker \in [DS!Days -> 0 .. DS!NoMarker]
  BY SummariesAssumption DEF DS!Init, DS!NoMarker
<1> QED
  BY <1>2, <1>3, <1>4, <1>5, SummariesAssumption DEF DS!Init, SweepInv, MarkerInv, DS!NoDay

\* Every step of the sweep and of its conversations keeps both invariants.
LEMMA StepSweep ==
  SweepInv /\ MarkerInv /\ [DS!Next]_(DS!dayVars) => SweepInv' /\ MarkerInv'
<1> SUFFICES ASSUME SweepInv, MarkerInv, [DS!Next]_(DS!dayVars)
             PROVE  SweepInv' /\ MarkerInv'
  OBVIOUS
<1> USE DEF DS!stores, DS!sweep
<1>c. /\ Cardinality(bad) \in Nat /\ Cardinality(page) \in Nat
      /\ \A d : Cardinality(bad \cup {d}) \in Nat /\ Cardinality(bad \cup {d}) <= Cardinality(bad) + 1
      /\ \A d \in page : Cardinality(page \ {d}) = Cardinality(page) - 1
  <2>1. bad \subseteq DS!Days /\ page \subseteq DS!Days
    BY DEF SweepInv
  <2>2. \A d : Cardinality(bad \cup {d}) \in Nat
    BY <2>1, DayCards, FS_AddElement, FS_CardinalityType
  <2> QED  BY <2>1, <2>2, DayCards
<1>z. Cardinality({}) = 0
  BY FS_EmptySet
\* The steps that leave the run alone.
<1>s. ASSUME UNCHANGED <<at, page, atDay, read, done, bad, torn, topics, marker>>,
             count' \in [DS!Days -> 0 .. MaxCount], grown' \in [DS!Days -> 0 .. MaxCount],
             \A d \in DS!Days : count'[d] <= grown'[d], today' \in {HistoryDays, HistoryDays + 1}
      PROVE  SweepInv' /\ MarkerInv'
  <2>1. taken' = taken
    BY <1>s DEF taken
  <2>2. SweepInv'
    BY <1>s, <2>1 DEF SweepInv
  <2>3. MarkerInv'
    BY <1>s DEF MarkerInv
  <2> QED  BY <2>2, <2>3
<1>1. ASSUME NEW d \in DS!Days, DS!Arrive(d) PROVE SweepInv' /\ MarkerInv'
  <2>1. count[d] \in Nat /\ grown[d] \in Nat /\ count[d] <= grown[d] /\ grown[d] < MaxCount
    BY <1>1 DEF DS!Arrive, SweepInv
  <2>2. /\ count' = [count EXCEPT ![d] = count[d] + 1] /\ grown' = [grown EXCEPT ![d] = grown[d] + 1]
        /\ UNCHANGED <<at, page, atDay, read, done, bad, torn, topics, marker, today>>
    BY <1>1 DEF DS!Arrive
  <2>3. count[d] + 1 \in 0 .. MaxCount /\ grown[d] + 1 \in 0 .. MaxCount
    BY <2>1, SummariesAssumption
  <2>4. count' \in [DS!Days -> 0 .. MaxCount] /\ grown' \in [DS!Days -> 0 .. MaxCount]
    BY <2>2, <2>3 DEF SweepInv
  <2>5. \A e \in DS!Days : count'[e] <= grown'[e]
    BY <2>1, <2>2 DEF SweepInv
  <2> QED  BY <1>s, <2>2, <2>4, <2>5 DEF SweepInv
<1>2. ASSUME NEW d \in DS!Days, DS!Delete(d) PROVE SweepInv' /\ MarkerInv'
  <2>1. count[d] \in Nat /\ grown[d] \in Nat /\ count[d] <= grown[d] /\ count[d] > 0
        /\ count[d] <= MaxCount
    BY <1>2 DEF DS!Delete, SweepInv
  <2>2. /\ count' = [count EXCEPT ![d] = count[d] - 1]
        /\ UNCHANGED <<at, page, atDay, read, done, bad, torn, topics, marker, today, grown>>
    BY <1>2 DEF DS!Delete
  <2>3. count[d] - 1 \in 0 .. MaxCount
    BY <2>1, SummariesAssumption
  <2>4. count' \in [DS!Days -> 0 .. MaxCount]
    BY <2>2, <2>3 DEF SweepInv
  <2>5. \A e \in DS!Days : count'[e] <= grown[e]
    BY <2>1, <2>2 DEF SweepInv
  <2> QED  BY <1>s, <2>2, <2>4, <2>5 DEF SweepInv
<1>3. CASE DS!Midnight
  BY <1>s, <1>3 DEF DS!Midnight, SweepInv
<1>4. CASE UNCHANGED DS!dayVars
  BY <1>s, <1>4 DEF DS!dayVars, SweepInv
<1>5. CASE DS!StartRun
  <2>1. at = "off" /\ at' = "scanning" /\ UNCHANGED <<DS!stores, page, atDay, read, done, bad, torn>>
    BY <1>5 DEF DS!StartRun
  <2>2. taken' = taken
    BY <2>1 DEF taken
  <2> QED  BY <2>1, <2>2 DEF SweepInv, MarkerInv
\* The steps of a run leave the messages alone.
<1>r. ASSUME UNCHANGED <<count, grown, today>>,
             at' \in {"off", "scanning", "page", "loaded", "replaced"},
             page' \subseteq DS!Days, bad' \subseteq DS!Days, torn' \subseteq DS!Days,
             topics' \in [DS!Days -> 0 .. MaxCount], marker' \in [DS!Days -> 0 .. DS!NoMarker],
             atDay' \in DS!Days \cup {DS!NoDay}, atDay' # DS!NoDay <=> at' \in {"loaded", "replaced"},
             read' \in 0 .. MaxCount, done' \in Nat, taken' <= MaxDays + PageSize,
             at' \in {"off", "scanning"} => page' = {}
      PROVE  SweepInv'
  BY <1>r DEF SweepInv
\* ... and, but for the last of a day, the topics and the markers.
<1>m. ASSUME UNCHANGED <<topics, marker, torn>>, at' # "replaced" PROVE MarkerInv'
  BY <1>m DEF MarkerInv
<1>6. CASE DS!Scan
  <2>1. at = "scanning" /\ UNCHANGED <<DS!stores, atDay, read, torn>>
    BY <1>6 DEF DS!Scan
  <2>2. atDay = DS!NoDay
    BY <2>1 DEF SweepInv
  <2> DEFINE fresh == DS!listDue \ bad
  <2>3. CASE done + Cardinality(bad) < MaxDays /\ fresh # {}
    <3>1. at' = "page" /\ page' = fresh /\ UNCHANGED <<done, bad>>
      BY <1>6, <2>3, OneCardinality DEF DS!Scan
    <3>2. fresh \subseteq DS!Days /\ Cardinality(fresh) \in Nat /\ Cardinality(fresh) <= PageSize
      <4>1. DS!listDue \subseteq DS!Days
        BY DueDays
      <4>2. Cardinality(fresh) <= Cardinality(DS!listDue) /\ Cardinality(fresh) \in Nat
            /\ Cardinality(DS!listDue) \in Nat
        BY <4>1, DayCards
      <4> QED  BY <4>1, <4>2, PageIsFull, SummariesAssumption
    <3> HIDE DEF fresh
    <3>3. taken' = done + Cardinality(bad) + Cardinality(fresh) + 0
      BY <2>1, <2>2, <3>1 DEF taken
    <3>4. taken' <= MaxDays + PageSize
      BY <1>c, <2>3, <3>2, <3>3, SummariesAssumption DEF SweepInv
    <3>5. SweepInv'
      BY <1>r, <2>1, <2>2, <3>1, <3>2, <3>4 DEF SweepInv
    <3> QED  BY <1>m, <2>1, <3>1, <3>5
  <2>4. CASE ~ (done + Cardinality(bad) < MaxDays /\ fresh # {})
    <3>1. at' = "off" /\ page' = {} /\ done' = 0 /\ bad' = {}
      BY <1>6, <2>4, OneCardinality DEF DS!Scan, DS!Rest
    <3>2. taken' = 0
      BY <1>z, <2>1, <2>2, <3>1 DEF taken
    <3>3. SweepInv'
      BY <1>r, <2>1, <2>2, <3>1, <3>2, SummariesAssumption DEF SweepInv
    <3> QED  BY <1>m, <2>1, <3>1, <3>3
  <2> QED  BY <2>3, <2>4
<1>7. CASE DS!Load
  <2>1. at = "page" /\ atDay = DS!NoDay /\ UNCHANGED <<DS!stores, done, bad, torn>>
    BY <1>7 DEF DS!Load, SweepInv
  <2>2. CASE page = {}
    <3>1. at' = "scanning" /\ UNCHANGED <<page, atDay, read>>
      BY <1>7, <2>2 DEF DS!Load
    <3>2. taken' = taken
      BY <2>1, <3>1 DEF taken
    <3>3. SweepInv'
      BY <1>r, <2>1, <2>2, <3>1, <3>2 DEF SweepInv
    <3> QED  BY <1>m, <2>1, <3>1, <3>3
  <2>3. CASE page # {}
    <3>1. PICK d \in page : atDay' = d /\ read' = count[d] /\ page' = page \ {d} /\ at' = "loaded"
      BY <1>7, <2>3 DEF DS!Load
    <3>2. d \in DS!Days /\ d # DS!NoDay
      BY DEF SweepInv, DS!Days, DS!NoDay
    <3>3. taken = done + Cardinality(bad) + Cardinality(page) + 0
      BY <2>1 DEF taken
    <3>4. taken' = done + Cardinality(bad) + Cardinality(page \ {d}) + 1
      BY <2>1, <3>1, <3>2 DEF taken
    <3>5. taken' = taken
      BY <1>c, <3>3, <3>4 DEF SweepInv
    <3>6. SweepInv'
      BY <1>r, <2>1, <3>1, <3>2, <3>5 DEF SweepInv
    <3> QED  BY <1>m, <2>1, <3>1, <3>6
  <2> QED  BY <2>2, <2>3
<1>8. CASE DS!ReplaceTopics
  <2>1. /\ at = "loaded" /\ topics' = [topics EXCEPT ![atDay] = read] /\ torn' = torn \cup {atDay}
        /\ at' = "replaced" /\ UNCHANGED <<count, grown, marker, today, page, atDay, read, done, bad>>
    BY <1>8 DEF DS!ReplaceTopics
  <2>2. atDay \in DS!Days
    BY <2>1 DEF SweepInv
  <2>3. taken' = taken
    BY <2>1 DEF taken
  <2>4. SweepInv'
    BY <1>r, <2>1, <2>2, <2>3 DEF SweepInv
  <2>5. MarkerInv'
    BY <2>1, <2>2 DEF MarkerInv, SweepInv
  <2> QED  BY <2>4, <2>5
\* The day is over, done or failed.
<1>d. ASSUME at \in {"loaded", "replaced"}, atDay' = DS!NoDay, page' = page,
             \/ done' = done + 1 /\ bad' = bad
             \/ done' = done /\ bad' = bad \cup {atDay}
      PROVE  /\ taken' <= MaxDays + PageSize /\ done' \in Nat /\ bad' \subseteq DS!Days /\ atDay \in DS!Days
  <2>1. atDay # DS!NoDay /\ atDay \in DS!Days /\ bad \subseteq DS!Days /\ done \in Nat
        /\ taken <= MaxDays + PageSize
    BY <1>d DEF SweepInv
  <2>2. taken = done + Cardinality(bad) + Cardinality(page) + 1
    BY <2>1 DEF taken
  <2>3. taken' = done' + Cardinality(bad') + Cardinality(page) + 0
    BY <1>d DEF taken
  <2>4. /\ done' \in Nat /\ Cardinality(bad') \in Nat
        /\ done' + Cardinality(bad') <= done + Cardinality(bad) + 1
    <3>1. CASE done' = done + 1 /\ bad' = bad
      BY <1>c, <2>1, <3>1
    <3>2. CASE done' = done /\ bad' = bad \cup {atDay}
      <4>1. Cardinality(bad') \in Nat /\ Cardinality(bad') <= Cardinality(bad) + 1
        BY <1>c, <3>2
      <4> QED  BY <1>c, <2>1, <3>2, <4>1
    <3> QED  BY <1>d, <3>1, <3>2
  <2>5. taken' <= taken
    BY <1>c, <2>1, <2>2, <2>3, <2>4
  <2>6. taken \in Nat /\ taken' \in Nat
    BY <1>c, <2>1, <2>2, <2>3, <2>4
  <2>7. taken' <= MaxDays + PageSize
    BY <2>1, <2>5, <2>6, SummariesAssumption
  <2> QED  BY <1>d, <2>1, <2>4, <2>7
<1>9. CASE DS!Stamp
  <2>1. /\ at = "replaced" /\ marker' = [marker EXCEPT ![atDay] = read] /\ torn' = torn \ {atDay}
        /\ done' = done + 1 /\ at' = "page" /\ atDay' = DS!NoDay /\ read' = 0
        /\ UNCHANGED <<count, grown, topics, today, page, bad>>
    BY <1>9 DEF DS!Stamp
  <2>2. taken' <= MaxDays + PageSize /\ done' \in Nat /\ atDay \in DS!Days
    BY <1>d, <2>1
  <2>3. read \in 0 .. DS!NoMarker /\ 0 \in 0 .. MaxCount
    BY SummariesAssumption DEF SweepInv, DS!NoMarker
  <2>4. marker' \in [DS!Days -> 0 .. DS!NoMarker] /\ torn' \subseteq DS!Days
    BY <2>1, <2>2, <2>3 DEF SweepInv
  <2>5. SweepInv'
    BY <1>r, <2>1, <2>2, <2>3, <2>4 DEF SweepInv
  <2>6. MarkerInv'
    BY <2>1, <2>2 DEF MarkerInv, SweepInv
  <2> QED  BY <2>5, <2>6
<1>10. CASE DS!DayFails
  <2>1. /\ at \in {"loaded", "replaced"} /\ bad' = bad \cup {atDay}
        /\ at' = "page" /\ atDay' = DS!NoDay /\ read' = 0 /\ UNCHANGED <<DS!stores, page, done, torn>>
    BY <1>10 DEF DS!DayFails
  <2>2. taken' <= MaxDays + PageSize /\ bad' \subseteq DS!Days
    BY <1>d, <2>1
  <2>3. 0 \in 0 .. MaxCount
    BY SummariesAssumption
  <2>4. SweepInv'
    BY <1>r, <2>1, <2>2, <2>3 DEF SweepInv
  <2> QED  BY <1>m, <2>1, <2>4
<1>11. CASE DS!Crash
  <2>1. /\ at' = "off" /\ page' = {} /\ done' = 0 /\ bad' = {} /\ atDay' = DS!NoDay /\ read' = 0
        /\ UNCHANGED <<DS!stores, torn>>
    BY <1>11 DEF DS!Crash, DS!Rest
  <2>2. taken' = 0
    BY <1>z, <2>1 DEF taken
  <2>3. 0 \in 0 .. MaxCount
    BY SummariesAssumption
  <2>4. SweepInv'
    BY <1>r, <2>1, <2>2, <2>3, SummariesAssumption DEF SweepInv
  <2> QED  BY <1>m, <2>1, <2>4
<1> QED
  BY <1>1, <1>2, <1>3, <1>4, <1>5, <1>6, <1>7, <1>8, <1>9, <1>10, <1>11 DEF DS!Next, DS!RunStep

\* The invariants of the summaries hold in every behaviour.
LEMMA InvSweep == Spec => [](SweepInv /\ MarkerInv)
<1>1. Init => SweepInv /\ MarkerInv
  BY InitSweep DEF Init
<1>2. SweepInv /\ MarkerInv /\ [Next]_allVars => (SweepInv /\ MarkerInv)'
  BY StepSweep, Moves
<1> QED  BY <1>1, <1>2, PTL DEF Spec

\* A day that is not due has topics built from as many messages as it holds
\* (summarize.ts: the marker records the count of the transcript, not of the day),
\* whatever arrives, is deleted, fails or crashes meanwhile.
THEOREM CountedDaysCoveredHolds == Spec => []CountedDaysCovered
<1>1. SweepInv /\ MarkerInv => CountedDaysCovered
  <2> SUFFICES ASSUME SweepInv, MarkerInv PROVE DS!SummariesTypeOK /\ DS!CountedDaysCovered
    BY DEF CountedDaysCovered
  <2>1. (atDay # DS!NoDay) = (at \in {"loaded", "replaced"})
    <3>1. atDay # DS!NoDay <=> at \in {"loaded", "replaced"}
      BY DEF SweepInv
    <3> QED  BY <3>1
  <2>2. done + Cardinality(bad) <= MaxDays + PageSize
    <3>1. Cardinality(bad) \in Nat /\ Cardinality(page) \in Nat /\ done \in Nat
      BY DayCards DEF SweepInv
    <3>2. MaxDays + PageSize \in Nat
      BY SummariesAssumption
    <3>3. taken <= MaxDays + PageSize
      BY DEF SweepInv
    <3> QED  BY <3>1, <3>2, <3>3 DEF taken
  <2>3. DS!SummariesTypeOK
    BY <2>1, <2>2, OneCardinality DEF DS!SummariesTypeOK, SweepInv
  <2>4. DS!CountedDaysCovered
    <3> SUFFICES ASSUME NEW d \in DS!Days, d < today, count[d] > 0, ~DS!Due(d)
                 PROVE  topics[d] = count[d] \/ d \in torn
      BY DEF DS!CountedDaysCovered
    <3>1. marker[d] = count[d]
      BY DEF DS!Due
    <3>2. marker[d] # DS!NoMarker
      BY <3>1, SummariesAssumption DEF SweepInv, DS!NoMarker
    <3> QED  BY <3>1, <3>2 DEF MarkerInv
  <2> QED  BY <2>3, <2>4
<1> QED  BY <1>1, InvSweep, PTL

\* A run that ends by itself leaves no due day but the failed ones, while fewer than
\* a page of them failed (summarize.ts: days that failed are left out of the scan,
\* "one bad day does not block the rest").
THEOREM BadDayBlocksNoneHolds == Spec => DS!BadDayBlocksNone
<1> DEFINE A == at = "scanning" /\ at' = "off"
                /\ DS!Cardinality(bad) < PageSize /\ done + DS!Cardinality(bad) < MaxDays
                => DS!dueDays \subseteq bad
<1>1. SweepInv /\ [DS!Next]_(DS!dayVars) => [A]_(DS!dayVars)
  <2> SUFFICES ASSUME SweepInv, DS!Next, at = "scanning", at' = "off",
                      Cardinality(bad) < PageSize, done + Cardinality(bad) < MaxDays
               PROVE  DS!dueDays \subseteq bad
    BY OneCardinality
  <2>1. DS!Scan
    BY DEF DS!Next, DS!RunStep, DS!Arrive, DS!Delete, DS!Midnight, DS!StartRun, DS!Crash, DS!Load,
      DS!ReplaceTopics, DS!Stamp, DS!DayFails, DS!sweep
  <2>2. DS!listDue \subseteq bad
    BY <2>1, OneCardinality DEF DS!Scan
  <2>3. bad \subseteq DS!Days
    BY DEF SweepInv
  <2>4. Cardinality(DS!listDue) <= Cardinality(bad) /\ Cardinality(DS!listDue) \in Nat
        /\ Cardinality(bad) \in Nat
    BY <2>2, <2>3, DayCards
  <2>5. ~ (PageSize <= Cardinality(DS!listDue))
    BY <2>4, SummariesAssumption
  <2>6. DS!dueDays \subseteq DS!listDue
    BY <2>5, PageIsFull
  <2> QED  BY <2>2, <2>6
<1>2. [Next]_allVars => [DS!Next]_(DS!dayVars)
  BY Moves
<1> QED  BY <1>1, <1>2, InvSweep, PTL DEF Spec, DS!BadDayBlocksNone

-----------------------------------------------------------------------------
\* A step of the idle jobs is a step of each of them, or leaves it alone.
LEMMA IdleMoves ==
  ASSUME [IdleNext]_idleVars
  PROVE  [VB!Next]_(VB!vars) /\ [SI!Next]_(SI!searchVars)
<1> USE DEF IdleNext, idleVars, visionVars, searchVars
<1>1. [VB!Next]_(VB!vars)
  BY DEF VB!vars, VB!store, VB!scheduler, VB!job, VB!live, VB!history
<1>2. [SI!Next]_(SI!searchVars)
  BY DEF SI!searchVars, SI!mirror, SI!index, SI!stamps, SI!job, SI!notes
<1> QED  BY <1>1, <1>2

\* The cardinality of the instances is the cardinality.
LEMMA OneVisionCardinality == \A S : VB!Cardinality(S) = Cardinality(S)
BY DEF VB!Cardinality, Cardinality
LEMMA OneIndexCardinality == \A S : SI!Cardinality(S) = Cardinality(S)
BY DEF SI!Cardinality, Cardinality

-----------------------------------------------------------------------------
\* The search index (SearchIndex).

\* The types.
Texts == (1 .. MaxTextEdits + 1) \X {"none", "pending", "described"}
IndexTypes ==
  /\ text \in [SI!Msgs -> Texts] /\ edited \in [SI!Msgs -> BOOLEAN]
  /\ row \in [SI!Msgs -> Texts \cup {SI!NoText}] /\ vector \in [SI!Msgs -> BOOLEAN]
  /\ lateMedia \in [SI!Msgs -> BOOLEAN] /\ lateEdit \in [SI!Msgs -> BOOLEAN]
  /\ ahead \in [SI!Msgs -> BOOLEAN] /\ skewed \in [SI!Msgs -> BOOLEAN]
  /\ configured \in BOOLEAN /\ runtime \in BOOLEAN
  /\ rebuilt \in BOOLEAN /\ straddled \in BOOLEAN
  /\ run \in {"off", "scanning", "embedding"}
  /\ picked \in [SI!Msgs -> Texts \cup {SI!NoText}]
  /\ tried \in 0 .. MaxTried + IndexBatch
  /\ outrun \subseteq SI!Msgs

\* An edit on its way is one the platform may still make; what is picked is being
\* embedded, and is the text of now unless the change was missed; a row that misses
\* a change is due or its change was missed.
StaleInv ==
  /\ run = "embedding" <=> picked # SI!Nothing
  /\ \A m \in SI!Msgs :
       /\ edited[m] => text[m][1] <= MaxTextEdits
       /\ picked[m] # SI!NoText /\ picked[m] # text[m] => m \in outrun
       /\ row[m] # SI!NoText /\ row[m] # text[m] => SI!Due(m) \/ m \in outrun

\* An index rebuilt with a model is rebuilt by runs that read it, and has a vector for
\* what has a text.
VectorInv ==
  /\ rebuilt => configured
  /\ rebuilt /\ ~straddled /\ run # "off" => runtime
  /\ \A m \in SI!Msgs : row[m] # SI!NoText =>
       IF SI!Empty(m, row[m]) THEN ~vector[m] ELSE rebuilt /\ ~straddled => vector[m]

\* A batch is not empty if something is due, and no larger than it may be.
LEMMA Batch ==
  /\ SI!dueBatch \subseteq SI!Msgs /\ \A m \in SI!dueBatch : SI!Due(m)
  /\ Cardinality(SI!dueBatch) \in Nat /\ Cardinality(SI!dueBatch) <= IndexBatch
<1> DEFINE S == {m \in SI!Msgs : SI!Due(m)}
<1>1. S \subseteq 1 .. NMsgs
  BY DEF SI!Msgs
<1>2. \A m : {k \in SI!Msgs : k < m /\ SI!Due(k)} = Before(S, m)
  BY DEF Before
<1>3. FirstOf(SI!dueBatch, S, IndexBatch)
  BY <1>2, OneIndexCardinality DEF SI!dueBatch, FirstOf
<1>4. \A m \in S : SI!Due(m)
  OBVIOUS
<1> HIDE DEF S
<1>5. /\ SI!dueBatch \subseteq S
      /\ Cardinality(SI!dueBatch) \in Nat /\ Cardinality(SI!dueBatch) <= IndexBatch
  BY <1>1, <1>3, FirstFew, IndexAssumption
<1> QED  BY <1>1, <1>4, <1>5 DEF SI!Msgs

\* A change of a text keeps it a text that is not NoText.
LEMMA SomeText ==
  \A t \in Texts : t # SI!NoText /\ t[1] \in 1 .. MaxTextEdits + 1
                   /\ t[2] \in {"none", "pending", "described"}
BY DEF Texts, SI!NoText

\* Nothing is indexed at first.
LEMMA InitIndex == SI!Init => IndexTypes /\ StaleInv /\ VectorInv
<1> SUFFICES ASSUME SI!Init PROVE IndexTypes /\ StaleInv /\ VectorInv
  OBVIOUS
<1> USE IndexAssumption DEF SI!Init
<1>1. IndexTypes
  <2>1. \A m \in SI!Msgs : <<1, IF m \in Pictures THEN "pending" ELSE "none">> \in Texts
    BY DEF Texts
  <2>2. text \in [SI!Msgs -> Texts]
    BY <2>1
  <2>3. tried \in 0 .. MaxTried + IndexBatch
    OBVIOUS
  <2> QED  BY <2>2, <2>3 DEF IndexTypes, SI!Off, SI!Nothing
<1>2. StaleInv
  BY DEF StaleInv, SI!Off, SI!Nothing
<1>3. VectorInv
  BY DEF VectorInv, SI!Nothing
<1> QED  BY <1>1, <1>2, <1>3

LEMMA StepIndexTypes ==
  ASSUME IndexTypes, StaleInv, [SI!Next]_(SI!searchVars)
  PROVE  IndexTypes'
<1> USE IndexAssumption DEF IndexTypes, SI!mirror, SI!index, SI!stamps, SI!job, SI!notes
<1>1. CASE UNCHANGED SI!searchVars
  BY <1>1 DEF SI!searchVars
<1>2. CASE SI!Configure
  BY <1>2 DEF SI!Configure
<1>3. CASE SI!Clear
  BY <1>3 DEF SI!Clear, SI!Nothing, SI!Off
<1>4. CASE SI!StartRun
  <2>1. straddled' \in BOOLEAN /\ runtime' \in BOOLEAN
    BY <1>4 DEF SI!StartRun
  <2>2. tried' \in 0 .. MaxTried + IndexBatch /\ run' = "scanning"
    BY <1>4 DEF SI!StartRun
  <2> QED  BY <1>4, <2>1, <2>2 DEF SI!StartRun
<1>5. CASE SI!Crash
  BY <1>5 DEF SI!Crash, SI!Nothing
<1>6. CASE SI!Fetch
  <2>1. tried' \in 0 .. MaxTried + IndexBatch
    BY <1>6, Batch, OneIndexCardinality DEF SI!Fetch
  <2> QED  BY <1>6, <2>1 DEF SI!Fetch
<1>7. CASE SI!Put
  BY <1>7 DEF SI!Put, SI!Nothing, SI!InBatch
<1>8. CASE SI!EmbedFails \/ SI!PutFails
  BY <1>8 DEF SI!EmbedFails, SI!PutFails, SI!Nothing
<1>9. CASE SI!EndRun
  BY <1>9 DEF SI!EndRun
<1>10. ASSUME NEW m \in SI!Msgs, SI!Described(m) PROVE IndexTypes'
  <2>1. [text[m] EXCEPT ![2] = "described"] \in Texts
    BY DEF Texts
  <2>2. text' \in [SI!Msgs -> Texts]
    BY <1>10, <2>1 DEF SI!Described
  <2> QED  BY <1>10, <2>2 DEF SI!Described
<1>11. ASSUME NEW m \in SI!Msgs, SI!EditMade(m) PROVE IndexTypes'
  BY <1>11 DEF SI!EditMade
<1>12. ASSUME NEW m \in SI!Msgs, NEW skew \in BOOLEAN, SI!EditApplied(m, skew)
       PROVE  IndexTypes'
  <2>1. text[m] \in Texts /\ text[m][1] <= MaxTextEdits
    BY <1>12 DEF StaleInv, SI!EditApplied
  <2>2. [text[m] EXCEPT ![1] = @ + 1] \in Texts
    BY <2>1 DEF Texts
  <2>3. text' \in [SI!Msgs -> Texts]
    BY <1>12, <2>2 DEF SI!EditApplied
  <2>4. lateEdit' \in [SI!Msgs -> BOOLEAN]
    BY <1>12 DEF SI!EditApplied
  <2> QED  BY <1>12, <2>3, <2>4 DEF SI!EditApplied
<1>13. ASSUME NEW m \in SI!Msgs, SI!ClockPasses(m) PROVE IndexTypes'
  BY <1>13 DEF SI!ClockPasses
<1> QED
  BY <1>1, <1>2, <1>3, <1>4, <1>5, <1>6, <1>7, <1>8, <1>9, <1>10, <1>11, <1>12, <1>13
     DEF SI!Next, SI!RunStep

LEMMA StepStale ==
  ASSUME IndexTypes, StaleInv, [SI!Next]_(SI!searchVars)
  PROVE  StaleInv'
<1> USE DEF SI!mirror, SI!index, SI!stamps, SI!job, SI!notes
<1> DEFINE Row(m) ==
      /\ edited[m] => text[m][1] <= MaxTextEdits
      /\ picked[m] # SI!NoText /\ picked[m] # text[m] => m \in outrun
      /\ row[m] # SI!NoText /\ row[m] # text[m] => SI!Due(m) \/ m \in outrun
<1>r. \A m \in SI!Msgs : Row(m)
  BY DEF StaleInv
<1>p. run = "embedding" <=> picked # SI!Nothing
  BY DEF StaleInv
<1>g. ASSUME \A m \in SI!Msgs : Row(m)', (run = "embedding" <=> picked # SI!Nothing)'
      PROVE  StaleInv'
  BY <1>g DEF StaleInv
\* What changes one message leaves the others as they are.
<1>o. ASSUME NEW m \in SI!Msgs, Row(m)', UNCHANGED <<row, picked, run>>,
             \A k \in SI!Msgs \ {m} :
               /\ text'[k] = text[k] /\ edited'[k] = edited[k]
               /\ lateMedia'[k] = lateMedia[k] /\ lateEdit'[k] = lateEdit[k]
               /\ k \in outrun => k \in outrun'
      PROVE  StaleInv'
  <2>1. ASSUME NEW k \in SI!Msgs PROVE Row(k)'
    <3>1. CASE k = m
      BY <1>o, <3>1
    <3>2. CASE k # m
      BY <1>o, <1>r, <3>2 DEF SI!Due
    <3> QED  BY <3>1, <3>2
  <2> HIDE DEF Row
  <2> QED  BY <1>o, <1>p, <1>g, <2>1 DEF SI!Nothing
\* What touches no text and no row keeps them in step.
<1>k. ASSUME UNCHANGED <<text, edited, row, lateMedia, lateEdit, outrun>>,
             \A m \in SI!Msgs : picked'[m] # SI!NoText => picked'[m] \in {picked[m], text[m]},
             (run = "embedding" <=> picked # SI!Nothing)'
      PROVE  StaleInv'
  <2>1. ASSUME NEW m \in SI!Msgs PROVE Row(m)'
    BY <1>k, <1>r DEF SI!Due
  <2> HIDE DEF Row
  <2> QED  BY <1>k, <1>g, <2>1
<1> HIDE DEF Row
<1>1. CASE UNCHANGED SI!searchVars
  BY <1>1, <1>k, <1>p DEF SI!searchVars, SI!Nothing
<1>2. CASE SI!Configure
  BY <1>2, <1>k, <1>p DEF SI!Configure, SI!Nothing
<1>3. CASE SI!Clear
  <2>1. \A m \in SI!Msgs : row'[m] = SI!NoText
    BY <1>3 DEF SI!Clear, SI!Nothing
  <2>2. UNCHANGED <<text, edited, picked, run, outrun>>
    BY <1>3 DEF SI!Clear
  <2>3. \A m \in SI!Msgs : Row(m)'
    BY <1>r, <2>1, <2>2 DEF Row
  <2> QED  BY <1>g, <1>p, <2>2, <2>3 DEF SI!Nothing
<1>4. CASE SI!StartRun
  <2>1. picked = SI!Nothing
    BY <1>4, <1>p DEF SI!StartRun
  <2> QED  BY <1>4, <1>k, <2>1 DEF SI!StartRun, SI!Nothing
<1>5. CASE SI!Crash
  BY <1>5, <1>k DEF SI!Crash, SI!Nothing
<1>6. CASE SI!Fetch
  <2>1. \A m \in SI!Msgs : picked'[m] # SI!NoText => picked'[m] = text[m]
    BY <1>6 DEF SI!Fetch
  <2>2. PICK m \in SI!dueBatch : m \in SI!Msgs
    BY <1>6, Batch DEF SI!Fetch
  <2>3. picked'[m] = text[m] /\ text[m] # SI!NoText
    BY <1>6, <2>2, SomeText DEF SI!Fetch, IndexTypes
  <2>4. picked' # SI!Nothing
    BY <2>2, <2>3 DEF SI!Nothing
  <2>5. run' = "embedding" /\ UNCHANGED <<text, edited, row, lateMedia, lateEdit, outrun>>
    BY <1>6 DEF SI!Fetch
  <2>6. (run = "embedding" <=> picked # SI!Nothing)'
    BY <2>4, <2>5 DEF SI!Nothing
  <2> QED  BY <1>k, <2>1, <2>5, <2>6
<1>7. CASE SI!Put
  <2>1. run' = "scanning" /\ picked' = SI!Nothing /\ UNCHANGED <<text, edited>>
    BY <1>7 DEF SI!Put
  <2>2. ASSUME NEW m \in SI!Msgs PROVE Row(m)'
    <3>1. picked'[m] = SI!NoText
      BY <2>1 DEF SI!Nothing
    <3>2. CASE picked[m] # SI!NoText
      <4>1. row'[m] = picked[m] /\ (m \in outrun /\ picked[m] # text[m] => m \in outrun')
        BY <1>7, <3>2 DEF SI!Put, SI!InBatch
      <4> QED  BY <1>r, <2>1, <3>1, <3>2, <4>1 DEF Row
    <3>3. CASE picked[m] = SI!NoText
      <4>1. /\ row'[m] = row[m] /\ lateMedia'[m] = lateMedia[m] /\ lateEdit'[m] = lateEdit[m]
            /\ m \in outrun => m \in outrun'
        BY <1>7, <3>3 DEF SI!Put, SI!InBatch, IndexTypes
      <4> QED  BY <1>r, <2>1, <3>1, <4>1 DEF Row, SI!Due
    <3> QED  BY <3>2, <3>3
  <2> QED  BY <1>g, <2>1, <2>2 DEF SI!Nothing
<1>8. CASE SI!EmbedFails \/ SI!PutFails
  BY <1>8, <1>k DEF SI!EmbedFails, SI!PutFails, SI!Nothing
<1>9. CASE SI!EndRun
  <2>1. picked = SI!Nothing
    BY <1>9, <1>p DEF SI!EndRun
  <2> QED  BY <1>9, <1>k, <2>1 DEF SI!EndRun, SI!Nothing
<1>10. ASSUME NEW m \in SI!Msgs, SI!Described(m) PROVE StaleInv'
  <2>1. UNCHANGED <<edited, row, picked, run, lateEdit>>
    BY <1>10 DEF SI!Described
  <2>2. /\ text'[m][1] = text[m][1]
        /\ \A k \in SI!Msgs \ {m} : text'[k] = text[k] /\ lateMedia'[k] = lateMedia[k]
    BY <1>10 DEF SI!Described, IndexTypes, Texts
  <2>3. lateMedia'[m] <=> row[m] # SI!NoText
    BY <1>10 DEF SI!Described, IndexTypes
  <2>4. (picked[m] # SI!NoText => m \in outrun') /\ outrun \subseteq outrun'
    BY <1>10 DEF SI!Described, SI!InBatch
  <2>5. Row(m)'
    BY <1>r, <2>1, <2>2, <2>3, <2>4 DEF Row, SI!Due
  <2> QED  BY <1>o, <2>1, <2>2, <2>4, <2>5
<1>11. ASSUME NEW m \in SI!Msgs, SI!EditMade(m) PROVE StaleInv'
  <2>1. UNCHANGED <<text, row, picked, run, lateMedia, lateEdit, outrun>>
        /\ text[m][1] <= MaxTextEdits
    BY <1>11 DEF SI!EditMade
  <2>2. \A k \in SI!Msgs \ {m} : edited'[k] = edited[k]
    BY <1>11 DEF SI!EditMade, IndexTypes
  <2>3. Row(m)'
    BY <1>r, <2>1 DEF Row, SI!Due
  <2> QED  BY <1>o, <2>1, <2>2, <2>3
<1>12. ASSUME NEW m \in SI!Msgs, NEW skew \in BOOLEAN, SI!EditApplied(m, skew)
       PROVE  StaleInv'
  <2>1. UNCHANGED <<row, picked, run, lateMedia>> /\ outrun \subseteq outrun'
    BY <1>12 DEF SI!EditApplied
  <2>2. /\ ~ edited'[m]
        /\ \A k \in SI!Msgs \ {m} :
             text'[k] = text[k] /\ edited'[k] = edited[k] /\ lateEdit'[k] = lateEdit[k]
    BY <1>12 DEF SI!EditApplied, IndexTypes
  <2>3. picked[m] # SI!NoText => m \in outrun'
    BY <1>12 DEF SI!EditApplied, SI!InBatch
  <2>4. row[m] # SI!NoText => lateEdit'[m] \/ m \in outrun'
    BY <1>12 DEF SI!EditApplied, IndexTypes
  <2>5. Row(m)'
    BY <2>1, <2>2, <2>3, <2>4 DEF Row, SI!Due
  <2> QED  BY <1>o, <2>1, <2>2, <2>5
<1>13. ASSUME NEW m \in SI!Msgs, SI!ClockPasses(m) PROVE StaleInv'
  BY <1>13, <1>k, <1>p DEF SI!ClockPasses, SI!Nothing
<1> QED
  BY <1>1, <1>2, <1>3, <1>4, <1>5, <1>6, <1>7, <1>8, <1>9, <1>10, <1>11, <1>12, <1>13
     DEF SI!Next, SI!RunStep

LEMMA StepVector ==
  ASSUME IndexTypes, VectorInv, [SI!Next]_(SI!searchVars)
  PROVE  VectorInv'
<1> USE DEF VectorInv, SI!mirror, SI!index, SI!stamps, SI!job, SI!notes
<1>1. CASE UNCHANGED SI!searchVars
  BY <1>1 DEF SI!searchVars
<1>2. CASE SI!Configure
  BY <1>2 DEF SI!Configure
<1>3. CASE SI!Clear
  BY <1>3 DEF SI!Clear, SI!Nothing
<1>4. CASE SI!StartRun
  BY <1>4 DEF SI!StartRun
<1>5. CASE SI!Crash
  BY <1>5 DEF SI!Crash
<1>6. CASE SI!Fetch
  BY <1>6 DEF SI!Fetch
<1>7. CASE SI!Put
  BY <1>7 DEF SI!Put, SI!InBatch
<1>8. CASE SI!EmbedFails \/ SI!PutFails
  BY <1>8 DEF SI!EmbedFails, SI!PutFails
<1>9. CASE SI!EndRun
  BY <1>9 DEF SI!EndRun
<1>10. ASSUME NEW m \in SI!Msgs, NEW skew \in BOOLEAN,
              SI!Described(m) \/ SI!EditMade(m) \/ SI!EditApplied(m, skew) \/ SI!ClockPasses(m)
       PROVE  VectorInv'
  BY <1>10 DEF SI!Described, SI!EditMade, SI!EditApplied, SI!ClockPasses
<1> QED
  BY <1>1, <1>2, <1>3, <1>4, <1>5, <1>6, <1>7, <1>8, <1>9, <1>10 DEF SI!Next, SI!RunStep

\* A message whose row is older than its text is due, or its change was missed between
\* a fetch and its put (content.ts), and an index cleared with a model configured is
\* rebuilt with a vector for every text, and for nothing else (index-messages.ts).
THEOREM IndexKeepsUpHolds == IdleSpec => []IndexKeepsUp
<1> DEFINE Inv == IndexTypes /\ StaleInv /\ VectorInv
<1>1. IdleInit => Inv
  BY InitIndex DEF IdleInit
<1>2. Inv /\ [IdleNext]_idleVars => Inv'
  BY IdleMoves, StepIndexTypes, StepStale, StepVector
<1>3. Inv => IndexKeepsUp
  <2> SUFFICES ASSUME Inv PROVE SI!SearchTypeOK /\ SI!IndexKeepsUp
    BY DEF IndexKeepsUp
  <2>1. (run = "embedding") = (picked # SI!Nothing)
    BY Zenon DEF StaleInv
  <2>2. {configured, runtime, rebuilt, straddled} \subseteq BOOLEAN
    BY DEF IndexTypes
  <2>3. SI!SearchTypeOK
    BY <2>1, <2>2 DEF SI!SearchTypeOK, IndexTypes, Texts
  <2>4. SI!StaleIsDue
    BY DEF StaleInv, SI!StaleIsDue
  <2>5. SI!RebuiltWithVectors
    BY DEF VectorInv, SI!RebuiltWithVectors
  <2> QED  BY <2>3, <2>4, <2>5 DEF SI!IndexKeepsUp
<1> QED  BY <1>1, <1>2, <1>3, PTL DEF IdleSpec

-----------------------------------------------------------------------------
\* The vision backfill (VisionBackfill).

\* Where a run may be, and what has been told.
InBody == {"scanning", "rows", "asking"}
Answers == (VB!Rows \cup {VB!None}) \X (VB!Authors \cup {VB!Nobody})

\* The types.
VisionTypes ==
  /\ status \in [VB!Rows -> {"absent", "pending", "described"}]
  /\ stored \in [VB!Rows -> VB!Authors \cup {VB!Nobody}]
  /\ hold \in [VB!Rows -> BOOLEAN] /\ expired \in [VB!Rows -> BOOLEAN]
  /\ phase \in {"idle", "scheduled", "running"}
  /\ timer \in BOOLEAN /\ aborted \in BOOLEAN /\ halted \in BOOLEAN
  /\ pc \in [VB!Runs -> VB!UnderWay \cup {"off"}]
  /\ attempted \in [VB!Runs -> SUBSET VB!Rows] /\ fetched \in [VB!Runs -> SUBSET VB!Rows]
  /\ lock \in VB!Runs \cup {VB!None}
  /\ turn \in [VB!Rows -> {"new", "queued", "running", "asking", "over"}]
  /\ target \in [VB!Rows -> VB!Rows \cup {VB!None}]
  /\ told \in [VB!Rows -> Answers]
  /\ excused \in SUBSET VB!Rows /\ misread \in SUBSET VB!Rows
  /\ crashes \in 0 .. MaxCrashes

\* The run in its body is the one that holds the lock.
LockInv ==
  /\ lock # VB!None => pc[lock] \in VB!InLock
  /\ \A n \in VB!Runs : pc[n] \in VB!InLock => lock = n

\* A picture is held from its arrival until its turn is over.
HoldInv ==
  \A r \in VB!Rows :
    /\ turn[r] = "new" <=> status[r] = "absent"
    /\ hold[r] <=> turn[r] \in {"queued", "running", "asking"}
    /\ expired[r] => hold[r]

\* What a run fetched is there, and no live turn's unless its hold grew old.
FetchInv ==
  \A n \in VB!Runs :
    /\ pc[n] \in {"rows", "asking"} =>
         \A r \in fetched[n] : status[r] # "absent" /\ (turn[r] = "over" \/ expired[r])
    /\ pc[n] = "asking" => fetched[n] # {}

\* A turn asks about a picture that is there, and is told of one described for good:
\* what is stored, unless it could not read that.
ToldInv ==
  \A r \in VB!Rows :
    /\ turn[r] = "asking" => target[r] \in VB!Rows /\ status[target[r]] # "absent"
    /\ told[r][1] # VB!None =>
         status[told[r][1]] = "described" /\ (r \in misread \/ stored[told[r][1]] = told[r][2])

\* What a run attempted and left pending is excused, but for the row it asks about.
TriedInv ==
  \A n \in VB!Runs :
    /\ pc[n] \in {"off", "starting"} => attempted[n] = {}
    /\ pc[n] \in InBody =>
         \A r \in attempted[n] :
           /\ status[r] # "absent"
           /\ status[r] = "pending" =>
                r \in excused \/ (pc[n] = "asking" /\ r = VB!asked(n))

\* An abort leaves the timer armed, and without a run that looks or is to come every
\* row left over is accounted for.
Accounted(r) ==
  r \in excused \/ Cardinality(Before(excused, r)) >= VisionBatch
RestInv ==
  /\ aborted => timer \/ halted
  /\ \/ timer \/ halted
     \/ \E n \in VB!Runs : pc[n] \in {"starting"} \cup InBody
     \/ \A r \in VB!Rows : VB!Leftover(r) => Accounted(r)

VisionInv == VisionTypes /\ LockInv /\ HoldInv /\ FetchInv /\ ToldInv

LEMMA Places ==
  /\ VB!InLock \subseteq VB!UnderWay /\ InBody \subseteq VB!InLock
  /\ "off" \notin VB!UnderWay /\ "unlocking" \in VB!InLock /\ "unlocking" \notin InBody
  /\ "starting" \in VB!UnderWay \ VB!InLock /\ "ended" \in VB!UnderWay \ VB!InLock
  /\ VB!Runs \subseteq Nat \ {0} /\ VB!Rows \subseteq Nat \ {0} /\ VB!None = 0
BY DEF VB!InLock, VB!UnderWay, InBody, VB!Runs, VB!Rows, VB!None

\* The next row of a batch is one of it.
LEMMA AskedOne ==
  ASSUME NEW n \in VB!Runs, fetched[n] \subseteq VB!Rows, fetched[n] # {}
  PROVE  VB!asked(n) \in fetched[n]
<1>1. fetched[n] \subseteq Nat
  BY Places
<1>2. \E x \in fetched[n] : \A y \in fetched[n] : x <= y
  BY <1>1, Least
<1> QED  BY <1>2 DEF VB!asked

\* What is listed is eligible, and some row is listed if one is eligible.
LEMMA Listed ==
  /\ VB!listPending \subseteq {r \in VB!Rows : VB!Eligible(r)}
  /\ \A r \in VB!Rows : VB!Eligible(r) =>
       r \in VB!listPending \/ VisionBatch <= Cardinality(Before(VB!listPending, r))
<1> DEFINE S == {r \in VB!Rows : VB!Eligible(r)}
<1>1. S \subseteq 1 .. NRows
  BY DEF VB!Rows
<1>2. \A r : {q \in VB!Rows : q < r /\ VB!Eligible(q)} = Before(S, r)
  BY DEF Before
<1>3. FirstOf(VB!listPending, S, VisionBatch)
  BY <1>2, OneVisionCardinality DEF VB!listPending, FirstOf
<1>4. \A r \in VB!Rows : VB!Eligible(r) => r \in S
  OBVIOUS
<1> HIDE DEF S
<1>5. /\ VB!listPending \subseteq S
      /\ \A r \in S \ VB!listPending : VisionBatch <= Cardinality(Before(VB!listPending, r))
  BY <1>1, <1>3, FirstFew, VisionAssumption
<1> QED  BY <1>4, <1>5 DEF S

\* A picture that is eligible is there, and no live turn's unless its hold grew old.
LEMMA EligibleFree ==
  ASSUME HoldInv, VisionTypes, NEW r \in VB!Rows
  PROVE  /\ VB!Eligible(r) =>
              status[r] = "pending" /\ (turn[r] = "over" \/ expired[r])
         /\ VB!Leftover(r) => VB!Eligible(r)
BY DEF HoldInv, VisionTypes, VB!Eligible, VB!Leftover

\* Nothing has arrived at first.
LEMMA InitVision == VB!Init => VisionInv /\ TriedInv /\ RestInv
<1> SUFFICES ASSUME VB!Init PROVE VisionInv /\ TriedInv /\ RestInv
  OBVIOUS
<1> USE VisionAssumption DEF VB!Init
<1>0. <<VB!None, VB!Nobody>> \in Answers
  BY DEF Answers
<1>1. VisionTypes
  <2>1. VB!Nobody \in VB!Authors \cup {VB!Nobody} /\ VB!None \in VB!Rows \cup {VB!None}
    OBVIOUS
  <2>2. /\ status \in [VB!Rows -> {"absent", "pending", "described"}]
        /\ stored \in [VB!Rows -> VB!Authors \cup {VB!Nobody}]
        /\ hold \in [VB!Rows -> BOOLEAN] /\ expired \in [VB!Rows -> BOOLEAN]
        /\ turn \in [VB!Rows -> {"new", "queued", "running", "asking", "over"}]
    BY <2>1
  <2>3. /\ target \in [VB!Rows -> VB!Rows \cup {VB!None}]
        /\ told \in [VB!Rows -> Answers]
    BY <1>0, <2>1
  <2>4. /\ pc \in [VB!Runs -> VB!UnderWay \cup {"off"}]
        /\ attempted \in [VB!Runs -> SUBSET VB!Rows] /\ fetched \in [VB!Runs -> SUBSET VB!Rows]
        /\ lock \in VB!Runs \cup {VB!None}
    OBVIOUS
  <2>5. /\ phase \in {"idle", "scheduled", "running"}
        /\ timer \in BOOLEAN /\ aborted \in BOOLEAN /\ halted \in BOOLEAN
        /\ excused \in SUBSET VB!Rows /\ misread \in SUBSET VB!Rows
    OBVIOUS
  <2>6. crashes \in 0 .. MaxCrashes
    <3>1. crashes = 0 /\ MaxCrashes \in Nat
      OBVIOUS
    <3> HIDE DEF VB!Init
    <3> QED  BY <3>1
  <2> HIDE DEF VB!Init
  <2> QED  BY <2>2, <2>3, <2>4, <2>5, <2>6 DEF VisionTypes
<1>2. \A n \in VB!Runs : pc[n] = "off"
  OBVIOUS
<1>3. LockInv
  BY <1>2 DEF LockInv, VB!InLock
<1>4. HoldInv
  BY DEF HoldInv
<1>5. FetchInv /\ TriedInv
  BY <1>2 DEF FetchInv, TriedInv, InBody
<1>6. ToldInv
  BY DEF ToldInv, VB!None, VB!Nobody
<1>7. RestInv
  BY DEF RestInv
<1> QED  BY <1>1, <1>3, <1>4, <1>5, <1>6, <1>7 DEF VisionInv

LEMMA StepVisionTypes ==
  ASSUME VisionInv, [VB!Next]_(VB!vars)
  PROVE  VisionTypes'
<1> USE VisionAssumption
<1> USE DEF VisionInv, VisionTypes, VB!store, VB!scheduler, VB!job, VB!live, VB!history,
            VB!Go, VB!UnderWay, VB!InLock, VB!Schedule, VB!OnActivity
<1>1. CASE UNCHANGED VB!vars
  BY <1>1 DEF VB!vars
<1>2. CASE VB!Poke
  BY <1>2 DEF VB!Poke
<1>3. CASE VB!RunNow
  BY <1>3 DEF VB!RunNow
<1>4. CASE VB!Stop
  BY <1>4 DEF VB!Stop
<1>5. CASE VB!Crash
  <2>1. crashes' \in 0 .. MaxCrashes
    BY <1>5 DEF VB!Crash
  <2>2. <<VB!None, VB!Nobody>> \in Answers
    BY DEF Answers
  <2>3. told' \in [VB!Rows -> Answers]
    BY <1>5, <2>2 DEF VB!Crash
  <2>4. turn' \in [VB!Rows -> {"new", "queued", "running", "asking", "over"}]
    BY <1>5 DEF VB!Crash
  <2> QED  BY <1>5, <2>1, <2>3, <2>4 DEF VB!Crash
<1>6. ASSUME NEW n \in VB!Runs, VB!StartRun(n) PROVE VisionTypes'
  BY <1>6 DEF VB!StartRun
<1>7. ASSUME NEW n \in VB!Runs, VB!FinishRun(n) PROVE VisionTypes'
  BY <1>7 DEF VB!FinishRun
<1>8. ASSUME NEW n \in VB!Runs, VB!NotConfigured(n) \/ VB!QueryFails(n) PROVE VisionTypes'
  <2>1. /\ \E w \in {"ended", "unlocking"} : pc' = [pc EXCEPT ![n] = w]
        /\ excused' \in SUBSET VB!Rows
        /\ UNCHANGED <<VB!store, VB!scheduler, attempted, fetched, lock, VB!live, misread, crashes>>
    BY <1>8 DEF VB!NotConfigured, VB!QueryFails
  <2> QED  BY <2>1
<1>9. ASSUME NEW n \in VB!Runs, VB!TryLock(n) PROVE VisionTypes'
  BY <1>9 DEF VB!TryLock
<1>10. ASSUME NEW n \in VB!Runs, VB!Scan(n) PROVE VisionTypes'
  <2>1. VB!listPending \ attempted[n] \in SUBSET VB!Rows
    BY Listed
  <2> QED  BY <1>10, <2>1 DEF VB!Scan
<1>11. ASSUME NEW n \in VB!Runs, VB!NextRow(n) PROVE VisionTypes'
  <2>1. CASE VB!isAborted \/ fetched[n] = {}
    <3>1. UNCHANGED <<attempted, fetched>> /\ excused' = excused
      BY <1>11, <2>1 DEF VB!NextRow
    <3> QED  BY <1>11, <2>1, <3>1 DEF VB!NextRow
  <2>2. CASE ~ (VB!isAborted \/ fetched[n] = {})
    <3> DEFINE r == VB!asked(n)
    <3>1. r \in fetched[n] /\ r \in VB!Rows
      BY <2>2, AskedOne
    <3>2. /\ attempted' = [attempted EXCEPT ![n] = @ \cup {r}]
          /\ \/ VB!Go(n, "asking") /\ UNCHANGED fetched
             \/ fetched' = [fetched EXCEPT ![n] = @ \ {r}] /\ UNCHANGED pc
      BY <1>11, <2>2 DEF VB!NextRow, VB!asked
    <3>3. /\ excused' \in SUBSET VB!Rows
          /\ UNCHANGED <<VB!store, VB!scheduler, lock, VB!live, misread, crashes>>
      BY <1>11 DEF VB!NextRow
    <3> HIDE DEF r
    <3> QED  BY <3>1, <3>2, <3>3
  <2> QED  BY <2>1, <2>2
<1>12. ASSUME NEW n \in VB!Runs, VB!RowDescribed(n) PROVE VisionTypes'
  BY <1>12 DEF VB!RowDescribed, VB!MarkDescribed, VB!Authors
<1>13. ASSUME NEW n \in VB!Runs, VB!RowFails(n) PROVE VisionTypes'
  <2>1. VB!asked(n) \in VB!Rows
    BY <1>13, AskedOne DEF VB!RowFails, FetchInv
  <2> QED  BY <1>13, <2>1 DEF VB!RowFails
<1>14. ASSUME NEW n \in VB!Runs, VB!Unlock(n) PROVE VisionTypes'
  BY <1>14 DEF VB!Unlock
<1>15. ASSUME NEW r \in VB!Rows, VB!Arrive(r) PROVE VisionTypes'
  BY <1>15 DEF VB!Arrive
<1>16. ASSUME NEW r \in VB!Rows, VB!TurnStarts(r) PROVE VisionTypes'
  BY <1>16 DEF VB!TurnStarts
<1>17. ASSUME NEW r \in VB!Rows, VB!TurnDescribes(r) PROVE VisionTypes'
  <2>1. target[r] \in VB!Rows
    BY <1>17 DEF VB!TurnDescribes, ToldInv
  <2>2. <<"turn", r>> \in VB!Authors
    BY DEF VB!Authors
  <2>3. /\ status' \in [VB!Rows -> {"absent", "pending", "described"}]
        /\ stored' \in [VB!Rows -> VB!Authors \cup {VB!Nobody}]
    BY SMTT(30), <1>17, <2>2 DEF VB!TurnDescribes, VB!MarkDescribed
  <2>4. <<target[r], stored'[target[r]]>> \in Answers /\ <<target[r], <<"turn", r>>>> \in Answers
    BY <2>1, <2>2, <2>3 DEF Answers
  <2> HIDE DEF VB!Authors
  <2>5. told' \in [VB!Rows -> Answers] /\ misread' \in SUBSET VB!Rows
    BY <1>17, <2>4 DEF VB!TurnDescribes
  <2> QED  BY <1>17, <2>3, <2>5 DEF VB!TurnDescribes
<1>18. ASSUME NEW r \in VB!Rows, VB!TurnFails(r) PROVE VisionTypes'
  BY <1>18 DEF VB!TurnFails
<1>19. ASSUME NEW r \in VB!Rows, VB!TurnSettles(r) PROVE VisionTypes'
  BY <1>19 DEF VB!TurnSettles
<1>20. ASSUME NEW r \in VB!Rows, VB!HoldExpires(r) PROVE VisionTypes'
  BY <1>20 DEF VB!HoldExpires
<1>21. ASSUME NEW r \in VB!Rows, NEW q \in VB!Rows, VB!TurnAsks(r, q) PROVE VisionTypes'
  <2>1. <<q, stored[q]>> \in Answers
    BY DEF Answers
  <2> QED  BY <1>21, <2>1 DEF VB!TurnAsks
<1> QED
  BY <1>1, <1>2, <1>3, <1>4, <1>5, <1>6, <1>7, <1>8, <1>9, <1>10, <1>11, <1>12, <1>13,
     <1>14, <1>15, <1>16, <1>17, <1>18, <1>19, <1>20, <1>21 DEF VB!Next, VB!RunStep

\* The lock keeps the bodies of the runs apart.
LEMMA StepLock ==
  ASSUME VisionInv, [VB!Next]_(VB!vars)
  PROVE  LockInv'
<1> USE DEF VisionInv, LockInv, VB!store, VB!scheduler, VB!job, VB!live, VB!history
<1> USE Places
<1>t. pc \in [VB!Runs -> VB!UnderWay \cup {"off"}] /\ lock \in VB!Runs \cup {VB!None}
  BY DEF VisionTypes
<1>k. ASSUME UNCHANGED <<pc, lock>> PROVE LockInv'
  BY <1>k
\* A run that moves within its body, or outside of it.
<1>m. ASSUME NEW n \in VB!Runs, NEW w, pc' = [pc EXCEPT ![n] = w], UNCHANGED lock,
             w \in VB!InLock <=> pc[n] \in VB!InLock
      PROVE  LockInv'
  BY <1>t, <1>m
<1>1. CASE UNCHANGED VB!vars
  BY <1>1, <1>k DEF VB!vars
<1>2. CASE VB!Poke \/ VB!RunNow \/ VB!Stop
  BY <1>2, <1>k DEF VB!Poke, VB!RunNow, VB!Stop
<1>3. CASE VB!Crash
  BY <1>3, <1>t DEF VB!Crash
<1>4. ASSUME NEW n \in VB!Runs, VB!StartRun(n) PROVE LockInv'
  BY <1>4, <1>m DEF VB!StartRun
<1>5. ASSUME NEW n \in VB!Runs, VB!FinishRun(n) PROVE LockInv'
  BY <1>5, <1>m DEF VB!FinishRun
<1>6. ASSUME NEW n \in VB!Runs, VB!NotConfigured(n) \/ VB!QueryFails(n) PROVE LockInv'
  <2>1. UNCHANGED lock /\ \E w : /\ pc' = [pc EXCEPT ![n] = w]
                                /\ \/ pc[n] = "starting" /\ w = "ended"
                                   \/ pc[n] = "scanning" /\ w = "unlocking"
    BY <1>6 DEF VB!NotConfigured, VB!QueryFails, VB!Go
  <2>2. "scanning" \in VB!InLock
    BY DEF VB!InLock
  <2> QED  BY <1>m, <2>1, <2>2
<1>7. ASSUME NEW n \in VB!Runs, VB!TryLock(n) PROVE LockInv'
  <2>1. CASE lock = VB!None
    <3>1. lock' = n /\ pc' = [pc EXCEPT ![n] = "scanning"] /\ "scanning" \in VB!InLock
      BY <1>7, <2>1 DEF VB!TryLock, VB!Go, VB!InLock
    <3>2. \A k \in VB!Runs : pc[k] \notin VB!InLock
      BY <2>1
    <3> QED  BY <1>t, <3>1, <3>2
  <2>2. CASE lock # VB!None
    BY <1>7, <2>2, <1>m DEF VB!TryLock, VB!Go
  <2> QED  BY <2>1, <2>2
<1>8. ASSUME NEW n \in VB!Runs, VB!Scan(n) PROVE LockInv'
  <2>1. pc[n] \in VB!InLock /\ UNCHANGED lock
    BY <1>8 DEF VB!Scan, VB!InLock
  <2>2. \/ pc' = [pc EXCEPT ![n] = "unlocking"]
        \/ pc' = [pc EXCEPT ![n] = "rows"]
    BY <1>8 DEF VB!Scan, VB!Go
  <2>3. "rows" \in VB!InLock
    BY DEF VB!InLock
  <2> QED  BY <1>m, <2>1, <2>2, <2>3
<1>9. ASSUME NEW n \in VB!Runs, VB!NextRow(n) PROVE LockInv'
  <2>1. pc[n] \in VB!InLock /\ UNCHANGED lock
    BY <1>9 DEF VB!NextRow, VB!InLock
  <2>2. \/ pc' = [pc EXCEPT ![n] = "unlocking"] \/ pc' = [pc EXCEPT ![n] = "scanning"]
        \/ pc' = [pc EXCEPT ![n] = "asking"] \/ UNCHANGED pc
    BY <1>9 DEF VB!NextRow, VB!Go
  <2>3. "scanning" \in VB!InLock /\ "asking" \in VB!InLock
    BY DEF VB!InLock
  <2> QED  BY <1>k, <1>m, <2>1, <2>2, <2>3
<1>10. ASSUME NEW n \in VB!Runs, VB!RowDescribed(n) \/ VB!RowFails(n) PROVE LockInv'
  <2>1. pc[n] \in VB!InLock /\ UNCHANGED lock /\ pc' = [pc EXCEPT ![n] = "rows"]
    BY <1>10 DEF VB!RowDescribed, VB!RowFails, VB!InLock, VB!Go
  <2>2. "rows" \in VB!InLock
    BY DEF VB!InLock
  <2> QED  BY <1>m, <2>1, <2>2
<1>11. ASSUME NEW n \in VB!Runs, VB!Unlock(n) PROVE LockInv'
  BY <1>11, <1>t DEF VB!Unlock, VB!Go
<1>12. ASSUME NEW r \in VB!Rows, NEW q \in VB!Rows,
              \/ VB!Arrive(r) \/ VB!TurnStarts(r) \/ VB!TurnDescribes(r) \/ VB!TurnFails(r)
              \/ VB!TurnSettles(r) \/ VB!HoldExpires(r) \/ VB!TurnAsks(r, q)
       PROVE  LockInv'
  BY <1>12, <1>k DEF VB!Arrive, VB!TurnStarts, VB!TurnDescribes, VB!TurnFails,
     VB!TurnSettles, VB!HoldExpires, VB!TurnAsks
<1> QED
  BY <1>1, <1>2, <1>3, <1>4, <1>5, <1>6, <1>7, <1>8, <1>9, <1>10, <1>11, <1>12
     DEF VB!Next, VB!RunStep

\* The turns and the runs of the backfill (VisionBackfill).
LEMMA StepHold ==
  ASSUME VisionInv, [VB!Next]_(VB!vars)
  PROVE  HoldInv'
<1> USE DEF VisionInv, HoldInv, VB!store, VB!scheduler, VB!job, VB!live, VB!history
<1>t. /\ status \in [VB!Rows -> {"absent", "pending", "described"}]
      /\ hold \in [VB!Rows -> BOOLEAN] /\ expired \in [VB!Rows -> BOOLEAN]
      /\ turn \in [VB!Rows -> {"new", "queued", "running", "asking", "over"}]
  BY DEF VisionTypes
<1>k. ASSUME UNCHANGED <<turn, status, hold, expired>> PROVE HoldInv'
  BY <1>k
\* A description leaves a picture that was there.
<1>d. ASSUME NEW a, NEW author, VB!MarkDescribed(a, author), UNCHANGED <<turn, hold, expired>>
      PROVE  HoldInv'
  BY <1>t, <1>d DEF VB!MarkDescribed
<1>1. CASE UNCHANGED VB!vars
  BY <1>1, <1>k DEF VB!vars
<1>2. CASE VB!Poke \/ VB!RunNow \/ VB!Stop
  BY <1>2, <1>k DEF VB!Poke, VB!RunNow, VB!Stop
<1>3. CASE VB!Crash
  BY <1>3, <1>t DEF VB!Crash
<1>4. ASSUME NEW n \in VB!Runs,
             \/ VB!StartRun(n) \/ VB!FinishRun(n) \/ VB!NotConfigured(n) \/ VB!QueryFails(n) \/ VB!TryLock(n)
             \/ VB!Scan(n) \/ VB!NextRow(n) \/ VB!RowFails(n) \/ VB!Unlock(n)
      PROVE  HoldInv'
  BY <1>4, <1>k DEF VB!StartRun, VB!FinishRun, VB!NotConfigured, VB!QueryFails, VB!TryLock, VB!Scan,
     VB!NextRow, VB!RowFails, VB!Unlock
<1>5. ASSUME NEW n \in VB!Runs, VB!RowDescribed(n) PROVE HoldInv'
  BY <1>5, <1>d DEF VB!RowDescribed
<1>6. ASSUME NEW r \in VB!Rows, VB!Arrive(r) PROVE HoldInv'
  BY <1>6, <1>t DEF VB!Arrive
<1>7. ASSUME NEW r \in VB!Rows, VB!TurnStarts(r) PROVE HoldInv'
  BY <1>7, <1>t DEF VB!TurnStarts
<1>8. ASSUME NEW r \in VB!Rows, VB!TurnDescribes(r) PROVE HoldInv'
  BY <1>8, <1>t DEF VB!TurnDescribes, VB!MarkDescribed
<1>9. ASSUME NEW r \in VB!Rows, VB!TurnFails(r) PROVE HoldInv'
  BY <1>9, <1>t DEF VB!TurnFails
<1>10. ASSUME NEW r \in VB!Rows, VB!TurnSettles(r) PROVE HoldInv'
  BY <1>10, <1>t DEF VB!TurnSettles
<1>11. ASSUME NEW r \in VB!Rows, VB!HoldExpires(r) PROVE HoldInv'
  BY <1>11, <1>t DEF VB!HoldExpires
<1>12. ASSUME NEW r \in VB!Rows, NEW q \in VB!Rows, VB!TurnAsks(r, q) PROVE HoldInv'
  BY <1>12, <1>t DEF VB!TurnAsks
<1> QED
  BY <1>1, <1>2, <1>3, <1>4, <1>5, <1>6, <1>7, <1>8, <1>9, <1>10, <1>11, <1>12
     DEF VB!Next, VB!RunStep

\* What no step undoes: a picture that came, what was stored of it, and that no live
\* turn claims it.
Free(r) == turn[r] = "over" \/ expired[r]
LEMMA Kept ==
  ASSUME VisionInv, [VB!Next]_(VB!vars), NEW r \in VB!Rows
  PROVE  /\ status[r] # "absent" => status'[r] # "absent"
         /\ status[r] = "described" => status'[r] = "described" /\ stored'[r] = stored[r]
         /\ Free(r) => Free(r)'
<1> USE DEF VisionInv, HoldInv, VB!store, VB!scheduler, VB!job, VB!live, VB!history, Free
<1> DEFINE Goal ==
      /\ status[r] # "absent" => status'[r] # "absent"
      /\ status[r] = "described" => status'[r] = "described" /\ stored'[r] = stored[r]
      /\ Free(r) => Free(r)'
<1>t. /\ status \in [VB!Rows -> {"absent", "pending", "described"}]
      /\ stored \in [VB!Rows -> VB!Authors \cup {VB!Nobody}]
      /\ expired \in [VB!Rows -> BOOLEAN]
      /\ turn \in [VB!Rows -> {"new", "queued", "running", "asking", "over"}]
  BY DEF VisionTypes
<1>k. ASSUME UNCHANGED <<status, stored, expired, turn>> PROVE Goal
  BY <1>k
<1>d. ASSUME NEW a, NEW author, VB!MarkDescribed(a, author)
      PROVE  /\ status[r] # "absent" => status'[r] # "absent"
             /\ status[r] = "described" => status'[r] = "described" /\ stored'[r] = stored[r]
  BY <1>t, <1>d DEF VB!MarkDescribed
<1>1. CASE UNCHANGED VB!vars
  BY <1>1, <1>k DEF VB!vars
<1>2. CASE VB!Poke \/ VB!RunNow \/ VB!Stop
  BY <1>2, <1>k DEF VB!Poke, VB!RunNow, VB!Stop
<1>3. CASE VB!Crash
  BY <1>3, <1>t DEF VB!Crash
<1>4. ASSUME NEW n \in VB!Runs,
             \/ VB!StartRun(n) \/ VB!FinishRun(n) \/ VB!NotConfigured(n) \/ VB!QueryFails(n) \/ VB!TryLock(n)
             \/ VB!Scan(n) \/ VB!NextRow(n) \/ VB!RowFails(n) \/ VB!Unlock(n)
      PROVE  Goal
  BY <1>4, <1>k DEF VB!StartRun, VB!FinishRun, VB!NotConfigured, VB!QueryFails, VB!TryLock, VB!Scan,
     VB!NextRow, VB!RowFails, VB!Unlock
<1>5. ASSUME NEW n \in VB!Runs, VB!RowDescribed(n) PROVE Goal
  BY <1>5, <1>d DEF VB!RowDescribed
<1>6. ASSUME NEW q \in VB!Rows, VB!Arrive(q) PROVE Goal
  BY <1>6, <1>t DEF VB!Arrive
<1>7. ASSUME NEW q \in VB!Rows, VB!TurnStarts(q) \/ VB!TurnFails(q) PROVE Goal
  BY <1>7, <1>t DEF VB!TurnStarts, VB!TurnFails
<1>8. ASSUME NEW q \in VB!Rows, VB!TurnDescribes(q) PROVE Goal
  BY <1>8, <1>t, <1>d DEF VB!TurnDescribes
<1>9. ASSUME NEW q \in VB!Rows, VB!TurnSettles(q) PROVE Goal
  BY <1>9, <1>t DEF VB!TurnSettles
<1>10. ASSUME NEW q \in VB!Rows, VB!HoldExpires(q) PROVE Goal
  BY <1>10, <1>t DEF VB!HoldExpires
<1>11. ASSUME NEW q \in VB!Rows, NEW p \in VB!Rows, VB!TurnAsks(q, p) PROVE Goal
  BY <1>11, <1>t DEF VB!TurnAsks
<1> QED
  BY <1>1, <1>2, <1>3, <1>4, <1>5, <1>6, <1>7, <1>8, <1>9, <1>10, <1>11
     DEF VB!Next, VB!RunStep

\* A run fetches eligible pictures, and drops one when it is done with it.
LEMMA StepBatch ==
  ASSUME VisionInv, [VB!Next]_(VB!vars)
  PROVE  FetchInv'
<1> USE DEF VisionInv, VB!store, VB!scheduler, VB!job, VB!live, VB!history
<1>t. /\ pc \in [VB!Runs -> VB!UnderWay \cup {"off"}]
      /\ fetched \in [VB!Runs -> SUBSET VB!Rows]
  BY DEF VisionTypes
<1> DEFINE Good(k) ==
      /\ pc[k] \in {"rows", "asking"} => \A r \in fetched[k] : status[r] # "absent" /\ Free(r)
      /\ pc[k] = "asking" => fetched[k] # {}
<1>b. FetchInv <=> \A k \in VB!Runs : Good(k)
  BY DEF FetchInv, Free
<1>c. FetchInv' <=> \A k \in VB!Runs : Good(k)'
  BY DEF FetchInv, Free
<1>g. ASSUME NEW k \in VB!Runs,
             pc'[k] \in {"rows", "asking"} =>
               pc[k] \in {"rows", "asking"} /\ fetched'[k] \subseteq fetched[k],
             pc'[k] = "asking" => fetched'[k] # {}
      PROVE  Good(k)'
  <2>1. Good(k)
    BY <1>b
  <2>2. CASE pc'[k] \in {"rows", "asking"}
    <3> SUFFICES ASSUME NEW r \in fetched'[k] PROVE status'[r] # "absent" /\ Free(r)'
      BY <1>g
    <3>1. r \in VB!Rows /\ status[r] # "absent" /\ Free(r)
      BY <1>g, <1>t, <2>1, <2>2
    <3> QED  BY <3>1, Kept
  <2>3. CASE pc'[k] \notin {"rows", "asking"}
    BY <2>3
  <2> QED  BY <2>2, <2>3
<1>s. ASSUME UNCHANGED <<pc, fetched>> PROVE FetchInv'
  <2> SUFFICES ASSUME NEW k \in VB!Runs PROVE Good(k)'
    BY <1>c
  <2>1. pc'[k] = "asking" => fetched'[k] # {}
    BY <1>b, <1>s
  <2> HIDE DEF Good
  <2> QED  BY <1>g, <1>s, <2>1
\* One run moves: the others are as they were.
<1>o. ASSUME NEW n \in VB!Runs, Good(n)',
             \A k \in VB!Runs : k # n => pc'[k] = pc[k] /\ fetched'[k] = fetched[k]
      PROVE  FetchInv'
  <2> SUFFICES ASSUME NEW k \in VB!Runs, k # n PROVE Good(k)'
    BY <1>c, <1>o
  <2>1. pc'[k] = pc[k] /\ fetched'[k] = fetched[k]
    BY <1>o
  <2>2. pc'[k] = "asking" => fetched'[k] # {}
    BY <1>b, <2>1
  <2> HIDE DEF Good
  <2> QED  BY <1>g, <2>1, <2>2
<1>q. ASSUME NEW n \in VB!Runs, pc'[n] \notin {"rows", "asking"},
             \A k \in VB!Runs : k # n => pc'[k] = pc[k] /\ fetched'[k] = fetched[k]
      PROVE  FetchInv'
  <2>2. Good(n)'
    BY <1>q
  <2> HIDE DEF Good
  <2> QED  BY <1>q, <1>o, <2>2
<1>1. CASE UNCHANGED VB!vars
  BY <1>1, <1>s DEF VB!vars
<1>2. CASE VB!Poke \/ VB!RunNow \/ VB!Stop
  BY <1>2, <1>s DEF VB!Poke, VB!RunNow, VB!Stop
<1>3. CASE VB!Crash
  <2>1. \A k \in VB!Runs : pc'[k] = "off"
    BY <1>3 DEF VB!Crash
  <2> QED  BY <1>c, <2>1
<1> HIDE DEF Good
<1>4. ASSUME NEW n \in VB!Runs, VB!StartRun(n) PROVE FetchInv'
  BY <1>4, <1>q, <1>t DEF VB!StartRun
<1>5. ASSUME NEW n \in VB!Runs, VB!FinishRun(n) PROVE FetchInv'
  BY <1>5, <1>q, <1>t DEF VB!FinishRun
<1>6. ASSUME NEW n \in VB!Runs, VB!NotConfigured(n) \/ VB!QueryFails(n) PROVE FetchInv'
  <2>1. /\ UNCHANGED fetched
        /\ pc' = [pc EXCEPT ![n] = "ended"] \/ pc' = [pc EXCEPT ![n] = "unlocking"]
    BY <1>6 DEF VB!NotConfigured, VB!QueryFails, VB!Go
  <2> QED  BY <1>q, <1>t, <2>1
<1>7. ASSUME NEW n \in VB!Runs, VB!TryLock(n) PROVE FetchInv'
  <2>1. /\ UNCHANGED fetched
        /\ pc' = [pc EXCEPT ![n] = "scanning"] \/ pc' = [pc EXCEPT ![n] = "ended"]
    BY <1>7 DEF VB!TryLock, VB!Go
  <2> QED  BY <1>q, <1>t, <2>1
<1>8. ASSUME NEW n \in VB!Runs, VB!Scan(n) PROVE FetchInv'
  <2>1. CASE pc' = [pc EXCEPT ![n] = "unlocking"] /\ UNCHANGED fetched
    BY <1>q, <1>t, <2>1
  <2>2. CASE /\ pc' = [pc EXCEPT ![n] = "rows"]
             /\ fetched' = [fetched EXCEPT ![n] = VB!listPending \ attempted[n]]
    <3>1. pc'[n] = "rows" /\ fetched'[n] \subseteq VB!listPending
      BY <1>t, <2>2
    <3>2. ASSUME NEW r \in fetched'[n] PROVE status'[r] # "absent" /\ Free(r)'
      <4>1. r \in VB!Rows /\ VB!Eligible(r)
        BY <3>1, <3>2, Listed
      <4>2. status[r] = "pending" /\ Free(r)
        BY <4>1, EligibleFree DEF Free
      <4> QED  BY <4>1, <4>2, Kept
    <3>3. Good(n)'
      BY <3>1, <3>2 DEF Good
    <3> QED  BY <1>o, <1>t, <2>2, <3>3
  <2> QED  BY <1>8, <2>1, <2>2 DEF VB!Scan, VB!Go
<1>9. ASSUME NEW n \in VB!Runs, VB!NextRow(n) PROVE FetchInv'
  <2>p. pc[n] = "rows"
    BY <1>9 DEF VB!NextRow
  <2>1. CASE VB!isAborted \/ fetched[n] = {}
    <3>1. /\ UNCHANGED fetched
          /\ pc' = [pc EXCEPT ![n] = "unlocking"] \/ pc' = [pc EXCEPT ![n] = "scanning"]
      BY <1>9, <2>1 DEF VB!NextRow, VB!Go
    <3> QED  BY <1>q, <1>t, <3>1
  <2>2. CASE ~ (VB!isAborted \/ fetched[n] = {})
    <3> DEFINE a == VB!asked(n)
    <3>1. \/ pc' = [pc EXCEPT ![n] = "asking"] /\ UNCHANGED fetched
          \/ UNCHANGED pc /\ fetched' = [fetched EXCEPT ![n] = @ \ {a}]
      BY <1>9, <2>2 DEF VB!NextRow, VB!asked, VB!Go
    <3> HIDE DEF a
    <3>2. /\ fetched'[n] \subseteq fetched[n]
          /\ pc'[n] = "asking" => fetched'[n] # {}
      BY <1>t, <2>p, <2>2, <3>1
    <3>3. Good(n)'
      BY <1>g, <2>p, <3>2
    <3> QED  BY <1>o, <1>t, <3>1, <3>3
  <2> QED  BY <2>1, <2>2
<1>10. ASSUME NEW n \in VB!Runs, VB!RowDescribed(n) \/ VB!RowFails(n) PROVE FetchInv'
  <2> DEFINE a == VB!asked(n)
  <2>1. /\ pc[n] = "asking" /\ pc' = [pc EXCEPT ![n] = "rows"]
        /\ fetched' = [fetched EXCEPT ![n] = @ \ {a}]
    BY <1>10 DEF VB!RowDescribed, VB!RowFails, VB!Go
  <2> HIDE DEF a
  <2>2. pc'[n] = "rows" /\ fetched'[n] \subseteq fetched[n]
    BY <1>t, <2>1
  <2>3. Good(n)'
    BY <1>g, <2>1, <2>2
  <2> QED  BY <1>o, <1>t, <2>1, <2>3
<1>11. ASSUME NEW n \in VB!Runs, VB!Unlock(n) PROVE FetchInv'
  BY <1>11, <1>q, <1>t DEF VB!Unlock, VB!Go
<1>12. ASSUME NEW r \in VB!Rows, NEW q \in VB!Rows,
              \/ VB!Arrive(r) \/ VB!TurnStarts(r) \/ VB!TurnDescribes(r) \/ VB!TurnFails(r)
              \/ VB!TurnSettles(r) \/ VB!HoldExpires(r) \/ VB!TurnAsks(r, q)
       PROVE  FetchInv'
  BY <1>12, <1>s DEF VB!Arrive, VB!TurnStarts, VB!TurnDescribes, VB!TurnFails,
     VB!TurnSettles, VB!HoldExpires, VB!TurnAsks
<1> QED
  BY <1>1, <1>2, <1>3, <1>4, <1>5, <1>6, <1>7, <1>8, <1>9, <1>10, <1>11, <1>12
     DEF VB!Next, VB!RunStep

\* A turn is told what the store keeps, and what is kept is kept for good.
LEMMA StepTold ==
  ASSUME VisionInv, [VB!Next]_(VB!vars)
  PROVE  ToldInv'
<1> USE DEF VB!store, VB!scheduler, VB!job, VB!live, VB!history
<1>t. /\ status \in [VB!Rows -> {"absent", "pending", "described"}]
      /\ stored \in [VB!Rows -> VB!Authors \cup {VB!Nobody}]
      /\ turn \in [VB!Rows -> {"new", "queued", "running", "asking", "over"}]
      /\ target \in [VB!Rows -> VB!Rows \cup {VB!None}] /\ told \in [VB!Rows -> Answers]
      /\ ToldInv
  BY DEF VisionInv, VisionTypes
<1>n. \A r \in VB!Rows : told[r][1] \in VB!Rows \cup {VB!None}
  BY <1>t DEF Answers
<1> DEFINE Sure(r) == turn[r] = "asking" => target[r] \in VB!Rows /\ status[target[r]] # "absent"
<1> DEFINE True(r) ==
      told[r][1] # VB!None =>
        status[told[r][1]] = "described" /\ (r \in misread \/ stored[told[r][1]] = told[r][2])
<1>a. (\A r \in VB!Rows : Sure(r) /\ True(r)) /\ ~ (VB!None \in VB!Rows)
  BY <1>t, Places DEF ToldInv
<1>b. (\A r \in VB!Rows : Sure(r)' /\ True(r)') => ToldInv'
  BY DEF ToldInv
\* What a turn already asked, or was already told.
<1>s. ASSUME NEW r \in VB!Rows, turn'[r] = "asking" => turn[r] = "asking" /\ target'[r] = target[r]
      PROVE  Sure(r)'
  <2>1. turn'[r] = "asking" => target[r] \in VB!Rows /\ status[target[r]] # "absent"
    BY <1>a, <1>s
  <2> QED  BY <1>s, <2>1, Kept
<1>u. ASSUME NEW r \in VB!Rows, told'[r] = told[r], r \in misread => r \in misread' PROVE True(r)'
  <2>1. CASE told[r][1] = VB!None
    BY <1>u, <2>1
  <2>2. CASE told[r][1] # VB!None
    <3>1. /\ told[r][1] \in VB!Rows
          /\ status[told[r][1]] = "described"
          /\ r \in misread \/ stored[told[r][1]] = told[r][2]
      BY <1>a, <1>n, <2>2
    <3>2. /\ status'[told[r][1]] = "described"
          /\ r \in misread' \/ stored'[told[r][1]] = told[r][2]
      BY <1>u, <3>1, Kept
    <3> QED  BY <1>u, <3>2
  <2> QED  BY <2>1, <2>2
<1> HIDE DEF Sure, True
<1>k. ASSUME UNCHANGED <<turn, target, told, misread>> PROVE ToldInv'
  BY <1>b, <1>s, <1>u, <1>k
<1>1. CASE UNCHANGED VB!vars
  BY <1>1, <1>k DEF VB!vars
<1>2. CASE VB!Poke \/ VB!RunNow \/ VB!Stop
  BY <1>2, <1>k DEF VB!Poke, VB!RunNow, VB!Stop
<1>3. CASE VB!Crash
  <2> SUFFICES ASSUME NEW r \in VB!Rows PROVE Sure(r)' /\ True(r)'
    BY <1>b
  <2>1. turn'[r] # "asking"
    BY <1>3, <1>t DEF VB!Crash
  <2>2. \/ told'[r] = told[r] /\ (r \in misread => r \in misread')
        \/ told'[r] = <<VB!None, VB!Nobody>>
    BY <1>3 DEF VB!Crash
  <2>3. told'[r] = <<VB!None, VB!Nobody>> => True(r)'
    BY DEF True
  <2> QED  BY <1>s, <1>u, <2>1, <2>2, <2>3
<1>4. ASSUME NEW n \in VB!Runs,
             \/ VB!StartRun(n) \/ VB!FinishRun(n) \/ VB!NotConfigured(n) \/ VB!QueryFails(n) \/ VB!TryLock(n)
             \/ VB!Scan(n) \/ VB!NextRow(n) \/ VB!RowFails(n) \/ VB!Unlock(n)
             \/ VB!RowDescribed(n)
      PROVE  ToldInv'
  BY <1>4, <1>k DEF VB!StartRun, VB!FinishRun, VB!NotConfigured, VB!QueryFails, VB!TryLock, VB!Scan,
     VB!NextRow, VB!RowFails, VB!Unlock, VB!RowDescribed
<1>5. ASSUME NEW a \in VB!Rows,
             VB!Arrive(a) \/ VB!TurnStarts(a) \/ VB!TurnFails(a) \/ VB!HoldExpires(a)
      PROVE  ToldInv'
  <2>1. /\ UNCHANGED <<target, told, misread>>
        /\ UNCHANGED turn \/ \E w \in {"queued", "running"} : turn' = [turn EXCEPT ![a] = w]
    BY <1>5 DEF VB!Arrive, VB!TurnStarts, VB!TurnFails, VB!HoldExpires
  <2>2. \A r \in VB!Rows : turn'[r] = "asking" => turn[r] = "asking"
    BY <1>t, <2>1
  <2> QED  BY <1>b, <1>s, <1>u, <2>1, <2>2
<1>6. ASSUME NEW a \in VB!Rows, VB!TurnSettles(a) PROVE ToldInv'
  <2>1. /\ UNCHANGED <<told, misread>>
        /\ \A r \in VB!Rows : turn'[r] = "asking" => turn[r] = "asking" /\ target'[r] = target[r]
    BY <1>6, <1>t DEF VB!TurnSettles
  <2> QED  BY <1>b, <1>s, <1>u, <2>1
<1>7. ASSUME NEW a \in VB!Rows, VB!TurnDescribes(a) PROVE ToldInv'
  <2> DEFINE q == target[a]
  <2>1. q \in VB!Rows /\ status[q] # "absent"
    BY <1>7, <1>t DEF VB!TurnDescribes, ToldInv
  <2>2. status'[q] = "described"
    BY <1>7, <1>t, <2>1 DEF VB!TurnDescribes, VB!MarkDescribed
  <2>3. /\ UNCHANGED target /\ turn' = [turn EXCEPT ![a] = "running"] /\ misread \subseteq misread'
        /\ \E text2 : /\ told' = [told EXCEPT ![a] = <<q, text2>>]
                      /\ text2 = stored'[q] \/ a \in misread'
    BY <1>7 DEF VB!TurnDescribes
  <2> HIDE DEF q
  <2>4. /\ told'[a][1] = q /\ turn'[a] = "running"
        /\ told'[a][2] = stored'[q] \/ a \in misread'
    BY <1>t, <2>3
  <2>5. True(a)'
    BY <2>2, <2>4 DEF True
  <2>6. \A r \in VB!Rows : r # a => told'[r] = told[r] /\ turn'[r] = turn[r]
    BY <1>t, <2>3
  <2> QED  BY <1>b, <1>s, <1>u, <2>3, <2>4, <2>5, <2>6
<1>8. ASSUME NEW a \in VB!Rows, NEW q \in VB!Rows, VB!TurnAsks(a, q) PROVE ToldInv'
  <2>1. /\ turn[a] = "running" /\ status[q] # "absent" /\ UNCHANGED <<status, stored, misread>>
        /\ target' = [target EXCEPT ![a] = q]
    BY <1>8 DEF VB!TurnAsks
  <2>2. \A r \in VB!Rows : r # a => target'[r] = target[r]
    BY <1>t, <2>1
  <2>3. target'[a] = q
    BY <1>t, <2>1
  <2>4. CASE turn' = [turn EXCEPT ![a] = "asking"] /\ UNCHANGED told
    <3>1. \A r \in VB!Rows : r # a => turn'[r] = turn[r]
      BY <1>t, <2>4
    <3>2. Sure(a)'
      BY <2>1, <2>3 DEF Sure
    <3> QED  BY <1>b, <1>s, <1>u, <2>1, <2>2, <2>4, <3>1, <3>2
  <2>5. CASE /\ status[q] = "described" /\ told' = [told EXCEPT ![a] = <<q, stored[q]>>]
             /\ UNCHANGED turn
    <3>1. told'[a] = <<q, stored[q]>> /\ \A r \in VB!Rows : r # a => told'[r] = told[r]
      BY <1>t, <2>5
    <3>2. True(a)'
      BY <2>1, <2>5, <3>1 DEF True
    <3>3. turn'[a] # "asking"
      BY <2>1, <2>5
    <3> QED  BY <1>b, <1>s, <1>u, <2>1, <2>2, <2>5, <3>1, <3>2, <3>3
  <2> QED  BY <1>8, <1>t, <2>1, <2>4, <2>5 DEF VB!TurnAsks
<1> QED
  BY <1>1, <1>2, <1>3, <1>4, <1>5, <1>6, <1>7, <1>8 DEF VB!Next, VB!RunStep

\* A row a run attempts is described, or on record as one it could not describe.
LEMMA StepTried ==
  ASSUME VisionInv, TriedInv, [VB!Next]_(VB!vars)
  PROVE  TriedInv'
<1> USE DEF VB!store, VB!scheduler, VB!job, VB!live, VB!history
<1>t. /\ status \in [VB!Rows -> {"absent", "pending", "described"}]
      /\ pc \in [VB!Runs -> VB!UnderWay \cup {"off"}]
      /\ attempted \in [VB!Runs -> SUBSET VB!Rows] /\ fetched \in [VB!Runs -> SUBSET VB!Rows]
      /\ LockInv /\ FetchInv
  BY DEF VisionInv, VisionTypes
<1> DEFINE Settled(k, r) ==
      /\ status[r] # "absent"
      /\ status[r] = "pending" => r \in excused \/ (pc[k] = "asking" /\ r = VB!asked(k))
<1> DEFINE Good(k) ==
      /\ pc[k] \in {"off", "starting"} => attempted[k] = {}
      /\ pc[k] \in InBody => \A r \in attempted[k] : Settled(k, r)
<1>b. \A k \in VB!Runs : Good(k)
  BY DEF TriedInv
<1>c. (\A k \in VB!Runs : Good(k)') => TriedInv'
  BY DEF TriedInv
<1>w. InBody \cap {"off", "starting", "ended", "unlocking"} = {} /\ InBody \subseteq VB!InLock
      /\ {"scanning", "rows", "asking"} \subseteq InBody
  BY DEF InBody, VB!InLock
\* The store may move on, and more be excused: a row settled is settled.
<1>p. ASSUME NEW k \in VB!Runs, NEW r \in VB!Rows, Settled(k, r), r \in excused => r \in excused',
             pc'[k] = pc[k], fetched'[k] = fetched[k],
             \A q \in VB!Rows : status[q] # "absent" /\ status'[q] = "pending" => status[q] = "pending"
      PROVE  Settled(k, r)'
  <2>1. status'[r] # "absent"
    BY <1>p, Kept
  <2>2. (status'[r] = "pending") => status[r] = "pending"
    BY <1>p
  <2>3. VB!asked(k)' = VB!asked(k)
    BY <1>p DEF VB!asked
  <2> QED  BY <1>p, <2>1, <2>2, <2>3
<1>v. \A q \in VB!Rows : status[q] # "absent" /\ status'[q] = "pending" => status[q] = "pending"
  BY <1>t, Kept
<1> HIDE DEF Settled
\* A run that stays where it is.
<1>g. ASSUME NEW k \in VB!Runs, UNCHANGED <<pc[k], attempted[k], fetched[k]>>,
             \A r \in attempted[k] : r \in excused => r \in excused'
      PROVE  Good(k)'
  <2>1. attempted[k] \subseteq VB!Rows
    BY <1>t
  <2>2. pc[k] \in InBody => \A r \in attempted[k] : Settled(k, r)'
    BY <1>b, <1>g, <1>p, <1>v, <2>1
  <2> QED  BY <1>b, <1>g, <2>2
<1> HIDE DEF Good
<1>k. ASSUME UNCHANGED <<pc, attempted, fetched>>, excused \subseteq excused' PROVE TriedInv'
  BY <1>c, <1>g, <1>k
<1>o. ASSUME NEW n \in VB!Runs, Good(n)', excused \subseteq excused',
             \A k \in VB!Runs : k # n => UNCHANGED <<pc[k], attempted[k], fetched[k]>>
      PROVE  TriedInv'
  BY <1>c, <1>g, <1>o
<1>q. ASSUME NEW n \in VB!Runs, excused \subseteq excused',
             pc'[n] \notin InBody, pc'[n] \in {"off", "starting"} => attempted'[n] = {},
             \A k \in VB!Runs : k # n => UNCHANGED <<pc[k], attempted[k], fetched[k]>>
      PROVE  TriedInv'
  <2>1. Good(n)'
    BY <1>q DEF Good
  <2> QED  BY <1>o, <1>q, <2>1
<1>1. CASE UNCHANGED VB!vars
  BY <1>1, <1>k DEF VB!vars
<1>2. CASE VB!Poke \/ VB!RunNow \/ VB!Stop
  BY <1>2, <1>k DEF VB!Poke, VB!RunNow, VB!Stop
<1>3. CASE VB!Crash
  <2> SUFFICES ASSUME NEW k \in VB!Runs PROVE Good(k)'
    BY <1>c
  <2>1. pc'[k] = "off" /\ attempted'[k] = {}
    BY <1>3 DEF VB!Crash
  <2> QED  BY <1>w, <2>1 DEF Good
<1>4. ASSUME NEW n \in VB!Runs, VB!StartRun(n) PROVE TriedInv'
  <2>1. attempted[n] = {}
    BY <1>b, <1>4 DEF VB!StartRun, Good
  <2>2. excused' = excused /\ pc'[n] = "starting" /\ attempted'[n] = {}
    BY <1>4, <1>t, <2>1 DEF VB!StartRun
  <2>3. \A k \in VB!Runs : k # n => UNCHANGED <<pc[k], attempted[k], fetched[k]>>
    BY <1>4, <1>t DEF VB!StartRun
  <2> QED  BY <1>q, <1>w, <2>2, <2>3
<1>5. ASSUME NEW n \in VB!Runs, VB!FinishRun(n) PROVE TriedInv'
  <2>2. excused' = excused /\ pc'[n] = "off" /\ attempted'[n] = {}
    BY <1>5, <1>t DEF VB!FinishRun
  <2>3. \A k \in VB!Runs : k # n => UNCHANGED <<pc[k], attempted[k], fetched[k]>>
    BY <1>5, <1>t DEF VB!FinishRun
  <2> QED  BY <1>q, <1>w, <2>2, <2>3
<1>6. ASSUME NEW n \in VB!Runs, VB!NotConfigured(n) \/ VB!QueryFails(n) PROVE TriedInv'
  <2>2. excused \subseteq excused' /\ pc'[n] \in {"ended", "unlocking"}
    BY <1>6, <1>t DEF VB!NotConfigured, VB!QueryFails, VB!Go
  <2>3. \A k \in VB!Runs : k # n => UNCHANGED <<pc[k], attempted[k], fetched[k]>>
    BY <1>6, <1>t DEF VB!NotConfigured, VB!QueryFails, VB!Go
  <2> QED  BY <1>q, <1>w, <2>2, <2>3
<1>7. ASSUME NEW n \in VB!Runs, VB!TryLock(n) PROVE TriedInv'
  <2>1. attempted[n] = {}
    BY <1>b, <1>7 DEF VB!TryLock, Good
  <2>2. excused \subseteq excused' /\ pc'[n] \in {"scanning", "ended"} /\ attempted'[n] = {}
    BY <1>7, <1>t, <2>1 DEF VB!TryLock, VB!Go
  <2>3. \A k \in VB!Runs : k # n => UNCHANGED <<pc[k], attempted[k], fetched[k]>>
    BY <1>7, <1>t DEF VB!TryLock, VB!Go
  <2>4. Good(n)'
    BY <2>2 DEF Good
  <2> QED  BY <1>o, <2>2, <2>3, <2>4
<1>8. ASSUME NEW n \in VB!Runs, VB!Scan(n) PROVE TriedInv'
  <2>1. /\ pc[n] = "scanning" /\ UNCHANGED <<attempted, excused, status>>
        /\ pc'[n] \in {"rows", "unlocking"}
    BY <1>8, <1>t DEF VB!Scan, VB!Go
  <2>2. \A k \in VB!Runs : k # n => UNCHANGED <<pc[k], attempted[k], fetched[k]>>
    BY <1>8, <1>t DEF VB!Scan, VB!Go
  <2>3. \A r \in attempted[n] : Settled(n, r)
    BY <1>b, <1>w, <2>1 DEF Good
  <2>4. \A r \in attempted[n] : Settled(n, r)'
    BY <2>1, <2>3 DEF Settled
  <2>5. Good(n)'
    BY <1>w, <2>1, <2>4 DEF Good
  <2> QED  BY <1>o, <2>1, <2>2, <2>5
<1>9. ASSUME NEW n \in VB!Runs, VB!NextRow(n) PROVE TriedInv'
  <2>0. /\ pc[n] = "rows" /\ UNCHANGED status
        /\ excused' = excused \ (attempted'[n] \ attempted[n])
    BY <1>9 DEF VB!NextRow
  <2>l. \A r \in attempted[n] : status[r] # "absent" /\ (status[r] = "pending" => r \in excused)
    BY <1>b, <1>w, <2>0 DEF Good, Settled
  <2>1. CASE VB!isAborted \/ fetched[n] = {}
    <3>1. UNCHANGED <<attempted, fetched, excused>> /\ pc'[n] \in {"unlocking", "scanning"}
      BY <1>9, <1>t, <2>0, <2>1 DEF VB!NextRow, VB!Go
    <3>2. \A k \in VB!Runs : k # n => UNCHANGED <<pc[k], attempted[k], fetched[k]>>
      BY <1>9, <1>t, <2>1 DEF VB!NextRow, VB!Go
    <3>3. \A r \in attempted[n] : Settled(n, r)'
      BY <2>0, <2>l, <3>1 DEF Settled
    <3>4. Good(n)'
      BY <3>1, <3>3 DEF Good
    <3> QED  BY <1>o, <3>1, <3>2, <3>4
  <2>2. CASE ~ (VB!isAborted \/ fetched[n] = {})
    <3> DEFINE a == VB!asked(n)
    <3>1. a \in fetched[n] /\ a \in VB!Rows
      BY <1>t, <2>2, AskedOne
    <3>2. status[a] # "absent"
      BY <1>t, <2>0, <3>1 DEF FetchInv
    <3>3. /\ attempted' = [attempted EXCEPT ![n] = @ \cup {a}]
          /\ \/ status[a] = "pending" /\ pc' = [pc EXCEPT ![n] = "asking"] /\ UNCHANGED fetched
             \/ /\ status[a] # "pending" /\ UNCHANGED pc
                /\ fetched' = [fetched EXCEPT ![n] = @ \ {a}]
      BY <1>9, <2>2 DEF VB!NextRow, VB!asked, VB!Go
    <3>q. UNCHANGED fetched => VB!asked(n)' = a
      BY DEF VB!asked
    <3> HIDE DEF a
    <3>4. attempted'[n] = attempted[n] \cup {a} /\ pc'[n] \in {"asking", "rows"}
      BY <1>t, <2>0, <3>3
    <3>5. \A r \in attempted[n] : r \in excused => r \in excused'
      BY <2>0
    <3>6. status[a] = "pending" => pc'[n] = "asking" /\ UNCHANGED fetched
      BY <1>t, <3>3
    <3>7. \A r \in attempted'[n] : Settled(n, r)'
      BY <2>0, <2>l, <3>2, <3>4, <3>5, <3>6, <3>q DEF Settled
    <3>8. Good(n)'
      BY <3>4, <3>7 DEF Good
    <3>9. ASSUME NEW k \in VB!Runs, k # n PROVE Good(k)'
      <4>1. pc'[k] = pc[k] /\ attempted'[k] = attempted[k]
        BY <1>t, <3>3, <3>9
      <4>2. pc[k] \notin InBody
        <5>1. pc[n] \in VB!InLock
          BY <2>0 DEF VB!InLock
        <5> QED  BY <1>t, <1>w, <3>9, <5>1 DEF LockInv
      <4>3. pc[k] \in {"off", "starting"} => attempted[k] = {}
        BY <1>b DEF Good
      <4> QED  BY <4>1, <4>2, <4>3 DEF Good
    <3> QED  BY <1>c, <3>8, <3>9
  <2> QED  BY <2>1, <2>2
<1>10. ASSUME NEW n \in VB!Runs, VB!RowDescribed(n) \/ VB!RowFails(n) PROVE TriedInv'
  <2> DEFINE a == VB!asked(n)
  <2>1. pc[n] = "asking" /\ UNCHANGED attempted /\ excused \subseteq excused'
        /\ \/ VB!MarkDescribed(a, <<"job">>)
           \/ UNCHANGED status /\ a \in excused'
    BY <1>10 DEF VB!RowDescribed, VB!RowFails
  <2>2. pc'[n] = "rows" /\ \A k \in VB!Runs : k # n => UNCHANGED <<pc[k], attempted[k], fetched[k]>>
    BY <1>10, <1>t DEF VB!RowDescribed, VB!RowFails, VB!Go
  <2>3. a \in VB!Rows
    BY <1>t, <2>1, AskedOne DEF FetchInv
  <2>4. ASSUME NEW r \in attempted[n] PROVE Settled(n, r)'
    <3>1. r \in VB!Rows /\ Settled(n, r)
      BY <1>b, <1>t, <1>w, <2>1 DEF Good
    <3>2. status'[r] # "absent"
      BY <3>1, Kept DEF Settled
    <3>3. CASE r = a
      <4> HIDE DEF a
      <4>1. status'[a] # "pending" \/ a \in excused'
        BY <1>t, <2>1, <2>3 DEF VB!MarkDescribed
      <4> QED  BY <3>2, <3>3, <4>1 DEF Settled
    <3>4. CASE r # a
      <4>1. status[r] # "absent" /\ (status[r] = "pending" => r \in excused)
        BY <3>1, <3>4 DEF Settled
      <4>2. status'[r] = "pending" => r \in excused'
        BY <1>v, <2>1, <3>1, <4>1
      <4> QED  BY <3>2, <4>2 DEF Settled
    <3> QED  BY <3>3, <3>4
  <2>5. Good(n)'
    BY <2>1, <2>2, <2>4 DEF Good
  <2> QED  BY <1>o, <2>1, <2>2, <2>5
<1>11. ASSUME NEW n \in VB!Runs, VB!Unlock(n) PROVE TriedInv'
  <2>2. excused' = excused /\ pc'[n] = "ended"
    BY <1>11, <1>t DEF VB!Unlock, VB!Go
  <2>3. \A k \in VB!Runs : k # n => UNCHANGED <<pc[k], attempted[k], fetched[k]>>
    BY <1>11, <1>t DEF VB!Unlock, VB!Go
  <2> QED  BY <1>q, <1>w, <2>2, <2>3
<1>12. ASSUME NEW r \in VB!Rows, NEW q \in VB!Rows,
              \/ VB!Arrive(r) \/ VB!TurnStarts(r) \/ VB!TurnDescribes(r) \/ VB!TurnFails(r)
              \/ VB!TurnSettles(r) \/ VB!HoldExpires(r) \/ VB!TurnAsks(r, q)
       PROVE  TriedInv'
  <2>1. UNCHANGED <<pc, attempted, fetched>> /\ excused \subseteq excused'
    BY <1>12 DEF VB!Arrive, VB!TurnStarts, VB!TurnDescribes, VB!TurnFails, VB!TurnSettles,
       VB!HoldExpires, VB!TurnAsks
  <2> QED  BY <1>k, <2>1
<1> QED
  BY <1>1, <1>2, <1>3, <1>4, <1>5, <1>6, <1>7, <1>8, <1>9, <1>10, <1>11, <1>12
     DEF VB!Next, VB!RunStep

\* A row a run would take up, or that is left over, is accounted for when the run
\* has taken up all it lists, and every row it may take.
LEMMA LastScan ==
  ASSUME VisionInv, TriedInv, NEW n \in VB!Runs, pc[n] = "scanning", NRows <= MaxRows,
         \/ Cardinality(attempted[n]) >= MaxRows
         \/ VB!listPending \subseteq attempted[n],
         NEW r \in VB!Rows, VB!Leftover(r)
  PROVE  Accounted(r)
<1>t. /\ attempted[n] \subseteq VB!Rows /\ excused \subseteq VB!Rows
      /\ HoldInv /\ VisionTypes
  BY DEF VisionInv, VisionTypes
<1>e. VB!Rows = 1 .. NRows /\ NRows \in Nat /\ MaxRows \in Nat /\ VisionBatch \in Nat
  BY VisionAssumption DEF VB!Rows
<1>1. VB!Eligible(r) /\ status[r] = "pending"
  BY <1>t, EligibleFree DEF VB!Leftover
<1>2. \A q \in attempted[n] : status[q] = "pending" => q \in excused
  BY DEF TriedInv, InBody
<1>3. CASE Cardinality(attempted[n]) >= MaxRows
  <2>0. 1 \in Int /\ NRows \in Int
    BY <1>e
  <2>i. /\ IsFiniteSet(1 .. NRows)
        /\ Cardinality(1 .. NRows) = IF 1 > NRows THEN 0 ELSE NRows - 1 + 1
    BY <2>0, FS_Interval, Zenon
  <2>1. attempted[n] \subseteq 1 .. NRows /\ Cardinality(1 .. NRows) = NRows
        /\ IsFiniteSet(1 .. NRows)
    <3>1. attempted[n] \subseteq 1 .. NRows
      BY <1>t, <1>e
    <3>2. Cardinality(1 .. NRows) = NRows
      BY <1>e, <2>i
    <3> QED  BY <2>i, <3>1, <3>2
  <2>2. Cardinality(attempted[n]) \in Nat /\ Cardinality(attempted[n]) <= NRows
    BY ZenonT(30), <1>e, <2>1, Cards
  <2>3. Cardinality(attempted[n]) = Cardinality(1 .. NRows)
    BY <1>3, <1>e, <2>1, <2>2
  <2>4. attempted[n] = 1 .. NRows
    BY <2>1, <2>3, FS_Subset
  <2> QED  BY <1>1, <1>2, <1>e, <2>4 DEF Accounted
<1>4. CASE VB!listPending \subseteq attempted[n]
  <2>1. CASE r \in VB!listPending
    BY <1>1, <1>2, <1>4, <2>1 DEF Accounted
  <2>2. CASE VisionBatch <= Cardinality(Before(VB!listPending, r))
    <3>1. \A q \in VB!listPending : status[q] = "pending"
      BY Listed DEF VB!Eligible
    <3>2. VB!listPending \subseteq excused
      BY <1>2, <1>4, <3>1
    <3>3. Before(VB!listPending, r) \subseteq Before(excused, r) /\ Before(excused, r) \subseteq 1 .. NRows
      BY <1>t, <1>e, <3>2 DEF Before
    <3>4. Before(VB!listPending, r) \subseteq 1 .. NRows
      BY <3>3
    <3>5. /\ Cardinality(Before(VB!listPending, r)) <= Cardinality(Before(excused, r))
          /\ Cardinality(Before(VB!listPending, r)) \in Nat
          /\ Cardinality(Before(excused, r)) \in Nat
      BY <1>e, <3>3, <3>4, Cards
    <3>6. Cardinality(Before(excused, r)) >= VisionBatch
      BY <1>e, <2>2, <3>5
    <3> QED  BY <3>6 DEF Accounted
  <2> QED  BY <1>1, <2>1, <2>2, Listed
<1> QED  BY <1>3, <1>4

\* The scheduler rests with a run to come, or with every row left over accounted for.
LEMMA StepRest ==
  ASSUME VisionInv, TriedInv, RestInv, NRows <= MaxRows, [VB!Next]_(VB!vars)
  PROVE  RestInv'
<1> USE DEF VB!store, VB!scheduler, VB!job, VB!live, VB!history
<1>t. /\ VisionTypes /\ HoldInv
      /\ status \in [VB!Rows -> {"absent", "pending", "described"}]
      /\ expired \in [VB!Rows -> BOOLEAN]
      /\ pc \in [VB!Runs -> VB!UnderWay \cup {"off"}]
      /\ turn \in [VB!Rows -> {"new", "queued", "running", "asking", "over"}]
      /\ excused \subseteq VB!Rows
  BY DEF VisionInv, VisionTypes
<1> DEFINE Looks == \E n \in VB!Runs : pc[n] \in {"starting"} \cup InBody
<1> DEFINE All == \A r \in VB!Rows : VB!Leftover(r) => Accounted(r)
<1>r. (aborted => timer \/ halted) /\ (timer \/ halted \/ Looks \/ All)
  BY DEF RestInv
<1>c. (aborted' => timer' \/ halted') /\ (timer' \/ halted' \/ Looks' \/ All') => RestInv'
  BY DEF RestInv
\* More is excused, and what is newly left over is excused.
<1>a. ASSUME All, excused \subseteq excused', excused' \subseteq VB!Rows,
             \A r \in VB!Rows : VB!Leftover(r)' => VB!Leftover(r) \/ r \in excused'
      PROVE  All'
  <2> SUFFICES ASSUME NEW r \in VB!Rows, VB!Leftover(r)', r \notin excused' PROVE Accounted(r)'
    BY DEF Accounted
  <2>1. Accounted(r) /\ r \notin excused
    BY <1>a
  <2>2. VisionBatch <= Cardinality(Before(excused, r))
    BY <2>1 DEF Accounted
  <2>3. NRows \in Nat /\ VisionBatch \in Nat
    BY VisionAssumption
  <2>4. /\ Before(excused, r) \subseteq Before(excused', r)
        /\ Before(excused, r) \subseteq 1 .. NRows /\ Before(excused', r) \subseteq 1 .. NRows
    BY <1>a DEF Before, VB!Rows
  <2>5. /\ Cardinality(Before(excused, r)) <= Cardinality(Before(excused', r))
        /\ Cardinality(Before(excused, r)) \in Nat /\ Cardinality(Before(excused', r)) \in Nat
    BY <2>3, <2>4, Cards
  <2>6. VisionBatch <= Cardinality(Before(excused', r))
    BY <2>2, <2>3, <2>5
  <2> QED  BY <2>6 DEF Accounted
<1>same. ASSUME UNCHANGED <<status, turn, expired>> PROVE \A r \in VB!Rows : VB!Leftover(r)' <=> VB!Leftover(r)
  BY <1>same DEF VB!Leftover
<1>k. ASSUME UNCHANGED <<status, turn, expired, excused, timer, halted, aborted, pc>> PROVE RestInv'
  BY <1>k, <1>r DEF RestInv, VB!Leftover, Accounted
\* Everything a run could take is excused.
<1>e. ASSUME UNCHANGED <<status, turn, expired>>,
             excused' = excused \cup {r \in VB!Rows : VB!Eligible(r)}
      PROVE  All'
  <2> SUFFICES ASSUME NEW r \in VB!Rows, VB!Leftover(r)' PROVE r \in excused'
    BY DEF Accounted
  <2>1. VB!Eligible(r)
    BY <1>same, <1>e, <1>t, EligibleFree
  <2> QED  BY <1>e, <2>1
<1> HIDE DEF All
<1>1. CASE UNCHANGED VB!vars
  BY <1>1, <1>k DEF VB!vars
<1>2. CASE VB!Poke
  <2>1. CASE halted
    BY <1>2, <1>k, <2>1 DEF VB!Poke, VB!OnActivity
  <2>2. CASE ~ halted
    <3>1. timer'
      BY <1>2, <2>2 DEF VB!Poke, VB!OnActivity, VB!Schedule
    <3> QED  BY <1>c, <3>1
  <2> QED  BY <2>1, <2>2
<1>3. CASE VB!RunNow
  BY <1>3, <1>c DEF VB!RunNow, VB!Schedule
<1>4. CASE VB!Stop
  BY <1>4, <1>c DEF VB!Stop
<1>5. CASE VB!Crash
  BY <1>5, <1>c DEF VB!Crash
<1>6. ASSUME NEW n \in VB!Runs, VB!StartRun(n) PROVE RestInv'
  <2>1. pc'[n] = "starting" /\ ~ aborted'
    BY <1>6, <1>t DEF VB!StartRun
  <2> QED  BY <1>c, <2>1
<1>7. ASSUME NEW n \in VB!Runs, VB!FinishRun(n) PROVE RestInv'
  <2>1. CASE ~ halted /\ aborted
    <3>1. timer'
      BY <1>7, <2>1 DEF VB!FinishRun, VB!Schedule
    <3> QED  BY <1>c, <3>1
  <2>2. CASE ~ (~ halted /\ aborted)
    <3>1. UNCHANGED <<timer, aborted, halted, status, turn, expired, excused>> /\ pc[n] = "ended"
      BY <1>7, <2>2 DEF VB!FinishRun
    <3>2. Looks => Looks'
      <4> SUFFICES ASSUME NEW k \in VB!Runs, pc[k] \in {"starting"} \cup InBody PROVE Looks'
        OBVIOUS
      <4>1. k # n
        BY <3>1 DEF InBody
      <4>2. pc'[k] = pc[k]
        BY <1>7, <1>t, <4>1 DEF VB!FinishRun
      <4> QED  BY <4>2
    <3>3. All => All'
      BY <1>a, <1>same, <1>t, <3>1
    <3> QED  BY <1>c, <1>r, <3>1, <3>2, <3>3
  <2> QED  BY <2>1, <2>2
<1>8. ASSUME NEW n \in VB!Runs, VB!NotConfigured(n) \/ VB!QueryFails(n) PROVE RestInv'
  <2>1. UNCHANGED <<timer, aborted, halted>> /\ All'
    BY <1>8, <1>e DEF VB!NotConfigured, VB!QueryFails
  <2> QED  BY <1>c, <1>r, <2>1
<1>9. ASSUME NEW n \in VB!Runs, VB!TryLock(n) PROVE RestInv'
  <2>0. UNCHANGED <<timer, aborted, halted>>
    BY <1>9 DEF VB!TryLock
  <2>1. CASE lock = VB!None
    <3>1. pc'[n] = "scanning"
      BY <1>9, <1>t, <2>1 DEF VB!TryLock, VB!Go
    <3>2. Looks'
      BY <3>1 DEF InBody
    <3> QED  BY <1>c, <1>r, <2>0, <3>2
  <2>2. CASE lock # VB!None
    <3>1. All'
      BY <1>9, <1>e, <2>2 DEF VB!TryLock
    <3> QED  BY <1>c, <1>r, <2>0, <3>1
  <2> QED  BY <2>1, <2>2
<1>10. ASSUME NEW n \in VB!Runs, VB!Scan(n) PROVE RestInv'
  <2>0. pc[n] = "scanning" /\ UNCHANGED <<timer, aborted, halted, status, turn, expired, excused>>
    BY <1>10 DEF VB!Scan
  <2>1. CASE VB!isAborted
    <3>1. timer' \/ halted'
      BY <1>r, <2>0, <2>1 DEF VB!isAborted
    <3> QED  BY <1>c, <3>1
  <2>2. CASE \/ Cardinality(attempted[n]) >= MaxRows
             \/ VB!listPending \ attempted[n] = {}
    <3>1. All
      BY <2>0, <2>2, LastScan DEF All
    <3>2. All'
      BY <1>a, <1>same, <1>t, <2>0, <3>1
    <3> QED  BY <1>c, <1>r, <2>0, <3>2
  <2>3. CASE ~ (\/ VB!isAborted \/ Cardinality(attempted[n]) >= MaxRows
                \/ VB!listPending \ attempted[n] = {})
    <3>1. pc'[n] = "rows"
      BY <1>10, <1>t, <2>3, OneVisionCardinality DEF VB!Scan, VB!Go
    <3>2. Looks'
      BY <3>1 DEF InBody
    <3> QED  BY <1>c, <1>r, <2>0, <3>2
  <2> QED  BY <2>1, <2>2, <2>3
<1>11. ASSUME NEW n \in VB!Runs, VB!NextRow(n) PROVE RestInv'
  <2>0. pc[n] = "rows" /\ UNCHANGED <<timer, aborted, halted>>
    BY <1>11 DEF VB!NextRow
  <2>1. CASE VB!isAborted
    <3>1. timer' \/ halted'
      BY <1>r, <2>0, <2>1 DEF VB!isAborted
    <3> QED  BY <1>c, <3>1
  <2>2. CASE ~ VB!isAborted
    <3>1. \/ UNCHANGED pc
          \/ pc' = [pc EXCEPT ![n] = "scanning"] \/ pc' = [pc EXCEPT ![n] = "asking"]
      BY <1>11, <2>2 DEF VB!NextRow, VB!Go
    <3>2. pc'[n] \in InBody
      BY <1>t, <2>0, <3>1 DEF InBody
    <3>3. Looks'
      BY <3>2
    <3> QED  BY <1>c, <1>r, <2>0, <3>3
  <2> QED  BY <2>1, <2>2
<1>12. ASSUME NEW n \in VB!Runs, VB!RowDescribed(n) \/ VB!RowFails(n) PROVE RestInv'
  <2>1. UNCHANGED <<timer, aborted, halted>> /\ pc'[n] = "rows"
    BY <1>12, <1>t DEF VB!RowDescribed, VB!RowFails, VB!Go
  <2>2. Looks'
    BY <2>1 DEF InBody
  <2> QED  BY <1>c, <1>r, <2>1, <2>2
<1>13. ASSUME NEW n \in VB!Runs, VB!Unlock(n) PROVE RestInv'
  <2>1. /\ UNCHANGED <<timer, aborted, halted, status, turn, expired, excused>>
        /\ pc[n] = "unlocking"
    BY <1>13 DEF VB!Unlock
  <2>2. Looks => Looks'
    <3> SUFFICES ASSUME NEW k \in VB!Runs, pc[k] \in {"starting"} \cup InBody PROVE Looks'
      OBVIOUS
    <3>1. k # n
      BY <2>1 DEF InBody
    <3>2. pc'[k] = pc[k]
      BY <1>13, <1>t, <3>1 DEF VB!Unlock, VB!Go
    <3> QED  BY <3>2
  <2>3. All => All'
    BY <1>a, <1>same, <1>t, <2>1
  <2> QED  BY <1>c, <1>r, <2>1, <2>2, <2>3
\* The live turns: what becomes a leftover is excused, unless the timer is armed.
<1>m. ASSUME UNCHANGED <<timer, aborted, halted, pc>>, excused \subseteq excused',
             excused' \subseteq VB!Rows,
             timer \/ \A r \in VB!Rows : VB!Leftover(r)' => VB!Leftover(r) \/ r \in excused'
      PROVE  RestInv'
  <2>1. Looks => Looks'
    BY <1>m
  <2>2. timer' \/ (All => All')
    BY <1>a, <1>m
  <2> HIDE DEF Looks
  <2> QED  BY <1>c, <1>r, <1>m, <2>1, <2>2
<1>14. ASSUME NEW a \in VB!Rows, VB!Arrive(a) PROVE RestInv'
  <2>1. UNCHANGED <<timer, aborted, halted, pc, excused>>
    BY <1>14 DEF VB!Arrive
  <2>2. \A r \in VB!Rows : VB!Leftover(r)' => VB!Leftover(r)
    <3>1. ~ expired[a] /\ turn'[a] = "queued" /\ UNCHANGED expired
      BY <1>14, <1>t DEF VB!Arrive, HoldInv
    <3>2. \A r \in VB!Rows : r # a => status'[r] = status[r] /\ turn'[r] = turn[r]
      BY <1>14, <1>t DEF VB!Arrive
    <3> QED  BY <3>1, <3>2 DEF VB!Leftover
  <2> QED  BY <1>m, <1>t, <2>1, <2>2
<1>15. ASSUME NEW a \in VB!Rows, VB!TurnStarts(a) PROVE RestInv'
  <2>1. CASE halted
    <3>1. UNCHANGED <<timer, aborted, halted, pc, excused>>
      BY <1>15, <2>1 DEF VB!TurnStarts, VB!OnActivity
    <3>2. \A r \in VB!Rows : VB!Leftover(r)' => VB!Leftover(r)
      BY <1>15, <1>t DEF VB!TurnStarts, VB!Leftover
    <3> QED  BY <1>m, <1>t, <3>1, <3>2
  <2>2. CASE ~ halted
    <3>1. timer'
      BY <1>15, <2>2 DEF VB!TurnStarts, VB!OnActivity, VB!Schedule
    <3> QED  BY <1>c, <3>1
  <2> QED  BY <2>1, <2>2
<1>16. ASSUME NEW a \in VB!Rows, VB!TurnDescribes(a) PROVE RestInv'
  <2>1. UNCHANGED <<timer, aborted, halted, pc, excused, expired>>
    BY <1>16 DEF VB!TurnDescribes
  <2>2. \A r \in VB!Rows : status'[r] = "pending" => status[r] = "pending"
    BY <1>16, <1>t DEF VB!TurnDescribes, VB!MarkDescribed
  <2>3. \A r \in VB!Rows : turn'[r] = "over" => turn[r] = "over"
    BY <1>16, <1>t DEF VB!TurnDescribes
  <2>4. \A r \in VB!Rows : VB!Leftover(r)' => VB!Leftover(r)
    BY <2>1, <2>2, <2>3 DEF VB!Leftover
  <2> QED  BY <1>m, <1>t, <2>1, <2>4
<1>17. ASSUME NEW a \in VB!Rows, NEW q \in VB!Rows, VB!TurnFails(a) \/ VB!TurnAsks(a, q)
       PROVE  RestInv'
  <2>1. UNCHANGED <<timer, aborted, halted, pc, excused, expired, status>>
    BY <1>17 DEF VB!TurnFails, VB!TurnAsks
  <2>2. \A r \in VB!Rows : turn'[r] = "over" => turn[r] = "over"
    BY <1>17, <1>t DEF VB!TurnFails, VB!TurnAsks
  <2>3. \A r \in VB!Rows : VB!Leftover(r)' => VB!Leftover(r)
    BY <2>1, <2>2 DEF VB!Leftover
  <2> QED  BY <1>m, <1>t, <2>1, <2>3
<1>18. ASSUME NEW a \in VB!Rows, VB!TurnSettles(a) \/ VB!HoldExpires(a) PROVE RestInv'
  <2>1. /\ UNCHANGED <<timer, aborted, halted, pc, status>>
        /\ excused' = IF timer THEN excused ELSE excused \cup {a}
    BY <1>18 DEF VB!TurnSettles, VB!HoldExpires
  <2>2. \A r \in VB!Rows : r # a => turn'[r] = turn[r] /\ expired'[r] = expired[r]
    BY <1>18, <1>t DEF VB!TurnSettles, VB!HoldExpires
  <2>3. \A r \in VB!Rows : r # a => (VB!Leftover(r)' => VB!Leftover(r))
    BY <2>1, <2>2 DEF VB!Leftover
  <2>4. ~ timer => a \in excused'
    BY <2>1
  <2>5. excused \subseteq excused' /\ excused' \subseteq VB!Rows
    BY <1>t, <2>1
  <2> QED  BY <1>m, <2>1, <2>3, <2>4, <2>5
<1> QED
  BY <1>1, <1>2, <1>3, <1>4, <1>5, <1>6, <1>7, <1>8, <1>9, <1>10, <1>11, <1>12, <1>13, <1>14,
     <1>15, <1>16, <1>17, <1>18 DEF VB!Next, VB!RunStep

\* What holds of the runs and the turns throughout.
LEMMA VisionHolds == IdleSpec => [](VisionInv /\ TriedInv)
<1>1. IdleInit => VisionInv /\ TriedInv
  BY InitVision DEF IdleInit
<1>2. VisionInv /\ TriedInv /\ [IdleNext]_idleVars => VisionInv' /\ TriedInv'
  BY IdleMoves, StepVisionTypes, StepLock, StepHold, StepBatch, StepTold, StepTried
     DEF VisionInv
<1> QED  BY <1>1, <1>2, PTL DEF IdleSpec

\* One run of the backfill describes at a time (the advisory lock of lock.ts), and never
\* a picture a live turn still holds (listPendingMedia), and every turn is told the
\* description the store keeps (the conditional update of markDescribed), unless it lost
\* the race for a picture and failed to read the winner's text.
THEOREM OneDescriptionToldHolds == IdleSpec => []OneDescriptionTold
<1>1. ASSUME VisionInv PROVE VB!VisionTypeOK /\ VB!AloneOnItsRows /\ VB!AnswersAgree
  <2> USE <1>1 DEF VisionInv
  <2>1. VB!VisionTypeOK
    <3>1. lock # VB!None => lock \in VB!Runs /\ pc[lock] \in VB!InLock
      BY DEF VisionTypes, LockInv
    <3> QED  BY <3>1 DEF VisionTypes, VB!VisionTypeOK
  <2>2. VB!OneBody
    BY DEF LockInv, VB!OneBody
  <2>3. VB!SparesLiveTurns
    <3> SUFFICES ASSUME NEW n \in VB!Runs, pc[n] = "asking"
                 PROVE  turn[VB!asked(n)] = "over" \/ expired[VB!asked(n)]
      BY DEF VB!SparesLiveTurns
    <3>1. fetched[n] \subseteq VB!Rows /\ fetched[n] # {}
      BY DEF VisionTypes, FetchInv
    <3>2. VB!asked(n) \in fetched[n]
      BY <3>1, AskedOne
    <3> QED  BY <3>2 DEF FetchInv
  <2>4. VB!AnswersAgree
    BY DEF ToldInv, VB!AnswersAgree
  <2> QED  BY <2>1, <2>2, <2>3, <2>4 DEF VB!AloneOnItsRows
<1>2. VisionInv => OneDescriptionTold
  BY <1>1 DEF OneDescriptionTold
<1> QED  BY <1>2, VisionHolds, PTL

\* When the scheduler of idle-scheduler.ts rests, a picture left pending is one the
\* backfill tried, one behind a whole batch of such, one that became eligible when no
\* run was to come, or one a run left when it was skipped or a query failed: where one
\* run may take up every picture (MAX_ROWS_PER_RUN).
THEOREM NothingForgottenHolds ==
  ASSUME NRows <= MaxRows
  PROVE  IdleSpec => []NothingForgotten
<1>1. IdleInit => RestInv
  BY InitVision DEF IdleInit
<1>2. VisionInv /\ TriedInv /\ RestInv /\ [IdleNext]_idleVars => RestInv'
  BY IdleMoves, StepRest
<1>3. RestInv => NothingForgotten
  <2> SUFFICES ASSUME RestInv, VB!Resting, NEW r \in VB!Rows, VB!Leftover(r), r \notin excused
               PROVE  VB!Cardinality({q \in excused : q < r}) >= VisionBatch
    BY DEF NothingForgotten, VB!NothingForgotten
  <2>1. ~ timer /\ ~ halted /\ \A n \in VB!Runs : pc[n] \notin {"starting"} \cup InBody
    BY DEF VB!Resting, InBody
  <2>2. Accounted(r)
    BY <2>1 DEF RestInv
  <2> QED  BY <2>2, OneVisionCardinality DEF Accounted, Before
<1> QED  BY <1>1, <1>2, <1>3, VisionHolds, PTL DEF IdleSpec

-----------------------------------------------------------------------------
(***************************************************************************)
(* A queue of waiting calls: q holds each call of the kind that waits in   *)
(* the states st, once, and no other call.                                 *)
(***************************************************************************)
QueueOf(q, kind, st) ==
  /\ q \in Seq(kind)
  /\ \A k \in DOMAIN q : st[q[k]] = "waiting"
  /\ \A k, l \in DOMAIN q : q[k] = q[l] => k = l
  /\ \A c \in kind : st[c] = "waiting" => \E k \in DOMAIN q : q[k] = c

\* A call that starts to wait is appended.
LEMMA QueueAppend ==
  ASSUME NEW kind, NEW q, NEW st, NEW st2, NEW c \in kind,
         QueueOf(q, kind, st), st[c] # "waiting", st2[c] = "waiting",
         \A d \in kind : d # c => st2[d] = st[d]
  PROVE  QueueOf(Append(q, c), kind, st2)
<1> DEFINE r == Append(q, c)
<1>1. /\ r \in Seq(kind) /\ DOMAIN r = 1 .. Len(q) + 1 /\ DOMAIN q = 1 .. Len(q)
      /\ \A k \in 1 .. Len(q) : r[k] = q[k] /\ q[k] \in kind
      /\ r[Len(q) + 1] = c /\ Len(q) \in Nat
  BY DEF QueueOf
<1>2. \A k \in 1 .. Len(q) : q[k] # c BY <1>1 DEF QueueOf
<1> HIDE DEF r
<1>3. \A k \in DOMAIN r : st2[r[k]] = "waiting" BY <1>1, <1>2 DEF QueueOf
<1>4. \A k, l \in DOMAIN r : r[k] = r[l] => k = l BY <1>1, <1>2 DEF QueueOf
<1>5. \A d \in kind : st2[d] = "waiting" => \E k \in DOMAIN r : r[k] = d
  <2> SUFFICES ASSUME NEW d \in kind, st2[d] = "waiting" PROVE \E k \in DOMAIN r : r[k] = d
    OBVIOUS
  <2>1. CASE d = c BY <1>1, <2>1
  <2>2. CASE d # c
    <3>1. PICK k \in DOMAIN q : q[k] = d BY <2>2 DEF QueueOf
    <3> QED BY <1>1, <3>1
  <2> QED BY <2>1, <2>2
<1> QED BY <1>1, <1>3, <1>4, <1>5 DEF QueueOf, r

\* The oldest call stops waiting, and no other call of the kind does or starts to.
LEMMA QueueTail ==
  ASSUME NEW kind, NEW q, NEW st, NEW st2, q # <<>>,
         QueueOf(q, kind, st), st2[Head(q)] # "waiting",
         \A d \in kind : d # Head(q) => (st2[d] = "waiting" <=> st[d] = "waiting")
  PROVE  QueueOf(Tail(q), kind, st2)
<1> DEFINE r == Tail(q)
<1>1. /\ r \in Seq(kind) /\ DOMAIN r = 1 .. Len(q) - 1 /\ DOMAIN q = 1 .. Len(q)
      /\ Len(q) \in Nat /\ Len(q) > 0 /\ Head(q) = q[1]
      /\ \A k \in 1 .. Len(q) - 1 : r[k] = q[k + 1]
      /\ \A k \in 1 .. Len(q) : q[k] \in kind
  BY DEF QueueOf
<1>2. \A k \in 2 .. Len(q) : q[k] # q[1] BY <1>1 DEF QueueOf
<1> HIDE DEF r
<1>3. \A k \in DOMAIN r : st2[r[k]] = "waiting"
  <2> SUFFICES ASSUME NEW k \in DOMAIN r PROVE st2[q[k + 1]] = "waiting" BY <1>1
  <2>1. k + 1 \in DOMAIN q /\ q[k + 1] # Head(q) /\ q[k + 1] \in kind BY <1>1, <1>2
  <2> QED BY <2>1 DEF QueueOf
<1>4. \A k, l \in DOMAIN r : r[k] = r[l] => k = l
  <2> SUFFICES ASSUME NEW k \in DOMAIN r, NEW l \in DOMAIN r, r[k] = r[l] PROVE k = l
    OBVIOUS
  <2>1. k + 1 \in DOMAIN q /\ l + 1 \in DOMAIN q /\ q[k + 1] = q[l + 1] BY <1>1
  <2>2. k + 1 = l + 1 BY <2>1 DEF QueueOf
  <2> QED BY <1>1, <2>2
<1>5. \A d \in kind : st2[d] = "waiting" => \E k \in DOMAIN r : r[k] = d
  <2> SUFFICES ASSUME NEW d \in kind, st2[d] = "waiting" PROVE \E k \in DOMAIN r : r[k] = d
    OBVIOUS
  <2>1. d # Head(q) OBVIOUS
  <2>2. PICK k \in DOMAIN q : q[k] = d BY <2>1 DEF QueueOf
  <2>3. k - 1 \in DOMAIN r /\ r[k - 1] = d BY <1>1, <2>1, <2>2
  <2> QED BY <2>3
<1> QED BY <1>1, <1>3, <1>4, <1>5 DEF QueueOf, r

\* No call of the kind starts or stops waiting.
LEMMA QueueSame ==
  ASSUME NEW kind, NEW q, NEW st, NEW st2, QueueOf(q, kind, st),
         \A d \in kind : st2[d] = "waiting" <=> st[d] = "waiting"
  PROVE  QueueOf(q, kind, st2)
<1>1. \A k \in DOMAIN q : q[k] \in kind BY DEF QueueOf
<1>2. \A k \in DOMAIN q : st2[q[k]] = "waiting" BY <1>1 DEF QueueOf
<1> QED BY <1>2 DEF QueueOf

\* The oldest call of a queue waits.
LEMMA QueueHead ==
  ASSUME NEW kind, NEW q, NEW st, QueueOf(q, kind, st), q # <<>>
  PROVE  Head(q) \in kind /\ st[Head(q)] = "waiting"
<1>1. 1 \in DOMAIN q /\ Head(q) = q[1] /\ q[1] \in kind BY DEF QueueOf
<1> QED BY <1>1 DEF QueueOf

(***************************************************************************)
(* The inductive invariant: the counter and the flag agree with the calls  *)
(* on the wire, each queue with its waiting calls, and no wake-up is lost. *)
(***************************************************************************)
OnWire(st) == {i \in Interactive : st[i] = "running"}
WokenIn(st) == {i \in Interactive : st[i] = "woken"}

Counted ==
  /\ state \in [Calls -> States]
  /\ interactiveInFlight = Cardinality(OnWire(state))
  /\ interactiveInFlight <= Cap

Flagged ==
  /\ backgroundBusy \in BOOLEAN
  /\ \A b, d \in Background : state[b] = "running" /\ state[d] = "running" => b = d
  /\ backgroundBusy <=> \E b \in Background : state[b] = "running"

Queued ==
  /\ QueueOf(waiters, Background, state)
  /\ QueueOf(interactiveWaiters, Interactive, state)

PeopleAwake ==
  interactiveWaiters # <<>> => interactiveInFlight + Cardinality(WokenIn(state)) >= Cap

BackgroundAwake ==
  waiters # <<>> =>
    interactiveInFlight > 0 \/ backgroundBusy \/ \E c \in Calls : state[c] = "woken"

IInv == Counted /\ Flagged /\ Queued /\ PeopleAwake /\ BackgroundAwake

\* The subsets of the finite set of interactive calls, and what one call more or
\* less does to their size.
LEMMA Sizes ==
  ASSUME NEW S \in SUBSET Interactive
  PROVE  /\ IsFiniteSet(S) /\ Cardinality(S) \in Nat
         /\ \A i \in Interactive \ S : Cardinality(S \cup {i}) = Cardinality(S) + 1
         /\ \A i \in S : Cardinality(S \ {i}) = Cardinality(S) - 1 /\ Cardinality(S) > 0
<1>1. IsFiniteSet(S) /\ Cardinality(S) \in Nat
  BY GateAssumption, FS_Subset, FS_CardinalityType
<1>2. \A i \in Interactive \ S : Cardinality(S \cup {i}) = Cardinality(S) + 1
  BY <1>1, FS_AddElement
<1>3. ASSUME NEW i \in S PROVE Cardinality(S \ {i}) = Cardinality(S) - 1 /\ Cardinality(S) > 0
  <2>1. Cardinality(S \ {i}) = Cardinality(S) - 1 BY <1>1, FS_RemoveElement
  <2>2. Cardinality(S) # 0 BY <1>1, FS_EmptySet
  <2> QED BY <1>1, <2>1, <2>2
<1> QED BY <1>1, <1>2, <1>3

LEMMA Initially == ASSUME GateInit PROVE IInv
<1>1. OnWire(state) = {} /\ WokenIn(state) = {} BY DEF GateInit, OnWire, WokenIn, Calls
<1>2. Counted
  <2>1. Cardinality(OnWire(state)) = 0 BY <1>1, FS_EmptySet
  <2>2. state \in [Calls -> States] BY DEF GateInit, States
  <2> QED BY <2>1, <2>2, GateAssumption DEF GateInit, Counted
<1>3. Flagged BY Zenon DEF GateInit, Flagged, Calls
<1>4. Queued
  <2>1. \A c \in Calls : state[c] # "waiting" BY DEF GateInit
  <2> QED BY <2>1 DEF GateInit, Queued, QueueOf, Calls
<1> QED BY <1>2, <1>3, <1>4 DEF GateInit, IInv, PeopleAwake, BackgroundAwake

\* A call at the gate neither waits nor runs.
LEMMA AtTheGate ==
  ASSUME IInv, NEW c \in Calls, AtGate(c)
  PROVE  state[c] # "waiting" /\ state[c] # "running" /\ state \in [Calls -> States]
BY DEF IInv, Counted, AtGate

LEMMA QueueInteractiveStep ==
  ASSUME IInv, NEW i \in Interactive, QueueInteractive(i)
  PROVE  IInv'
<1>1. /\ i \in Calls /\ i \notin Background /\ Background \subseteq Calls /\ Interactive \subseteq Calls
  BY GateAssumption DEF Calls
<1>2. /\ state[i] # "waiting" /\ state[i] # "running" /\ state \in [Calls -> States]
  BY <1>1, AtTheGate DEF QueueInteractive
<1>3. /\ state' \in [Calls -> States] /\ state'[i] = "waiting"
      /\ \A c \in Calls : c # i => state'[c] = state[c]
  BY <1>1, <1>2 DEF QueueInteractive, States
<1>4. Counted'
  <2>1. OnWire(state') = OnWire(state) BY <1>1, <1>2, <1>3 DEF OnWire
  <2> QED BY <1>3, <2>1 DEF IInv, Counted, QueueInteractive
<1>5. Flagged'
  <2>1. \A b \in Background : state'[b] = state[b] BY <1>1, <1>3
  <2>2. backgroundBusy' = backgroundBusy BY DEF QueueInteractive
  <2> QED BY <2>1, <2>2, Zenon DEF IInv, Flagged
<1>6. Queued'
  <2>1. QueueOf(waiters, Background, state') BY <1>1, <1>3, QueueSame DEF IInv, Queued
  <2>2. QueueOf(Append(interactiveWaiters, i), Interactive, state')
    BY <1>1, <1>2, <1>3, QueueAppend DEF IInv, Queued
  <2> QED BY <2>1, <2>2 DEF QueueInteractive, Queued
<1>7. interactiveInFlight' = interactiveInFlight /\ interactiveInFlight >= Cap
  BY DEF QueueInteractive, Full
<1>8. PeopleAwake'
  <2>1. Cardinality(WokenIn(state')) \in Nat BY Sizes DEF WokenIn
  <2>2. interactiveInFlight \in Nat BY Sizes DEF IInv, Counted, OnWire
  <2> QED BY <1>7, <2>1, <2>2, GateAssumption DEF PeopleAwake
<1>9. BackgroundAwake'
  <2>1. interactiveInFlight' > 0
    <3>1. interactiveInFlight \in Nat BY Sizes DEF IInv, Counted, OnWire
    <3> QED BY <1>7, <3>1, GateAssumption
  <2> QED BY <2>1 DEF BackgroundAwake
<1> QED BY <1>4, <1>5, <1>6, <1>8, <1>9 DEF IInv

LEMMA DispatchInteractiveStep ==
  ASSUME IInv, NEW i \in Interactive, DispatchInteractive(i)
  PROVE  IInv'
<1>1. /\ i \in Calls /\ i \notin Background /\ Background \subseteq Calls /\ Interactive \subseteq Calls
  BY GateAssumption DEF Calls
<1>2. /\ state[i] # "waiting" /\ state[i] # "running" /\ state \in [Calls -> States]
  BY <1>1, AtTheGate DEF DispatchInteractive
<1>3. /\ state' \in [Calls -> States] /\ state'[i] = "running"
      /\ \A c \in Calls : c # i => state'[c] = state[c]
  BY <1>1, <1>2 DEF DispatchInteractive, States
<1>4. interactiveInFlight \in Nat BY Sizes DEF IInv, Counted, OnWire
<1>5. interactiveInFlight' = interactiveInFlight + 1 /\ interactiveInFlight < Cap
  BY <1>4, GateAssumption DEF DispatchInteractive, Full
<1>6. Counted'
  <2>1. OnWire(state') = OnWire(state) \cup {i} BY <1>1, <1>3 DEF OnWire
  <2>2. i \in Interactive \ OnWire(state) BY <1>2 DEF OnWire
  <2>3. Cardinality(OnWire(state')) = Cardinality(OnWire(state)) + 1
    BY <2>1, <2>2, Sizes DEF OnWire
  <2> QED BY <1>3, <1>4, <1>5, <2>3, GateAssumption DEF IInv, Counted
<1>7. Flagged'
  <2>1. \A b \in Background : state'[b] = state[b] BY <1>1, <1>3
  <2>2. backgroundBusy' = backgroundBusy BY DEF DispatchInteractive
  <2> QED BY <2>1, <2>2, Zenon DEF IInv, Flagged
<1>8. Queued'
  <2>1. QueueOf(waiters, Background, state') BY <1>1, <1>3, QueueSame DEF IInv, Queued
  <2>2. QueueOf(interactiveWaiters, Interactive, state')
    BY <1>1, <1>2, <1>3, QueueSame DEF IInv, Queued
  <2> QED BY <2>1, <2>2 DEF DispatchInteractive, Queued
<1>9. PeopleAwake'
  <2>1. WokenIn(state') = WokenIn(state) \ {i} BY <1>1, <1>3 DEF WokenIn
  <2>2. Cardinality(WokenIn(state)) <= Cardinality(WokenIn(state')) + 1
    <3>1. CASE i \in WokenIn(state) BY <2>1, <3>1, Sizes DEF WokenIn
    <3>2. CASE i \notin WokenIn(state)
      <4>1. WokenIn(state') = WokenIn(state) BY <2>1, <3>2
      <4>2. Cardinality(WokenIn(state)) \in Nat BY Sizes DEF WokenIn
      <4> QED BY <4>1, <4>2
    <3> QED BY <3>1, <3>2
  <2>3. Cardinality(WokenIn(state)) \in Nat /\ Cardinality(WokenIn(state')) \in Nat
    BY Sizes DEF WokenIn
  <2>4. interactiveWaiters' = interactiveWaiters BY DEF DispatchInteractive
  <2> QED BY <1>4, <1>5, <2>2, <2>3, <2>4, GateAssumption DEF IInv, PeopleAwake
<1>10. BackgroundAwake' BY <1>4, <1>5 DEF BackgroundAwake
<1> QED BY <1>6, <1>7, <1>8, <1>9, <1>10 DEF IInv

LEMMA QueueBackgroundStep ==
  ASSUME IInv, NEW b \in Background, QueueBackground(b)
  PROVE  IInv'
<1>1. /\ b \in Calls /\ b \notin Interactive /\ Background \subseteq Calls /\ Interactive \subseteq Calls
  BY GateAssumption DEF Calls
<1>2. /\ state[b] # "waiting" /\ state[b] # "running" /\ state \in [Calls -> States]
  BY <1>1, AtTheGate DEF QueueBackground
<1>3. /\ state' \in [Calls -> States] /\ state'[b] = "waiting"
      /\ \A c \in Calls : c # b => state'[c] = state[c]
  BY <1>1, <1>2 DEF QueueBackground, States
<1>4. OnWire(state') = OnWire(state) /\ WokenIn(state') = WokenIn(state)
  BY <1>1, <1>3 DEF OnWire, WokenIn
<1>5. Counted' BY <1>3, <1>4 DEF IInv, Counted, QueueBackground
<1>6. Flagged'
  <2>1. \A d \in Background : state'[d] = "running" <=> state[d] = "running" BY <1>1, <1>2, <1>3
  <2>2. backgroundBusy' = backgroundBusy BY DEF QueueBackground
  <2> QED BY <2>1, <2>2, Zenon DEF IInv, Flagged
<1>7. Queued'
  <2>1. QueueOf(interactiveWaiters, Interactive, state') BY <1>1, <1>3, QueueSame DEF IInv, Queued
  <2>2. QueueOf(Append(waiters, b), Background, state')
    BY <1>1, <1>2, <1>3, QueueAppend DEF IInv, Queued
  <2> QED BY <2>1, <2>2 DEF QueueBackground, Queued
<1>8. PeopleAwake' BY <1>4 DEF IInv, PeopleAwake, QueueBackground
<1>9. BackgroundAwake' BY Zenon DEF BackgroundAwake, QueueBackground, NotQuiet
<1> QED BY <1>5, <1>6, <1>7, <1>8, <1>9 DEF IInv

LEMMA DispatchBackgroundStep ==
  ASSUME IInv, NEW b \in Background, DispatchBackground(b)
  PROVE  IInv'
<1>1. /\ b \in Calls /\ b \notin Interactive /\ Background \subseteq Calls /\ Interactive \subseteq Calls
  BY GateAssumption DEF Calls
<1>2. /\ state[b] # "waiting" /\ state[b] # "running" /\ state \in [Calls -> States]
  BY <1>1, AtTheGate DEF DispatchBackground
<1>3. /\ state' \in [Calls -> States] /\ state'[b] = "running"
      /\ \A c \in Calls : c # b => state'[c] = state[c]
  BY <1>1, <1>2 DEF DispatchBackground, States
<1>4. OnWire(state') = OnWire(state) /\ WokenIn(state') = WokenIn(state)
  BY <1>1, <1>3 DEF OnWire, WokenIn
<1>5. Counted' BY <1>3, <1>4 DEF IInv, Counted, DispatchBackground
<1>6. Flagged'
  <2>1. \A d \in Background : state[d] # "running"
    BY Zenon DEF IInv, Flagged, DispatchBackground, NotQuiet
  <2>2. \A d \in Background : state'[d] = "running" <=> d = b BY <1>1, <1>3, <2>1
  <2>3. backgroundBusy' = TRUE BY DEF DispatchBackground
  <2> QED BY <2>2, <2>3, Zenon DEF Flagged
<1>7. Queued'
  <2>1. QueueOf(interactiveWaiters, Interactive, state') BY <1>1, <1>3, QueueSame DEF IInv, Queued
  <2>2. QueueOf(waiters, Background, state') BY <1>1, <1>2, <1>3, QueueSame DEF IInv, Queued
  <2> QED BY <2>1, <2>2 DEF DispatchBackground, Queued
<1>8. PeopleAwake' BY <1>4 DEF IInv, PeopleAwake, DispatchBackground
<1>9. BackgroundAwake' BY Zenon DEF BackgroundAwake, DispatchBackground
<1> QED BY <1>5, <1>6, <1>7, <1>8, <1>9 DEF IInv

(***************************************************************************)
(* releaseNext: what it does to the states and the queues, whatever call c *)
(* has just left the wire.                                                 *)
(***************************************************************************)
LEMMA Released ==
  ASSUME IInv, NEW c \in Calls, state[c] = "running", ReleaseNext(c)
  PROVE  /\ state' \in [Calls -> States] /\ state'[c] = "done"
         /\ \A d \in Calls : state'[d] = "running" <=> state[d] = "running" /\ d # c
         /\ \A d \in Calls : state[d] = "woken" => state'[d] = "woken"
         /\ Queued'
         /\ interactiveWaiters' = interactiveWaiters \/
              \E h \in Interactive : /\ state[h] # "woken" /\ state'[h] = "woken"
                                     /\ \A d \in Interactive \ {h} :
                                          state'[d] = "woken" => state[d] = "woken"
                                     /\ interactiveWaiters # <<>>
         /\ interactiveInFlight' >= Cap \/ interactiveWaiters = <<>> \/
              \E h \in Interactive : state[h] # "woken" /\ state'[h] = "woken"
         /\ interactiveInFlight' > 0 \/ backgroundBusy' \/ waiters' = <<>> \/
              \E d \in Calls : state'[d] = "woken"
<1> DEFINE h == Head(interactiveWaiters)
           g == Head(waiters)
<1>1. /\ Background \subseteq Calls /\ Interactive \subseteq Calls
      /\ Interactive \cap Background = {} /\ state \in [Calls -> States]
  BY GateAssumption DEF Calls, IInv, Counted
<1>2. QueueOf(waiters, Background, state) /\ QueueOf(interactiveWaiters, Interactive, state)
  BY DEF IInv, Queued
<1>3. CASE /\ interactiveInFlight' < Cap /\ interactiveWaiters # <<>>
           /\ state' = [state EXCEPT ![c] = "done", ![h] = "woken"]
           /\ interactiveWaiters' = Tail(interactiveWaiters)
           /\ UNCHANGED waiters
  <2>1. h \in Interactive /\ state[h] = "waiting" BY <1>2, <1>3, QueueHead
  <2> HIDE DEF h
  <2>2. /\ state' \in [Calls -> States] /\ state'[c] = "done" /\ state'[h] = "woken"
        /\ \A d \in Calls : d # c /\ d # h => state'[d] = state[d]
    BY <1>1, <1>3, <2>1 DEF States
  <2>3. QueueOf(Tail(interactiveWaiters), Interactive, state')
    BY <1>1, <1>2, <1>3, <2>2, QueueTail DEF h
  <2>4. QueueOf(waiters, Background, state') BY <1>1, <1>2, <2>1, <2>2, QueueSame
  <2>5. Queued' BY <1>3, <2>3, <2>4 DEF Queued
  <2> QED BY <1>1, <1>3, <2>1, <2>2, <2>5
<1>4. CASE /\ interactiveInFlight' >= Cap \/ interactiveWaiters = <<>>
           /\ waiters # <<>>
           /\ state' = [state EXCEPT ![c] = "done", ![g] = "woken"]
           /\ waiters' = Tail(waiters)
           /\ UNCHANGED interactiveWaiters
  <2>1. g \in Background /\ state[g] = "waiting" BY <1>2, <1>4, QueueHead
  <2> HIDE DEF g
  <2>2. /\ state' \in [Calls -> States] /\ state'[c] = "done" /\ state'[g] = "woken"
        /\ \A d \in Calls : d # c /\ d # g => state'[d] = state[d]
    BY <1>1, <1>4, <2>1 DEF States
  <2>3. QueueOf(Tail(waiters), Background, state')
    BY <1>1, <1>2, <1>4, <2>2, QueueTail DEF g
  <2>4. QueueOf(interactiveWaiters, Interactive, state') BY <1>1, <1>2, <2>1, <2>2, QueueSame
  <2>5. Queued' BY <1>4, <2>3, <2>4 DEF Queued
  <2> QED BY <1>1, <1>4, <2>1, <2>2, <2>5
<1>5. CASE /\ interactiveInFlight' >= Cap \/ interactiveWaiters = <<>>
           /\ interactiveInFlight' > 0 \/ backgroundBusy' \/ waiters = <<>>
           /\ state' = [state EXCEPT ![c] = "done"]
           /\ UNCHANGED <<waiters, interactiveWaiters>>
  <2>1. /\ state' \in [Calls -> States] /\ state'[c] = "done"
        /\ \A d \in Calls : d # c => state'[d] = state[d]
    BY <1>1, <1>5 DEF States
  <2>2. QueueOf(waiters, Background, state') BY <1>1, <1>2, <2>1, QueueSame
  <2>3. QueueOf(interactiveWaiters, Interactive, state') BY <1>1, <1>2, <2>1, QueueSame
  <2>4. Queued' BY <1>5, <2>2, <2>3 DEF Queued
  <2> QED BY <1>5, <2>1, <2>4, Zenon
<1> QED BY <1>3, <1>4, <1>5, Zenon DEF ReleaseNext

\* One call less on the wire, one more awake: the two together are no fewer.
LEMMA Sums ==
  ASSUME NEW a \in Nat, NEW a2 \in Nat, NEW b \in Nat, NEW b2 \in Nat, NEW n \in Nat,
         a2 + 1 >= a, b + 1 <= b2, a + b >= n
  PROVE  a2 + b2 >= n
OBVIOUS

\* A release leaves nobody asleep: it may wake a call before the slot of c is
\* taken, so the interactive calls on the wire and the woken ones still fill it.
LEMMA ReleasedPeople ==
  ASSUME IInv, NEW c \in Calls, state[c] = "running", ReleaseNext(c),
         interactiveInFlight' \in Nat, interactiveInFlight' + 1 >= interactiveInFlight
  PROVE  PeopleAwake' /\ BackgroundAwake'
<1>1. BackgroundAwake' BY Released, Zenon DEF BackgroundAwake
<1>2. PeopleAwake'
  <2> SUFFICES ASSUME interactiveWaiters' # <<>>
               PROVE  interactiveInFlight' + Cardinality(WokenIn(state')) >= Cap
    BY DEF PeopleAwake
  <2>1. Cardinality(WokenIn(state)) \in Nat /\ Cardinality(WokenIn(state')) \in Nat
    BY Sizes DEF WokenIn
  <2>2. interactiveWaiters # <<>> BY Released
  <2>3. interactiveInFlight \in Nat BY Sizes DEF IInv, Counted, OnWire
  <2>4. interactiveInFlight + Cardinality(WokenIn(state)) >= Cap
    BY <2>2 DEF IInv, PeopleAwake
  <2>5. CASE interactiveInFlight' >= Cap BY <2>1, <2>5, GateAssumption
  <2>6. ASSUME NEW h \in Interactive, state[h] # "woken", state'[h] = "woken"
        PROVE  interactiveInFlight' + Cardinality(WokenIn(state')) >= Cap
    <3>1. WokenIn(state) \cup {h} \subseteq WokenIn(state')
      BY <2>6, Released DEF WokenIn, Calls
    <3>2. Cardinality(WokenIn(state) \cup {h}) = Cardinality(WokenIn(state)) + 1
      BY <2>6, Sizes DEF WokenIn
    <3>3. IsFiniteSet(WokenIn(state')) BY Sizes DEF WokenIn
    <3>4. Cardinality(WokenIn(state) \cup {h}) <= Cardinality(WokenIn(state'))
      BY <3>1, <3>3, FS_Subset
    <3>5. Cardinality(WokenIn(state)) + 1 <= Cardinality(WokenIn(state')) BY <3>2, <3>4
    <3> QED BY <2>1, <2>3, <2>4, <3>5, Sums, GateAssumption
  <2> QED BY <2>2, <2>5, <2>6, Released
<1> QED BY <1>1, <1>2

LEMMA FinishInteractiveStep ==
  ASSUME IInv, NEW i \in Interactive, FinishInteractive(i)
  PROVE  IInv'
<1>1. /\ i \in Calls /\ i \notin Background /\ Background \subseteq Calls /\ Interactive \subseteq Calls
      /\ state[i] = "running" /\ ReleaseNext(i)
  BY GateAssumption DEF Calls, FinishInteractive
<1>2. i \in OnWire(state) BY <1>1 DEF OnWire
<1>3. interactiveInFlight \in Nat /\ interactiveInFlight > 0
  BY <1>2, Sizes DEF IInv, Counted, OnWire
<1>4. interactiveInFlight' = interactiveInFlight - 1 BY DEF FinishInteractive
<1>5. Counted'
  <2>1. OnWire(state') = OnWire(state) \ {i} BY <1>1, Released DEF OnWire
  <2>2. Cardinality(OnWire(state')) = Cardinality(OnWire(state)) - 1
    BY <1>2, <2>1, Sizes DEF OnWire
  <2>3. state' \in [Calls -> States] BY <1>1, Released
  <2> QED BY <1>3, <1>4, <2>2, <2>3, GateAssumption DEF IInv, Counted
<1>6. Flagged'
  <2>1. \A d \in Background : state'[d] = "running" <=> state[d] = "running" BY <1>1, Released
  <2>2. backgroundBusy' = backgroundBusy BY DEF FinishInteractive
  <2> QED BY <2>1, <2>2, Zenon DEF IInv, Flagged
<1>7. Queued' BY <1>1, Released
<1>8. PeopleAwake' /\ BackgroundAwake' BY <1>1, <1>3, <1>4, ReleasedPeople
<1> QED BY <1>5, <1>6, <1>7, <1>8 DEF IInv

LEMMA FinishBackgroundStep ==
  ASSUME IInv, NEW b \in Background, FinishBackground(b)
  PROVE  IInv'
<1>1. /\ b \in Calls /\ b \notin Interactive /\ Background \subseteq Calls /\ Interactive \subseteq Calls
      /\ state[b] = "running" /\ ReleaseNext(b)
  BY GateAssumption DEF Calls, FinishBackground
<1>2. interactiveInFlight \in Nat BY Sizes DEF IInv, Counted, OnWire
<1>3. interactiveInFlight' = interactiveInFlight BY DEF FinishBackground
<1>4. Counted'
  <2>1. OnWire(state') = OnWire(state) BY <1>1, Released DEF OnWire
  <2>2. state' \in [Calls -> States] BY <1>1, Released
  <2> QED BY <1>3, <2>1, <2>2 DEF IInv, Counted
<1>5. Flagged'
  <2>1. \A d \in Background : state[d] = "running" => d = b BY <1>1, Zenon DEF IInv, Flagged
  <2>2. \A d \in Background : state'[d] # "running" BY <1>1, <2>1, Released
  <2>3. backgroundBusy' = FALSE BY DEF FinishBackground
  <2> QED BY <2>2, <2>3, Zenon DEF Flagged
<1>6. Queued' BY <1>1, Released
<1>7. PeopleAwake' /\ BackgroundAwake' BY <1>1, <1>2, <1>3, ReleasedPeople
<1> QED BY <1>4, <1>5, <1>6, <1>7 DEF IInv

LEMMA Stutter == ASSUME IInv, UNCHANGED vars PROVE IInv'
<1>1. Counted' BY DEF IInv, Counted, OnWire, vars
<1>2. Flagged' BY Zenon DEF IInv, Flagged, vars
<1>3. Queued' BY DEF IInv, Queued, vars
<1>4. PeopleAwake' BY DEF IInv, PeopleAwake, WokenIn, vars
<1>5. BackgroundAwake' BY Zenon DEF IInv, BackgroundAwake, vars
<1> QED BY <1>1, <1>2, <1>3, <1>4, <1>5 DEF IInv

LEMMA Inductive == ASSUME IInv, [GateNext]_vars PROVE IInv'
BY QueueInteractiveStep, DispatchInteractiveStep, FinishInteractiveStep,
   QueueBackgroundStep, DispatchBackgroundStep, FinishBackgroundStep, Stutter, Zenon
   DEF GateNext, InteractiveStep, BackgroundStep

LEMMA AlwaysInv == GateSpec => []IInv
BY Initially, Inductive, PTL DEF GateSpec

\* At most Cap interactive calls are on the wire, and each queue holds calls of
\* its kind, for every set of calls and every cap.
THEOREM TypeCorrect == GateSpec => []TypeOK
<1>1. IInv => TypeOK
  <2> SUFFICES ASSUME IInv PROVE TypeOK OBVIOUS
  <2>1. state \in [Calls -> States] BY DEF IInv, Counted
  <2>2. interactiveInFlight \in 0 .. Cap
    <3>1. interactiveInFlight \in Nat BY Sizes DEF IInv, Counted, OnWire
    <3> QED BY <3>1, GateAssumption DEF IInv, Counted
  <2>3. backgroundBusy \in BOOLEAN BY Zenon DEF IInv, Flagged
  <2>4. waiters \in Seq(Background) /\ interactiveWaiters \in Seq(Interactive)
    BY DEF IInv, Queued, QueueOf
  <2> QED BY <2>1, <2>2, <2>3, <2>4 DEF TypeOK
<1> QED BY <1>1, AlwaysInv, PTL

\* The counter, the flag and the two queues of the store agree with the calls on
\* the wire and the calls that wait, whatever the order of wake-ups and newcomers.
THEOREM StoreAgreesHolds == GateSpec => []StoreAgrees
<1>1. IInv => StoreAgrees
  <2> SUFFICES ASSUME IInv PROVE StoreAgrees OBVIOUS
  <2>1. interactiveInFlight = Cardinality({i \in Interactive : state[i] = "running"})
    BY DEF IInv, Counted, OnWire
  <2>2. /\ \A b, d \in Background : state[b] = "running" /\ state[d] = "running" => b = d
        /\ backgroundBusy <=> \E b \in Background : state[b] = "running"
    BY Zenon DEF IInv, Flagged
  <2>3. ASSUME NEW c \in Calls
        PROVE  state[c] = "waiting" <=>
                 \E k \in DOMAIN waiters \cup DOMAIN interactiveWaiters :
                   \/ k \in DOMAIN waiters /\ waiters[k] = c
                   \/ k \in DOMAIN interactiveWaiters /\ interactiveWaiters[k] = c
    BY Zenon DEF IInv, Queued, QueueOf, Calls
  <2> QED BY <2>1, <2>2, <2>3, Zenon DEF StoreAgrees
<1> QED BY <1>1, AlwaysInv, PTL

\* No wake-up of releaseNext is lost to a call that comes between the wake-up and
\* the check of the woken call: while somebody waits, the slots are taken or
\* promised, or a call is there that will release the next.
THEOREM NoLostWakeupHolds == GateSpec => []NoLostWakeup
<1>1. IInv => NoLostWakeup
  <2> SUFFICES ASSUME IInv PROVE NoLostWakeup OBVIOUS
  <2>1. interactiveWaiters # <<>> =>
          interactiveInFlight + Cardinality(Woken(Interactive)) >= Cap
    BY DEF IInv, PeopleAwake, WokenIn, Woken
  <2>2. waiters # <<>> => NotQuiet \/ Woken(Calls) # {}
    <3>1. (\E c \in Calls : state[c] = "woken") => Woken(Calls) # {} BY DEF Woken
    <3> QED BY <3>1, Zenon DEF IInv, BackgroundAwake, NotQuiet
  <2> QED BY <2>1, <2>2 DEF NoLostWakeup
<1> QED BY <1>1, AlwaysInv, PTL
=============================================================================
