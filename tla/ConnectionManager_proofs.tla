----------------------- MODULE ConnectionManager_proofs -----------------------
(***************************************************************************)
(* Theorems about ConnectionManager, for every set of configurations and   *)
(* every number of changes and failures.                                   *)
(***************************************************************************)
EXTENDS ConnectionManager, TLAPS

(***************************************************************************)
(* The inductive invariant.  An entry is made only after the row was off   *)
(* or has just been created, so there are no more entries than changes     *)
(* allow; an attempt not made yet is "none"; a connection an entry holds   *)
(* is not one that is still being started.                                 *)
(***************************************************************************)
Rows ==
  /\ queued <= changes + 1
  /\ entries <= changes + 1
  /\ row = 0 \/ want = "off" \/ reconciler = "removing" => entries <= changes
  /\ reconciler = "removing" => row # 0
  /\ row <= entries

Fresh == \A n \in Attempts : n > attempts => attempt[n] = "none"

HeldIsUp ==
  \A e \in Entries : held[e] # 0 => attempt[held[e]] \notin InFlight \cup {"none"}

InvK == TypeOK /\ Rows /\ Fresh /\ HeldIsUp /\ NoRetryUnwanted /\ RetryKept

LEMMA Bounds ==
  /\ MaxChanges \in Nat /\ MaxFailures \in Nat
  /\ Attempts = 1 .. (1 + MaxChanges + MaxFailures)
  /\ Entries = 1 .. (1 + MaxChanges)
  /\ 0 \notin Attempts /\ Attempts \subseteq Nat /\ Entries \subseteq Nat /\ 0 \notin Entries
BY ManagerAssumption DEF Attempts, Entries

LEMMA InvInit == ASSUME Init PROVE InvK
<1> USE Bounds
<1>1. TypeOK
  <2>1. /\ attempt \in [Attempts -> AttemptStates] /\ status \in [Entries -> Statuses]
        /\ desired \in [Entries -> BOOLEAN] /\ timer \in [Entries -> BOOLEAN]
    BY DEF Init, AttemptStates, Statuses
  <2>2. /\ startedWith \in [Entries -> Configs \cup {"off"}]
        /\ configOf \in [Attempts -> Configs \cup {"off"}]
        /\ held \in [Entries -> Attempts \cup {0}]
        /\ entryOf \in [Attempts -> Entries \cup {0}]
        /\ replaces \in [Attempts -> Attempts \cup {0}]
    BY DEF Init
  <2>3. closed \in BOOLEAN /\ missed \in BOOLEAN BY DEF Init
  <2>4. /\ queued \in 0 .. MaxChanges + 1 /\ changes \in 0 .. MaxChanges
        /\ failures \in 0 .. MaxFailures /\ entries \in 0 .. 1 + MaxChanges
        /\ attempts \in 0 .. 1 + MaxChanges + MaxFailures
    BY DEF Init
  <2>5. /\ want \in Configs \cup {"off"} /\ reconciler = "idle" /\ awaits = 0 /\ row = 0
        /\ overlapped = {}
    BY DEF Init
  <2> QED BY <2>1, <2>2, <2>3, <2>4, <2>5 DEF TypeOK
<1>2. Fresh BY DEF Init, Fresh
<1>3. HeldIsUp BY DEF Init, HeldIsUp
<1>4. NoRetryUnwanted BY DEF Init, NoRetryUnwanted
<1>5. RetryKept BY DEF Init, RetryKept
<1>6. Rows BY DEF Init, Rows
<1> QED BY <1>1, <1>2, <1>3, <1>4, <1>5, <1>6 DEF InvK

(***************************************************************************)
(* What the steps do to an entry, in terms of the two retry properties.    *)
(***************************************************************************)

\* What letting go of its connection does to the attempts of an entry.
LEMMA LetsGo ==
  ASSUME InvK, NEW e \in Entries
  PROVE  /\ LetGo(e) \in [Attempts -> AttemptStates]
         /\ \A n \in Attempts : \/ LetGo(e)[n] = attempt[n]
                                \/ /\ LetGo(e)[n] = "closing"
                                   /\ n = held[e]
                                   /\ attempt[n] \notin InFlight \cup {"none"}
<1>1. held[e] \in Attempts \cup {0} /\ attempt \in [Attempts -> AttemptStates]
  BY DEF InvK, TypeOK
<1>2. held[e] # 0 => attempt[held[e]] \notin InFlight \cup {"none"}
  BY DEF InvK, HeldIsUp
<1> QED BY <1>1, <1>2, Bounds DEF LetGo, AttemptStates

\* A start of entry e keeps every part of the invariant it touches.
LEMMA StartKeeps ==
  ASSUME InvK, NEW e \in Entries, NEW config \in Configs \cup {"off"},
         Start(e, config), UNCHANGED status
  PROVE  /\ desired' \in [Entries -> BOOLEAN] /\ timer' \in [Entries -> BOOLEAN]
         /\ startedWith' \in [Entries -> Configs \cup {"off"}]
         /\ held' \in [Entries -> Attempts \cup {0}]
         /\ attempts' \in 0 .. 1 + MaxChanges + MaxFailures
         /\ attempts + 1 \in Attempts
         /\ attempt' \in [Attempts -> AttemptStates]
         /\ entryOf' \in [Attempts -> Entries \cup {0}]
         /\ configOf' \in [Attempts -> Configs \cup {"off"}]
         /\ replaces' \in [Attempts -> Attempts \cup {0}]
         /\ overlapped' \subseteq Entries
         /\ Fresh' /\ HeldIsUp' /\ NoRetryUnwanted' /\ RetryKept'
<1> USE Bounds
<1> DEFINE n == attempts + 1
           made2 == IF held[e] = 0 THEN "connecting" ELSE "stopping"
<1>0. attempts \in Nat /\ attempts < 1 + MaxChanges + MaxFailures BY DEF InvK, TypeOK, Start
<1>1. n \in Attempts /\ attempt[n] = "none" /\ n \in Nat BY <1>0 DEF InvK, Fresh
<1>2. attempt' = [LetGo(e) EXCEPT ![n] = made2] /\ made2 \in InFlight /\ attempts' = n
  BY DEF Start, InFlight
<1> HIDE DEF n, made2
<1>3. attempt' \in [Attempts -> AttemptStates] /\ attempt'[n] \in InFlight
  BY <1>1, <1>2, LetsGo DEF AttemptStates
<1>4. \A m \in Attempts : m # n => attempt'[m] = LetGo(e)[m] BY <1>1, <1>2, LetsGo
<1>5. \A m \in Attempts : attempt[m] \in InFlight => attempt'[m] = attempt[m] /\ m # n
  BY <1>1, <1>4, LetsGo DEF InFlight
<1>6. /\ desired' \in [Entries -> BOOLEAN] /\ timer' \in [Entries -> BOOLEAN]
      /\ startedWith' \in [Entries -> Configs \cup {"off"}]
      /\ held' \in [Entries -> Attempts \cup {0}]
      /\ configOf' \in [Attempts -> Configs \cup {"off"}]
      /\ replaces' \in [Attempts -> Attempts \cup {0}]
      /\ overlapped' \subseteq Entries
  BY DEF Start, InvK, TypeOK
<1>7. entryOf' \in [Attempts -> Entries \cup {0}] /\ entryOf'[n] = e
      /\ \A m \in Attempts : m # n => entryOf'[m] = entryOf[m]
  BY <1>1 DEF Start, InvK, TypeOK, n
<1>8. Fresh'
  <2> SUFFICES ASSUME NEW m \in Attempts, m > attempts' PROVE attempt'[m] = "none"
    BY DEF Fresh
  <2>1. m # n /\ m > attempts BY <1>0, <1>2 DEF n
  <2>2. attempt[m] = "none" BY <2>1 DEF InvK, Fresh
  <2> QED BY <1>4, <2>1, <2>2, LetsGo
<1>9. HeldIsUp'
  <2> SUFFICES ASSUME NEW d \in Entries, held'[d] # 0
               PROVE  attempt'[held'[d]] \notin InFlight \cup {"none"}
    BY DEF HeldIsUp
  <2>1. d # e /\ held'[d] = held[d] BY DEF Start, InvK, TypeOK
  <2>2. held[d] \in Attempts /\ attempt[held[d]] \notin InFlight \cup {"none"}
    BY <2>1 DEF InvK, TypeOK, HeldIsUp
  <2>3. held[d] # n BY <1>1, <2>2
  <2>4. attempt'[held[d]] \in {attempt[held[d]], "closing"}
    <3>1. attempt'[held[d]] = LetGo(e)[held[d]] BY <1>4, <2>2, <2>3
    <3>2. LetGo(e)[held[d]] \in {attempt[held[d]], "closing"} BY <2>2, LetsGo
    <3> QED BY <3>1, <3>2
  <2> QED BY <2>1, <2>2, <2>4 DEF InFlight
<1>10. NoRetryUnwanted'
  <2> SUFFICES ASSUME NEW d \in Entries, timer'[d] PROVE desired'[d] BY DEF NoRetryUnwanted
  <2>1. d # e BY DEF Start, InvK, TypeOK
  <2>2. timer'[d] = timer[d] /\ desired'[d] = desired[d] BY <2>1 DEF Start, InvK, TypeOK
  <2> QED BY <2>2 DEF InvK, NoRetryUnwanted
<1>11. RetryKept'
  <2> SUFFICES ASSUME NEW d \in Entries, desired'[d], status'[d] = "error"
               PROVE  timer'[d] \/ \E m \in Attempts : attempt'[m] \in InFlight /\ entryOf'[m] = d
    BY DEF RetryKept, StartsOf
  <2>1. CASE d = e BY <1>1, <1>3, <1>7, <2>1
  <2>2. CASE d # e
    <3>1. timer'[d] = timer[d] /\ desired'[d] = desired[d] /\ status'[d] = status[d]
      BY <2>2 DEF Start, InvK, TypeOK
    <3>2. timer[d] \/ \E m \in Attempts : attempt[m] \in InFlight /\ entryOf[m] = d
      BY <3>1 DEF InvK, RetryKept, StartsOf
    <3>3. ASSUME NEW m \in Attempts, attempt[m] \in InFlight, entryOf[m] = d
          PROVE  attempt'[m] \in InFlight /\ entryOf'[m] = d
      BY <1>5, <1>7, <3>3
    <3> QED BY <3>1, <3>2, <3>3
  <2> QED BY <2>1, <2>2
<1> QED BY <1>0, <1>1, <1>2, <1>3, <1>6, <1>7, <1>8, <1>9, <1>10, <1>11 DEF n

\* The parts of the invariant about attempts and what the entries hold, when
\* attempt n of an entry changes and no attempt starts.
LEMMA MoveKeeps ==
  ASSUME InvK, NEW n \in Attempts,
         attempt[n] # "none", attempt'[n] # "none",
         \A m \in Attempts : m # n => attempt'[m] = attempt[m],
         UNCHANGED attempts,
         held' \in [Entries -> Attempts \cup {0}],
         \A e \in Entries : held'[e] \in {held[e], 0, n},
         \A e \in Entries : held'[e] = n => attempt'[n] \notin InFlight
  PROVE  Fresh' /\ HeldIsUp'
<1>1. held \in [Entries -> Attempts \cup {0}] BY DEF InvK, TypeOK
<1>2. Fresh'
  <2>1. n <= attempts BY Bounds DEF InvK, Fresh, TypeOK
  <2> QED BY <2>1, Bounds DEF InvK, Fresh, TypeOK
<1>3. HeldIsUp'
  <2> SUFFICES ASSUME NEW e \in Entries, held'[e] # 0
               PROVE  attempt'[held'[e]] \notin InFlight \cup {"none"}
    BY DEF HeldIsUp
  <2>1. CASE held'[e] = n BY <2>1
  <2>2. CASE held'[e] # n
    <3>1. held'[e] = held[e] /\ held[e] \in Attempts BY <1>1, <2>2
    <3>2. attempt[held[e]] \notin InFlight \cup {"none"} BY <3>1, Bounds DEF InvK, HeldIsUp
    <3> QED BY <2>2, <3>1, <3>2
  <2> QED BY <2>1, <2>2
<1> QED BY <1>2, <1>3

\* fail keeps the retry properties, whatever it ends of the entry's own starts.
LEMMA FailKeeps ==
  ASSUME InvK, NEW e \in Entries \cup {0}, Fail(e), UNCHANGED entryOf,
         \A m \in Attempts : entryOf[m] # e /\ attempt[m] \in InFlight => attempt'[m] \in InFlight
  PROVE  /\ held' \in [Entries -> Attempts \cup {0}] /\ timer' \in [Entries -> BOOLEAN]
         /\ status' \in [Entries -> Statuses]
         /\ \A d \in Entries : held'[d] \in {held[d], 0}
         /\ NoRetryUnwanted' /\ RetryKept'
<1>1. /\ held' \in [Entries -> Attempts \cup {0}]
      /\ \A d \in Entries : held'[d] \in {held[d], 0}
  BY DEF Fail, InvK, TypeOK
<1>2. timer' \in [Entries -> BOOLEAN]
  <2>1. timer \in [Entries -> BOOLEAN] /\ desired \in [Entries -> BOOLEAN] BY DEF InvK, TypeOK
  <2>2. CASE e \in Entries
    <3>1. desired[e] \in BOOLEAN BY <2>1, <2>2
    <3> QED BY <2>1, <3>1 DEF Fail
  <2>3. CASE e = 0
    <3>1. timer' = timer BY <2>1, <2>3, Bounds DEF Fail
    <3> QED BY <2>1, <3>1
  <2> QED BY <2>2, <2>3
<1>3. status' \in [Entries -> Statuses] BY DEF Fail, InvK, TypeOK, Statuses
<1>4. ASSUME NEW d \in Entries
      PROVE  /\ desired'[d] = desired[d]
             /\ d = e => timer'[d] = desired[d]
             /\ d # e => timer'[d] = timer[d] /\ status'[d] = status[d]
  BY DEF Fail, InvK, TypeOK
<1>5. NoRetryUnwanted' BY <1>4 DEF InvK, NoRetryUnwanted
<1>6. RetryKept'
  <2> SUFFICES ASSUME NEW d \in Entries, desired'[d], status'[d] = "error", d # e
               PROVE  timer'[d] \/ \E m \in Attempts : attempt'[m] \in InFlight /\ entryOf'[m] = d
    BY <1>4 DEF RetryKept, StartsOf
  <2>1. timer[d] \/ \E m \in Attempts : attempt[m] \in InFlight /\ entryOf[m] = d
    BY <1>4 DEF InvK, RetryKept, StartsOf
  <2> QED BY <1>4, <2>1
<1> QED BY <1>1, <1>2, <1>3, <1>5, <1>6

\* A step that gives an entry another status, and no other an error.
LEMMA StatusKeeps ==
  ASSUME InvK, NEW e \in Entries \cup {0}, NEW s \in Statuses \ {"error"},
         status' = [status EXCEPT ![e] = s], UNCHANGED <<desired, timer, entryOf>>,
         \A m \in Attempts : entryOf[m] # e /\ attempt[m] \in InFlight => attempt'[m] \in InFlight
  PROVE  status' \in [Entries -> Statuses] /\ NoRetryUnwanted' /\ RetryKept'
<1>1. status' \in [Entries -> Statuses] BY DEF InvK, TypeOK
<1>2. \A d \in Entries : (d = e => status'[d] = s) /\ (d # e => status'[d] = status[d])
  BY DEF InvK, TypeOK
<1>3. NoRetryUnwanted' BY DEF InvK, NoRetryUnwanted
<1>4. RetryKept'
  <2> SUFFICES ASSUME NEW d \in Entries, desired[d], status'[d] = "error"
               PROVE  timer[d] \/ \E m \in Attempts : attempt'[m] \in InFlight /\ entryOf'[m] = d
    BY DEF RetryKept, StartsOf
  <2>1. d # e /\ status[d] = "error" BY <1>2
  <2>2. timer[d] \/ \E m \in Attempts : attempt[m] \in InFlight /\ entryOf[m] = d
    BY <2>1 DEF InvK, RetryKept, StartsOf
  <2> QED BY <2>1, <2>2
<1> QED BY <1>1, <1>3, <1>4

\* Nothing about entries and attempts changes.
LEMMA SameKeeps ==
  ASSUME InvK, UNCHANGED <<desired, timer, status, held, attempt, attempts, entryOf>>
  PROVE  Fresh' /\ HeldIsUp' /\ NoRetryUnwanted' /\ RetryKept'
BY DEF InvK, Fresh, HeldIsUp, NoRetryUnwanted, RetryKept, StartsOf

(***************************************************************************)
(* Every step keeps the invariant.                                         *)
(***************************************************************************)
LEMMA CoreSteps ==
  ASSUME InvK, \/ \E w \in Configs \cup {"off"} : Change(w)
               \/ Shutdown
  PROVE  InvK'
<1> USE Bounds
<1>1. ASSUME NEW w \in Configs \cup {"off"}, Change(w) PROVE InvK'
  <2>1. TypeOK'
    <3>1. queued' \in 0 .. MaxChanges + 1 /\ changes' \in 0 .. MaxChanges
      BY <1>1 DEF Change, InvK, TypeOK, Rows
    <3> QED BY <1>1, <3>1 DEF Change, InvK, TypeOK, recon, managed, made
  <2>2. Rows' BY <1>1 DEF Change, InvK, TypeOK, Rows, recon, managed, made
  <2>3. Fresh' /\ HeldIsUp' /\ NoRetryUnwanted' /\ RetryKept'
    BY <1>1, SameKeeps DEF Change, managed, made
  <2> QED BY <2>1, <2>2, <2>3 DEF InvK
<1>2. ASSUME Shutdown PROVE InvK'
  <2>1. /\ attempt' \in [Attempts -> AttemptStates]
        /\ \A n \in Attempts : \/ attempt'[n] = attempt[n]
                               \/ attempt'[n] = "closing" /\ \E e \in Entries : held[e] = n
    BY <1>2 DEF Shutdown, InvK, TypeOK, AttemptStates
  <2>2. /\ desired' \in [Entries -> BOOLEAN] /\ timer' \in [Entries -> BOOLEAN]
        /\ held' \in [Entries -> Attempts \cup {0}] /\ status' \in [Entries -> Statuses]
        /\ \A e \in Entries : desired'[e] = FALSE /\ timer'[e] = FALSE /\ held'[e] = 0
    BY <1>2 DEF Shutdown, InvK, TypeOK, Statuses
  <2>3. TypeOK' BY <1>2, <2>1, <2>2 DEF Shutdown, InvK, TypeOK, recon
  <2>4. Rows' BY <1>2 DEF Shutdown, InvK, Rows, recon
  <2>5. Fresh'
    <3> SUFFICES ASSUME NEW n \in Attempts, n > attempts PROVE attempt'[n] = "none"
      BY <1>2 DEF Fresh, Shutdown
    <3>1. attempt[n] = "none" BY DEF InvK, Fresh
    <3> QED BY <2>1, <3>1 DEF InvK, HeldIsUp
  <2>6. HeldIsUp' /\ NoRetryUnwanted' /\ RetryKept'
    BY <2>2 DEF HeldIsUp, NoRetryUnwanted, RetryKept
  <2> QED BY <2>3, <2>4, <2>5, <2>6 DEF InvK
<1> QED BY <1>1, <1>2

LEMMA ReconcileSteps ==
  ASSUME InvK, Reconcile \/ ReconcileFails
  PROVE  InvK'
<1> USE Bounds
<1>1. ASSUME BeginReconcile PROVE InvK'
  <2>1. TypeOK' BY <1>1 DEF BeginReconcile, InvK, TypeOK, managed, made
  <2>2. Rows' BY <1>1 DEF BeginReconcile, InvK, TypeOK, Rows, managed
  <2>3. Fresh' /\ HeldIsUp' /\ NoRetryUnwanted' /\ RetryKept'
    BY <1>1, SameKeeps DEF BeginReconcile, managed, made
  <2> QED BY <2>1, <2>2, <2>3 DEF InvK
<1>2. ASSUME ReconcileFails PROVE InvK'
  <2>1. TypeOK' BY <1>2 DEF ReconcileFails, Failing, InvK, TypeOK, core, managed, made
  <2>2. Rows' BY <1>2 DEF ReconcileFails, InvK, Rows, core, managed
  <2>3. Fresh' /\ HeldIsUp' /\ NoRetryUnwanted' /\ RetryKept'
    BY <1>2, SameKeeps DEF ReconcileFails, managed, made
  <2> QED BY <2>1, <2>2, <2>3 DEF InvK
<1>3. ASSUME LeaveAlone PROVE InvK'
  <2>1. TypeOK' BY <1>3 DEF LeaveAlone, Reading, InvK, TypeOK, core, managed, made
  <2>2. Rows' BY <1>3 DEF LeaveAlone, InvK, Rows, core, managed
  <2>3. Fresh' /\ HeldIsUp' /\ NoRetryUnwanted' /\ RetryKept'
    BY <1>3, SameKeeps DEF LeaveAlone, managed, made
  <2> QED BY <2>1, <2>2, <2>3 DEF InvK
<1>4. ASSUME Remove PROVE InvK'
  <2>0. row \in Entries BY <1>4 DEF Remove, InvK, TypeOK
  <2>1. /\ attempt' \in [Attempts -> AttemptStates]
        /\ \A n \in Attempts : attempt[n] \in InFlight \cup {"none"} => attempt'[n] = attempt[n]
    BY <1>4, <2>0, LetsGo DEF Remove
  <2>2. /\ desired' \in [Entries -> BOOLEAN] /\ timer' \in [Entries -> BOOLEAN]
        /\ held' \in [Entries -> Attempts \cup {0}]
        /\ ~desired'[row] /\ ~timer'[row] /\ held'[row] = 0
        /\ \A e \in Entries : e # row => /\ desired'[e] = desired[e] /\ timer'[e] = timer[e]
                                         /\ held'[e] = held[e]
    BY <1>4, <2>0 DEF Remove, InvK, TypeOK
  <2>3. TypeOK'
    <3>1. awaits' \in Attempts \cup {0} BY <1>4, <2>0 DEF Remove, InvK, TypeOK
    <3> QED BY <1>4, <2>1, <2>2, <3>1 DEF Remove, Reading, InvK, TypeOK, core
  <2>4. Rows' BY <1>4 DEF Remove, InvK, Rows, core
  <2>5. Fresh' BY <1>4, <2>1 DEF Remove, InvK, Fresh
  <2>6. HeldIsUp'
    <3> SUFFICES ASSUME NEW e \in Entries, held'[e] # 0
                 PROVE  attempt'[held'[e]] \notin InFlight \cup {"none"}
      BY DEF HeldIsUp
    <3>1. held'[e] = held[e] /\ held[e] \in Attempts BY <2>2 DEF InvK, TypeOK
    <3>2. attempt[held[e]] \notin InFlight \cup {"none"} BY <3>1 DEF InvK, HeldIsUp
    <3>3. attempt'[held[e]] \in {attempt[held[e]], "closing"}
      BY <1>4, <2>0, <3>1, LetsGo DEF Remove
    <3> QED BY <3>1, <3>2, <3>3 DEF InFlight
  <2>7. NoRetryUnwanted' BY <2>2 DEF InvK, NoRetryUnwanted
  <2>8. RetryKept'
    <3> SUFFICES ASSUME NEW e \in Entries, desired'[e], status[e] = "error"
                 PROVE  timer'[e] \/ \E m \in Attempts : attempt'[m] \in InFlight /\ entryOf[m] = e
      BY <1>4 DEF RetryKept, StartsOf, Remove
    <3>1. e # row BY <2>2
    <3>2. timer[e] \/ \E m \in Attempts : attempt[m] \in InFlight /\ entryOf[m] = e
      BY <2>2, <3>1 DEF InvK, RetryKept, StartsOf
    <3> QED BY <2>1, <2>2, <3>1, <3>2
  <2> QED BY <2>3, <2>4, <2>5, <2>6, <2>7, <2>8 DEF InvK
<1>5. ASSUME Removed PROVE InvK'
  <2>0. row \in Entries BY <1>5 DEF Removed, InvK, TypeOK, Rows
  <2>1. status' \in [Entries -> Statuses] /\ NoRetryUnwanted' /\ RetryKept'
    BY <1>5, <2>0, StatusKeeps DEF Removed, made, Statuses
  <2>2. TypeOK' BY <1>5, <2>1 DEF Removed, InvK, TypeOK, core, made
  <2>3. Rows' BY <1>5 DEF Removed, InvK, TypeOK, Rows, core
  <2>4. Fresh' /\ HeldIsUp' BY <1>5 DEF Removed, InvK, Fresh, HeldIsUp, made
  <2> QED BY <2>1, <2>2, <2>3, <2>4 DEF InvK
<1>6. ASSUME Apply PROVE InvK'
  <2>1. row' \in Entries /\ entries' \in 0 .. 1 + MaxChanges /\ row' <= entries'
    BY <1>6 DEF Apply, InvK, TypeOK, Rows
  <2>2. want \in Configs \cup {"off"} BY DEF InvK, TypeOK
  <2> DEFINE e == row'
  <2>3. Start(e, want) /\ UNCHANGED status BY <1>6 DEF Apply
  <2> HIDE DEF e
  <2>4. e \in Entries BY <2>1 DEF e
  <2>5. /\ desired' \in [Entries -> BOOLEAN] /\ timer' \in [Entries -> BOOLEAN]
        /\ startedWith' \in [Entries -> Configs \cup {"off"}]
        /\ held' \in [Entries -> Attempts \cup {0}]
        /\ attempts' \in 0 .. 1 + MaxChanges + MaxFailures
        /\ attempts + 1 \in Attempts
        /\ attempt' \in [Attempts -> AttemptStates]
        /\ entryOf' \in [Attempts -> Entries \cup {0}]
        /\ configOf' \in [Attempts -> Configs \cup {"off"}]
        /\ replaces' \in [Attempts -> Attempts \cup {0}]
        /\ overlapped' \subseteq Entries
        /\ Fresh' /\ HeldIsUp' /\ NoRetryUnwanted' /\ RetryKept'
    BY <2>2, <2>3, <2>4, StartKeeps
  <2>6. TypeOK' BY <1>6, <2>1, <2>5 DEF Apply, Reading, InvK, TypeOK, core
  <2>7. Rows' BY <1>6, <2>1 DEF Apply, InvK, TypeOK, Rows, core
  <2> QED BY <2>5, <2>6, <2>7 DEF InvK
<1>7. ASSUME Applied PROVE InvK'
  <2>1. TypeOK' BY <1>7 DEF Applied, InvK, TypeOK, core, managed, made
  <2>2. Rows' BY <1>7 DEF Applied, InvK, Rows, core, managed
  <2>3. Fresh' /\ HeldIsUp' /\ NoRetryUnwanted' /\ RetryKept'
    BY <1>7, SameKeeps DEF Applied, managed, made
  <2> QED BY <2>1, <2>2, <2>3 DEF InvK
<1> QED BY <1>1, <1>2, <1>3, <1>4, <1>5, <1>6, <1>7 DEF Reconcile

LEMMA StartSteps ==
  ASSUME InvK, NEW n \in Attempts, Settle(n)
  PROVE  InvK'
<1> USE Bounds
<1>0. entryOf[n] \in Entries \cup {0} /\ held \in [Entries -> Attempts \cup {0}]
      /\ attempt \in [Attempts -> AttemptStates]
  BY DEF InvK, TypeOK
<1>1. ASSUME Stopped(n) PROVE InvK'
  <2>1. /\ attempt' \in [Attempts -> AttemptStates]
        /\ \A m \in Attempts : m # n => attempt'[m] = attempt[m]
    BY <1>0, <1>1 DEF Stopped, AttemptStates, InFlight
  <2>2. Fresh' /\ HeldIsUp'
    <3>1. \A e \in Entries : held[e] # n
      BY <1>0, <1>1 DEF Stopped, InvK, HeldIsUp, InFlight
    <3>2. UNCHANGED <<attempts, held>> /\ attempt[n] # "none" /\ attempt'[n] # "none"
      BY <1>0, <1>1 DEF Stopped
    <3> QED BY <1>0, <2>1, <3>1, <3>2, MoveKeeps
  <2>3. status' \in [Entries -> Statuses] /\ NoRetryUnwanted' /\ RetryKept'
    BY <1>0, <1>1, <2>1, StatusKeeps DEF Stopped, Statuses
  <2>4. TypeOK' BY <1>1, <2>1, <2>3 DEF Stopped, InvK, TypeOK, core, recon
  <2>5. Rows' BY <1>1 DEF Stopped, InvK, Rows, core, recon
  <2> QED BY <2>2, <2>3, <2>4, <2>5 DEF InvK
<1>2. ASSUME Connected(n) PROVE InvK'
  <2>1. /\ held' \in [Entries -> Attempts \cup {0}]
        /\ \A e \in Entries : held'[e] \in {held[e], 0, n}
    BY <1>0, <1>2 DEF Connected
  <2>2. /\ attempt' \in [Attempts -> AttemptStates]
        /\ \A m \in Attempts : m # n => attempt'[m] = attempt[m]
    BY <1>0, <1>2 DEF Connected, AttemptStates, InFlight
  <2>3. Fresh' /\ HeldIsUp'
    <3>1. /\ UNCHANGED attempts /\ attempt[n] # "none"
          /\ attempt'[n] \notin InFlight \cup {"none"}
      BY <1>0, <1>2 DEF Connected, InFlight
    <3> QED BY <2>1, <2>2, <3>1, MoveKeeps
  <2>4. status' \in [Entries -> Statuses] /\ NoRetryUnwanted' /\ RetryKept'
    <3>1. PICK s \in {"running", "starting"} : status' = [status EXCEPT ![entryOf[n]] = s]
      BY <1>2 DEF Connected
    <3> QED BY ZenonT(30), <1>0, <1>2, <2>2, <3>1, StatusKeeps DEF Connected, Statuses
  <2>5. TypeOK' BY <1>2, <2>1, <2>2, <2>4 DEF Connected, InvK, TypeOK, core, recon
  <2>6. Rows' BY <1>2 DEF Connected, InvK, Rows, core, recon
  <2> QED BY <2>3, <2>4, <2>5, <2>6 DEF InvK
<1>3. ASSUME HandBack(n) PROVE InvK'
  <2>1. /\ attempt' \in [Attempts -> AttemptStates]
        /\ \A m \in Attempts : m # n => attempt'[m] = attempt[m]
        /\ attempt'[n] = "returning"
    BY <1>0, <1>3 DEF HandBack, AttemptStates, InFlight
  <2>2. Fresh' /\ HeldIsUp'
    <3>1. \A e \in Entries : held[e] # n
      BY <1>0, <1>3 DEF HandBack, InvK, HeldIsUp, InFlight
    <3>2. UNCHANGED <<attempts, held>> /\ attempt[n] # "none" BY <1>3 DEF HandBack, managed
    <3> QED BY <1>0, <2>1, <3>1, <3>2, MoveKeeps
  <2>3. NoRetryUnwanted' BY <1>3 DEF HandBack, managed, InvK, NoRetryUnwanted
  <2>4. RetryKept'
    <3>1. \A m \in Attempts : attempt[m] \in InFlight => attempt'[m] \in InFlight
      BY <2>1 DEF InFlight
    <3> QED BY <1>3, <3>1 DEF HandBack, managed, InvK, RetryKept, StartsOf
  <2>5. TypeOK' BY <1>3, <2>1 DEF HandBack, InvK, TypeOK, core, recon, managed
  <2>6. Rows' BY <1>3 DEF HandBack, InvK, Rows, core, recon, managed
  <2> QED BY <2>2, <2>3, <2>4, <2>5, <2>6 DEF InvK
<1>4. ASSUME HandedBack(n) PROVE InvK'
  <2>1. /\ attempt' \in [Attempts -> AttemptStates]
        /\ \A m \in Attempts : m # n => attempt'[m] = attempt[m]
    BY <1>0, <1>4 DEF HandedBack, AttemptStates, InFlight
  <2>2. Fresh' /\ HeldIsUp'
    <3>1. /\ UNCHANGED <<attempts, held>> /\ attempt[n] # "none"
          /\ attempt'[n] \notin InFlight \cup {"none"}
      BY <1>0, <1>4 DEF HandedBack, InFlight
    <3> QED BY <1>0, <2>1, <3>1, MoveKeeps
  <2>3. status' \in [Entries -> Statuses] /\ NoRetryUnwanted' /\ RetryKept'
    BY <1>0, <1>4, <2>1, StatusKeeps DEF HandedBack, Statuses
  <2>4. TypeOK' BY <1>4, <2>1, <2>3 DEF HandedBack, InvK, TypeOK, core, recon
  <2>5. Rows' BY <1>4 DEF HandedBack, InvK, Rows, core, recon
  <2> QED BY <2>2, <2>3, <2>4, <2>5 DEF InvK
<1>5. ASSUME ConnectFails(n) PROVE InvK'
  <2>1. attempt' = [attempt EXCEPT ![n] = "failed"] /\ attempt[n] = "connecting"
        /\ Fail(entryOf[n]) /\ UNCHANGED <<attempts, entryOf>>
    BY <1>5 DEF ConnectFails
  <2>2. \A m \in Attempts : m # n => attempt'[m] = attempt[m] BY <2>1 DEF InvK, TypeOK
  <2>3. /\ held' \in [Entries -> Attempts \cup {0}] /\ timer' \in [Entries -> BOOLEAN]
        /\ status' \in [Entries -> Statuses]
        /\ \A d \in Entries : held'[d] \in {held[d], 0}
        /\ NoRetryUnwanted' /\ RetryKept'
    BY <1>0, <2>1, <2>2, FailKeeps
  <2>4. attempt' \in [Attempts -> AttemptStates] BY <1>0, <2>1 DEF AttemptStates
  <2>5. Fresh' /\ HeldIsUp'
    <3>1. attempt[n] # "none" /\ attempt'[n] \notin InFlight \cup {"none"}
      BY <1>0, <2>1 DEF InFlight
    <3> QED BY <2>1, <2>2, <2>3, <3>1, MoveKeeps
  <2>6. TypeOK' BY <1>5, <2>3, <2>4 DEF ConnectFails, Failing, Fail, InvK, TypeOK, core, recon
  <2>7. Rows' BY <1>5 DEF ConnectFails, Fail, InvK, Rows, core, recon
  <2> QED BY <2>3, <2>5, <2>6, <2>7 DEF InvK
<1>6. ASSUME Close(n) PROVE InvK'
  <2>1. /\ attempt' \in [Attempts -> AttemptStates]
        /\ \A m \in Attempts : m # n => attempt'[m] = attempt[m]
    BY <1>0, <1>6 DEF Close, AttemptStates, InFlight
  <2>2. Fresh' /\ HeldIsUp'
    <3>1. /\ UNCHANGED <<attempts, held>> /\ attempt[n] # "none"
          /\ attempt'[n] \notin InFlight \cup {"none"}
      BY <1>0, <1>6 DEF Close, managed, InFlight
    <3> QED BY <1>0, <2>1, <3>1, MoveKeeps
  <2>3. NoRetryUnwanted' BY <1>6 DEF Close, managed, InvK, NoRetryUnwanted
  <2>4. RetryKept'
    <3>1. \A m \in Attempts : attempt[m] \in InFlight => attempt'[m] \in InFlight
      BY <1>6, <2>1 DEF Close, InFlight
    <3> QED BY <1>6, <3>1 DEF Close, managed, InvK, RetryKept, StartsOf
  <2>5. TypeOK' BY <1>6, <2>1 DEF Close, InvK, TypeOK, core, recon, managed
  <2>6. Rows' BY <1>6 DEF Close, InvK, Rows, core, recon, managed
  <2> QED BY <2>2, <2>3, <2>4, <2>5, <2>6 DEF InvK
<1> QED BY <1>1, <1>2, <1>3, <1>4, <1>5, <1>6 DEF Settle

LEMMA HookSteps ==
  ASSUME InvK, NEW n \in Attempts, HookReady(n) \/ HookError(n)
  PROVE  InvK'
<1> USE Bounds
<1>0. entryOf[n] \in Entries \cup {0} /\ held \in [Entries -> Attempts \cup {0}]
      /\ attempt \in [Attempts -> AttemptStates]
  BY DEF InvK, TypeOK
<1>1. ASSUME HookReady(n) PROVE InvK'
  <2>1. status' \in [Entries -> Statuses] /\ NoRetryUnwanted' /\ RetryKept'
    BY <1>0, <1>1, StatusKeeps DEF HookReady, made, Statuses
  <2>2. TypeOK' BY <1>1, <2>1 DEF HookReady, InvK, TypeOK, core, recon, made
  <2>3. Rows' BY <1>1 DEF HookReady, InvK, Rows, core, recon
  <2>4. Fresh' /\ HeldIsUp' BY <1>1 DEF HookReady, InvK, Fresh, HeldIsUp, made
  <2> QED BY <2>1, <2>2, <2>3, <2>4 DEF InvK
<1>2. ASSUME HookError(n) PROVE InvK'
  <2>1. /\ Fail(entryOf[n]) /\ UNCHANGED <<attempts, entryOf>>
        /\ attempt[n] \in {"connecting", "open", "closing"}
        /\ attempt' = IF attempt[n] = "open" THEN [attempt EXCEPT ![n] = "dead"] ELSE attempt
    BY <1>2 DEF HookError
  <2>2. \A m \in Attempts : attempt[m] \in InFlight => attempt'[m] = attempt[m]
    BY <1>0, <2>1 DEF InFlight
  <2>3. /\ held' \in [Entries -> Attempts \cup {0}] /\ timer' \in [Entries -> BOOLEAN]
        /\ status' \in [Entries -> Statuses]
        /\ \A d \in Entries : held'[d] \in {held[d], 0}
        /\ NoRetryUnwanted' /\ RetryKept'
    BY <1>0, <2>1, <2>2, FailKeeps
  <2>4. attempt' \in [Attempts -> AttemptStates] /\ Fresh' /\ HeldIsUp'
    <3>1. CASE attempt[n] = "open"
      <4>1. /\ attempt' \in [Attempts -> AttemptStates]
            /\ \A m \in Attempts : m # n => attempt'[m] = attempt[m]
            /\ attempt'[n] \notin InFlight \cup {"none"} /\ attempt[n] # "none"
        BY <1>0, <2>1, <3>1 DEF InFlight, AttemptStates
      <4> QED BY <2>1, <2>3, <4>1, MoveKeeps
    <3>2. CASE attempt[n] # "open"
      <4>1. attempt' = attempt BY <2>1, <3>2
      <4> QED BY <1>0, <2>1, <2>3, <4>1 DEF InvK, Fresh, HeldIsUp
    <3> QED BY <3>1, <3>2
  <2>5. TypeOK' BY <1>2, <2>3, <2>4 DEF HookError, Failing, Fail, InvK, TypeOK, core, recon
  <2>6. Rows' BY <1>2 DEF HookError, Fail, InvK, Rows, core, recon
  <2> QED BY <2>3, <2>4, <2>5, <2>6 DEF InvK
<1> QED BY <1>1, <1>2

LEMMA RetrySteps ==
  ASSUME InvK, NEW e \in Entries, Retry(e)
  PROVE  InvK'
<1>1. startedWith[e] \in Configs \cup {"off"} BY DEF InvK, TypeOK
<1>2. /\ desired' \in [Entries -> BOOLEAN] /\ timer' \in [Entries -> BOOLEAN]
      /\ startedWith' \in [Entries -> Configs \cup {"off"}]
      /\ held' \in [Entries -> Attempts \cup {0}]
      /\ attempts' \in 0 .. 1 + MaxChanges + MaxFailures
      /\ attempt' \in [Attempts -> AttemptStates]
      /\ entryOf' \in [Attempts -> Entries \cup {0}]
      /\ configOf' \in [Attempts -> Configs \cup {"off"}]
      /\ replaces' \in [Attempts -> Attempts \cup {0}]
      /\ overlapped' \subseteq Entries
      /\ Fresh' /\ HeldIsUp' /\ NoRetryUnwanted' /\ RetryKept'
  BY <1>1, StartKeeps DEF Retry
<1>3. TypeOK' BY <1>2 DEF Retry, InvK, TypeOK, core, recon
<1>4. Rows' BY DEF Retry, InvK, Rows, core, recon
<1> QED BY <1>2, <1>3, <1>4 DEF InvK

LEMMA InvNext == ASSUME InvK, [Next]_vars PROVE InvK'
<1>1. CASE UNCHANGED vars
  <2>1. TypeOK' BY <1>1 DEF vars, core, recon, managed, made, InvK, TypeOK
  <2>2. Rows' BY <1>1 DEF vars, core, recon, managed, made, InvK, Rows
  <2>3. Fresh' /\ HeldIsUp' /\ NoRetryUnwanted' /\ RetryKept'
    BY <1>1, SameKeeps DEF vars, managed, made
  <2> QED BY <2>1, <2>2, <2>3 DEF InvK
<1> QED BY <1>1, CoreSteps, ReconcileSteps, StartSteps, HookSteps, RetrySteps DEF Next

LEMMA InvAlways == Spec => []InvK
<1>1. Init => InvK BY InvInit
<1>2. InvK /\ [Next]_vars => InvK' BY InvNext
<1> QED BY <1>1, <1>2, PTL DEF Spec

\* Every variable of the connection manager keeps its type.
THEOREM TypeCorrect == Spec => []TypeOK
<1>1. InvK => TypeOK BY DEF InvK
<1> QED BY <1>1, InvAlways, PTL

\* A connection the core stopped asking for never retries: whatever fails, closes
\* or connects late, the timer of an entry that was removed stays off.
THEOREM NoRetryUnwantedHolds == Spec => []NoRetryUnwanted
<1>1. InvK => NoRetryUnwanted BY DEF InvK
<1> QED BY <1>1, InvAlways, PTL

\* A connection the core asks for and that is down is never forgotten: a retry is
\* scheduled, or one of its starts is under way.
THEOREM RetryKeptHolds == Spec => []RetryKept
<1>1. InvK => RetryKept BY DEF InvK
<1> QED BY <1>1, InvAlways, PTL

(***************************************************************************)
(* OpenIsHeld.  As long as no two starts of an entry ran at once, what is  *)
(* open is held, what is being closed is awaited by the start that         *)
(* replaces it, and a start under way stands alone.                        *)
(***************************************************************************)

\* An attempt is of an entry that was made, what an entry holds is its own, and only
\* an entry that was made is wanted.
Owned ==
  /\ \A n \in Attempts : attempt[n] # "none" => entryOf[n] \in 1 .. entries
  /\ \A e \in Entries : held[e] # 0 => entryOf[held[e]] = e /\ desired[e]
  /\ \A e \in Entries : desired[e] => e <= entries

\* An entry in the map is wanted unless it is being removed.
RowWanted == ~closed /\ row # 0 /\ reconciler # "removing" => desired[row]

\* A start that nobody crossed is the only one, and its entry holds nothing.
StartsAlone ==
  \A n \in Attempts : attempt[n] \in InFlight /\ entryOf[n] \notin overlapped =>
    /\ StartsOf(entryOf[n]) = {n}
    /\ held[entryOf[n]] = 0
    /\ configOf[n] = startedWith[entryOf[n]]

\* What is being closed for a wanted entry is awaited by the start that replaces it.
ClosingAwaited ==
  \A n \in Attempts :
    ~closed /\ attempt[n] = "closing" /\ entryOf[n] \notin overlapped /\ desired[entryOf[n]] =>
      \E m \in StartsOf(entryOf[n]) : attempt[m] = "stopping" /\ replaces[m] = n

HeldInv == Owned /\ RowWanted /\ StartsAlone /\ ClosingAwaited /\ OpenIsHeld

\* A start of an entry that is wanted or new keeps the books: what the entry held is
\* closed and awaited, and a start beside another one is noted.
LEMMA StartKeepsHeld ==
  ASSUME InvK, HeldInv, NEW e \in Entries, NEW config \in Configs \cup {"off"},
         Start(e, config), UNCHANGED closed, entries <= entries', e <= entries',
         entries' \in Nat,
         \/ closed \/ desired[e]
         \/ \A m \in Attempts : attempt[m] # "none" => entryOf[m] # e
  PROVE  Owned' /\ StartsAlone' /\ ClosingAwaited' /\ OpenIsHeld'
<1> USE Bounds
<1> DEFINE k == attempts + 1
<1>0. attempts \in Nat /\ attempts < 1 + MaxChanges + MaxFailures BY DEF InvK, TypeOK, Start
<1>t. /\ attempt \in [Attempts -> AttemptStates] /\ entryOf \in [Attempts -> Entries \cup {0}]
      /\ configOf \in [Attempts -> Configs \cup {"off"}]
      /\ replaces \in [Attempts -> Attempts \cup {0}] /\ held \in [Entries -> Attempts \cup {0}]
      /\ desired \in [Entries -> BOOLEAN] /\ startedWith \in [Entries -> Configs \cup {"off"}]
      /\ entries \in Nat
  BY DEF InvK, TypeOK
<1>1. k \in Attempts /\ attempt[k] = "none" BY <1>0 DEF InvK, Fresh
<1>2. held[e] # 0 => /\ held[e] \in Attempts /\ entryOf[held[e]] = e /\ desired[e]
                     /\ attempt[held[e]] \notin InFlight \cup {"none"} /\ held[e] # k
  BY <1>1, <1>t DEF HeldInv, Owned, InvK, HeldIsUp
<1>3. /\ attempt' = [LetGo(e) EXCEPT ![k] = IF held[e] = 0 THEN "connecting" ELSE "stopping"]
      /\ entryOf' = [entryOf EXCEPT ![k] = e] /\ configOf' = [configOf EXCEPT ![k] = config]
      /\ replaces' = [replaces EXCEPT ![k] = held[e]] /\ held' = [held EXCEPT ![e] = 0]
      /\ desired' = [desired EXCEPT ![e] = TRUE]
      /\ startedWith' = [startedWith EXCEPT ![e] = config]
      /\ overlapped' = IF StartsOf(e) = {} THEN overlapped ELSE overlapped \cup {e}
  BY DEF Start
<1> HIDE DEF k
<1>4. /\ attempt'[k] = IF held[e] = 0 THEN "connecting" ELSE "stopping"
      /\ attempt'[k] \in InFlight /\ entryOf'[k] = e /\ configOf'[k] = config
      /\ replaces'[k] = held[e]
  BY <1>1, <1>3, <1>t, LetsGo DEF InFlight
<1>5. ASSUME NEW m \in Attempts, m # k
      PROVE  /\ entryOf'[m] = entryOf[m] /\ configOf'[m] = configOf[m]
             /\ replaces'[m] = replaces[m]
             /\ m # held[e] => attempt'[m] = attempt[m]
             /\ m = held[e] => attempt'[m] = "closing"
  <2>1. attempt'[m] = LetGo(e)[m] BY <1>1, <1>3, <1>5, <1>t, LetsGo
  <2>2. m # held[e] => LetGo(e)[m] = attempt[m] BY <1>t, LetsGo
  <2>3. m = held[e] => LetGo(e)[m] = "closing" BY <1>t DEF LetGo
  <2> QED BY <1>1, <1>3, <1>5, <1>t, <2>1, <2>2, <2>3
<1>6. /\ held'[e] = 0 /\ desired'[e] /\ startedWith'[e] = config
      /\ \A d \in Entries : d # e => /\ held'[d] = held[d] /\ desired'[d] = desired[d]
                                     /\ startedWith'[d] = startedWith[d]
  BY <1>3, <1>t
<1>7. /\ \A d \in Entries : d \notin overlapped' => d \notin overlapped
      /\ e \notin overlapped' => StartsOf(e) = {}
  BY <1>3
<1>8. \A m \in Attempts : attempt'[m] \in InFlight =>
        m = k \/ (m # k /\ attempt[m] \in InFlight /\ attempt'[m] = attempt[m])
  BY <1>5 DEF InFlight
<1>9. \A m \in Attempts : attempt[m] \in InFlight => m # k /\ attempt'[m] = attempt[m]
  BY <1>1, <1>2, <1>5 DEF InFlight
<1>10. ASSUME NEW d \in Entries, d # e PROVE StartsOf(d)' = StartsOf(d)
  BY <1>1, <1>4, <1>5, <1>8, <1>9, <1>10 DEF StartsOf
<1>11. ASSUME NEW n \in Attempts, n # k, attempt[n] # "none" PROVE entryOf[n] \in 1 .. entries
  BY <1>11 DEF HeldInv, Owned
<1>12. Owned'
  <2>1. ASSUME NEW n \in Attempts, attempt'[n] # "none" PROVE entryOf'[n] \in 1 .. entries'
    <3>1. CASE n = k
      BY <1>4, <3>1
    <3>2. CASE n # k
      <4>1. attempt[n] # "none" BY <1>2, <1>5, <2>1, <3>2
      <4> QED BY <1>5, <1>11, <1>t, <3>2, <4>1
    <3> QED BY <3>1, <3>2
  <2>2. ASSUME NEW d \in Entries, held'[d] # 0 PROVE entryOf'[held'[d]] = d /\ desired'[d]
    <3>1. d # e /\ held'[d] = held[d] /\ desired'[d] = desired[d] BY <1>6, <2>2
    <3>2. held[d] \in Attempts /\ entryOf[held[d]] = d /\ desired[d]
      BY <1>t, <2>2, <3>1 DEF HeldInv, Owned
    <3>3. held[d] # k BY <1>1, <3>1, <2>2, <3>2 DEF InvK, HeldIsUp
    <3> QED BY <1>5, <3>1, <3>2, <3>3
  <2>3. \A d \in Entries : desired'[d] => d <= entries'
    <3>1. \A d \in Entries : desired[d] => d <= entries BY DEF HeldInv, Owned
    <3> QED BY <1>6, <1>t, <3>1
  <2> QED BY <2>1, <2>2, <2>3 DEF Owned
<1>13. StartsAlone'
  <2> SUFFICES ASSUME NEW n \in Attempts, attempt'[n] \in InFlight, entryOf'[n] \notin overlapped'
               PROVE  /\ StartsOf(entryOf[n])' = {n} /\ held'[entryOf'[n]] = 0
                      /\ configOf'[n] = startedWith'[entryOf'[n]]
    BY DEF StartsAlone, StartsOf
  <2>1. CASE n = k
    <3>1. StartsOf(e) = {} BY <1>4, <1>7, <2>1
    <3>2. StartsOf(entryOf[n])' = {k}
      BY <1>1, <1>4, <1>5, <1>8, <2>1, <3>1 DEF StartsOf
    <3> QED BY <1>4, <1>6, <2>1, <3>2
  <2>2. CASE n # k
    <3>1. attempt[n] \in InFlight /\ entryOf'[n] = entryOf[n] /\ configOf'[n] = configOf[n]
      BY <1>5, <1>8, <2>2
    <3>2. entryOf[n] \in Entries
      <4>1. entryOf[n] \in 1 .. entries BY <1>11, <2>2, <3>1 DEF InFlight
      <4> QED BY <1>t, <4>1
    <3>3. entryOf[n] # e BY <1>7, <3>1 DEF StartsOf
    <3>4. /\ StartsOf(entryOf[n]) = {n} /\ held[entryOf[n]] = 0
          /\ configOf[n] = startedWith[entryOf[n]]
      BY <1>7, <3>1, <3>2 DEF HeldInv, StartsAlone
    <3>5. StartsOf(entryOf[n])' = {n}
      BY <1>10, <3>1, <3>2, <3>3, <3>4 DEF StartsOf
    <3> QED BY <1>6, <3>1, <3>2, <3>3, <3>4, <3>5
  <2> QED BY <2>1, <2>2
<1>14. ClosingAwaited'
  <2> SUFFICES ASSUME NEW n \in Attempts, ~closed, attempt'[n] = "closing",
                      entryOf'[n] \notin overlapped', desired'[entryOf'[n]]
               PROVE  \E m \in Attempts : /\ attempt'[m] \in InFlight /\ entryOf'[m] = entryOf'[n]
                                          /\ attempt'[m] = "stopping" /\ replaces'[m] = n
    BY DEF ClosingAwaited, StartsOf
  <2>1. n # k /\ entryOf'[n] = entryOf[n] BY <1>4, <1>5 DEF InFlight
  <2>2. attempt[n] # "none" BY <1>2, <1>5, <2>1
  <2>3. entryOf[n] \in Entries
    <3>1. entryOf[n] \in 1 .. entries BY <1>11, <2>1, <2>2
    <3> QED BY <1>t, <3>1
  <2>4. CASE n = held[e]
    BY <1>1, <1>2, <1>4, <1>t, <2>1, <2>4
  <2>5. CASE n # held[e]
    <3>1. attempt[n] = "closing" BY <1>5, <2>1, <2>5
    <3>2. entryOf[n] # e
      <4> SUFFICES ASSUME entryOf[n] = e PROVE FALSE
        OBVIOUS
      <4>1. StartsOf(e) = {} /\ e \notin overlapped BY <1>7, <2>1
      <4>2. desired[e] BY <2>2
      <4> QED BY <3>1, <4>1, <4>2 DEF HeldInv, ClosingAwaited
    <3>3. desired[entryOf[n]] /\ entryOf[n] \notin overlapped BY <1>6, <1>7, <2>1, <2>3, <3>2
    <3>4. PICK m \in StartsOf(entryOf[n]) : attempt[m] = "stopping" /\ replaces[m] = n
      BY <3>1, <3>3 DEF HeldInv, ClosingAwaited
    <3>5. m \in Attempts /\ attempt[m] \in InFlight /\ entryOf[m] = entryOf[n]
      BY <3>4 DEF StartsOf
    <3> QED BY <1>5, <1>9, <2>1, <3>4, <3>5
  <2> QED BY <2>4, <2>5
<1>15. OpenIsHeld'
  <2> SUFFICES ASSUME NEW n \in Attempts, ~closed, attempt'[n] = "open",
                      entryOf'[n] \notin overlapped'
               PROVE  /\ held'[entryOf'[n]] = n /\ desired'[entryOf'[n]]
                      /\ configOf'[n] = startedWith'[entryOf'[n]]
    BY DEF OpenIsHeld
  <2>1. n # k BY <1>4 DEF InFlight
  <2>2. n # held[e] /\ attempt[n] = "open" /\ entryOf'[n] = entryOf[n] /\ configOf'[n] = configOf[n]
    BY <1>5, <2>1
  <2>3. entryOf[n] \in Entries
    <3>1. entryOf[n] \in 1 .. entries BY <1>11, <2>1, <2>2
    <3> QED BY <1>t, <3>1
  <2>4. /\ held[entryOf[n]] = n /\ desired[entryOf[n]] /\ configOf[n] = startedWith[entryOf[n]]
    BY <1>7, <2>2, <2>3 DEF HeldInv, OpenIsHeld
  <2> QED BY <1>6, <2>2, <2>3, <2>4
<1> QED BY <1>12, <1>13, <1>14, <1>15

\* One attempt goes on: a start stays alone, and its entry takes or loses only it.
LEMMA MoveKeepsHeld ==
  ASSUME InvK, HeldInv, NEW n \in Attempts,
         attempt[n] # "none", attempt'[n] # "none",
         \A m \in Attempts : m # n => attempt'[m] = attempt[m],
         attempt'[n] \in InFlight => attempt[n] \in InFlight,
         attempt'[n] = "closing" => attempt[n] = "closing",
         attempt[n] = "stopping" => attempt'[n] = "stopping" \/ Gone(replaces[n]),
         attempt'[n] = "open" =>
           attempt[n] \in InFlight /\ held'[entryOf[n]] = n /\ desired[entryOf[n]],
         \A d \in Entries :
           \/ held'[d] = held[d]
           \/ /\ d = entryOf[n] /\ attempt[n] \in InFlight \cup {"open", "closing"}
              /\ held'[d] = 0 \/ (held'[d] = n /\ attempt'[n] = "open"),
         UNCHANGED <<closed, entries, desired, startedWith, entryOf, configOf, replaces,
                     overlapped>>
  PROVE  Owned' /\ StartsAlone' /\ ClosingAwaited' /\ OpenIsHeld'
<1> USE Bounds
<1>t. /\ attempt \in [Attempts -> AttemptStates] /\ entryOf \in [Attempts -> Entries \cup {0}]
      /\ replaces \in [Attempts -> Attempts \cup {0}] /\ held \in [Entries -> Attempts \cup {0}]
      /\ entries \in 0 .. 1 + MaxChanges
  BY DEF InvK, TypeOK
<1>1. \A m \in Attempts : attempt[m] # "none" => entryOf[m] \in 1 .. entries /\ entryOf[m] \in Entries
  BY <1>t DEF HeldInv, Owned
<1>2. \A m \in Attempts : attempt'[m] \in InFlight => attempt[m] \in InFlight /\ attempt[m] # "none"
  BY DEF InFlight
<1>3. Owned'
  <2>1. \A m \in Attempts : attempt'[m] # "none" => attempt[m] # "none"
    OBVIOUS
  <2>2. ASSUME NEW d \in Entries, held'[d] # 0 PROVE entryOf[held'[d]] = d /\ desired[d]
    BY <2>2 DEF HeldInv, Owned
  <2>3. \A e \in Entries : desired[e] => e <= entries BY DEF HeldInv, Owned
  <2> QED BY <1>1, <2>1, <2>2, <2>3 DEF Owned
<1>4. StartsAlone'
  <2> SUFFICES ASSUME NEW m \in Attempts, attempt'[m] \in InFlight, entryOf[m] \notin overlapped
               PROVE  /\ StartsOf(entryOf[m])' = {m} /\ held'[entryOf[m]] = 0
                      /\ configOf[m] = startedWith[entryOf[m]]
    BY DEF StartsAlone, StartsOf
  <2>1. /\ StartsOf(entryOf[m]) = {m} /\ held[entryOf[m]] = 0
        /\ configOf[m] = startedWith[entryOf[m]] /\ entryOf[m] \in Entries
    BY <1>1, <1>2 DEF HeldInv, StartsAlone
  <2>2. StartsOf(entryOf[m])' = {m} BY <1>2, <2>1 DEF StartsOf
  <2>3. held'[entryOf[m]] = 0
    <3> SUFFICES ASSUME held'[entryOf[m]] # 0 PROVE FALSE
      OBVIOUS
    <3>1. entryOf[m] = entryOf[n] /\ attempt'[n] = "open" BY <2>1
    <3>2. n \in StartsOf(entryOf[m]) /\ n # m BY <3>1 DEF StartsOf, InFlight
    <3> QED BY <2>1, <3>2
  <2> QED BY <2>1, <2>2, <2>3
<1>5. ClosingAwaited'
  <2> SUFFICES ASSUME NEW m \in Attempts, ~closed, attempt'[m] = "closing",
                      entryOf[m] \notin overlapped, desired[entryOf[m]]
               PROVE  \E o \in Attempts : /\ attempt'[o] \in InFlight /\ entryOf[o] = entryOf[m]
                                          /\ attempt'[o] = "stopping" /\ replaces[o] = m
    BY DEF ClosingAwaited, StartsOf
  <2>1. attempt[m] = "closing" OBVIOUS
  <2>2. PICK o \in StartsOf(entryOf[m]) : attempt[o] = "stopping" /\ replaces[o] = m
    BY <2>1 DEF HeldInv, ClosingAwaited
  <2>3. o \in Attempts /\ entryOf[o] = entryOf[m] BY <2>2 DEF StartsOf
  <2>4. ~Gone(replaces[o]) BY <2>1, <2>2 DEF Gone
  <2>5. attempt'[o] = "stopping" BY <2>2, <2>3, <2>4
  <2> QED BY <2>2, <2>3, <2>5 DEF InFlight
<1>6. OpenIsHeld'
  <2> SUFFICES ASSUME NEW m \in Attempts, ~closed, attempt'[m] = "open",
                      entryOf[m] \notin overlapped
               PROVE  /\ held'[entryOf[m]] = m /\ desired[entryOf[m]]
                      /\ configOf[m] = startedWith[entryOf[m]]
    BY DEF OpenIsHeld
  <2>1. CASE m = n BY <2>1 DEF HeldInv, StartsAlone
  <2>2. CASE m # n
    <3>1. attempt[m] = "open" BY <2>2
    <3>2. /\ held[entryOf[m]] = m /\ desired[entryOf[m]] /\ entryOf[m] \in Entries
          /\ configOf[m] = startedWith[entryOf[m]]
      BY <1>1, <3>1 DEF HeldInv, OpenIsHeld
    <3>3. held'[entryOf[m]] = held[entryOf[m]]
      <4> SUFFICES ASSUME entryOf[m] = entryOf[n],
                          attempt[n] \in InFlight \cup {"open", "closing"}
                   PROVE  FALSE
        BY <3>2
      <4>1. attempt[n] \notin InFlight BY <3>2, <1>t DEF HeldInv, StartsAlone
      <4>2. attempt[n] # "open" BY <2>2, <3>2 DEF HeldInv, OpenIsHeld
      <4>3. attempt[n] # "closing"
        <5> SUFFICES ASSUME attempt[n] = "closing" PROVE FALSE
          OBVIOUS
        <5>1. PICK o \in StartsOf(entryOf[n]) : attempt[o] = "stopping"
          BY <3>2 DEF HeldInv, ClosingAwaited
        <5>2. o \in Attempts /\ attempt[o] \in InFlight /\ entryOf[o] = entryOf[n]
          BY <5>1 DEF StartsOf
        <5> QED BY <1>t, <3>2, <5>2 DEF HeldInv, StartsAlone
      <4> QED BY <4>1, <4>2, <4>3
    <3> QED BY <3>2, <3>3
  <2> QED BY <2>1, <2>2
<1> QED BY <1>3, <1>4, <1>5, <1>6

\* Nothing about attempts and what the entries hold changes.
LEMMA SameKeepsHeld ==
  ASSUME HeldInv, UNCHANGED <<closed, entries, desired, startedWith, held, attempt, entryOf,
                              configOf, replaces, overlapped>>
  PROVE  Owned' /\ StartsAlone' /\ ClosingAwaited' /\ OpenIsHeld'
BY DEF HeldInv, Owned, StartsAlone, ClosingAwaited, OpenIsHeld, StartsOf

LEMMA HeldCoreSteps ==
  ASSUME InvK, HeldInv, \/ \E w \in Configs \cup {"off"} : Change(w)
                        \/ Shutdown
  PROVE  HeldInv'
<1> USE Bounds
<1>1. ASSUME NEW w \in Configs \cup {"off"}, Change(w) PROVE HeldInv'
  <2>1. Owned' /\ StartsAlone' /\ ClosingAwaited' /\ OpenIsHeld'
    BY <1>1, SameKeepsHeld DEF Change, managed, made
  <2>2. RowWanted' BY <1>1 DEF Change, managed, recon, HeldInv, RowWanted
  <2> QED BY <2>1, <2>2 DEF HeldInv
<1>2. ASSUME Shutdown PROVE HeldInv'
  <2>1. RowWanted' /\ ClosingAwaited' /\ OpenIsHeld'
    BY <1>2 DEF Shutdown, RowWanted, ClosingAwaited, OpenIsHeld
  <2>2. /\ \A n \in Attempts : \/ attempt'[n] = attempt[n]
                               \/ /\ attempt'[n] = "closing"
                                  /\ attempt[n] \notin InFlight \cup {"none"}
        /\ \A e \in Entries : held'[e] = 0 /\ ~desired'[e]
        /\ UNCHANGED <<entries, startedWith, entryOf, configOf, overlapped>>
    BY SMTT(30), <1>2 DEF Shutdown, InvK, TypeOK, HeldIsUp
  <2>3. \A n \in Attempts : attempt'[n] \in InFlight <=> attempt[n] \in InFlight
    BY <2>2 DEF InFlight
  <2>4. Owned' BY <2>2 DEF HeldInv, Owned
  <2>5. StartsAlone'
    <3> SUFFICES ASSUME NEW n \in Attempts, attempt'[n] \in InFlight, entryOf[n] \notin overlapped
                 PROVE  /\ StartsOf(entryOf[n])' = {n} /\ held'[entryOf[n]] = 0
                        /\ configOf[n] = startedWith[entryOf[n]]
      BY <2>2 DEF StartsAlone, StartsOf
    <3>1. attempt[n] \in InFlight /\ attempt[n] # "none" BY <2>3 DEF InFlight
    <3>2. entryOf[n] \in Entries BY <3>1 DEF HeldInv, Owned, InvK, TypeOK
    <3>3. StartsOf(entryOf[n]) = {n} /\ configOf[n] = startedWith[entryOf[n]]
      BY <3>1 DEF HeldInv, StartsAlone
    <3>4. StartsOf(entryOf[n])' = {n} BY <2>2, <2>3, <3>3 DEF StartsOf
    <3> QED BY <2>2, <3>2, <3>3, <3>4
  <2> QED BY <2>1, <2>4, <2>5 DEF HeldInv
<1> QED BY <1>1, <1>2

LEMMA HeldReconcileSteps ==
  ASSUME InvK, HeldInv, Reconcile \/ ReconcileFails
  PROVE  HeldInv'
<1> USE Bounds
<1>1. CASE BeginReconcile \/ ReconcileFails \/ LeaveAlone \/ Applied
  <2>1. Owned' /\ StartsAlone' /\ ClosingAwaited' /\ OpenIsHeld'
    BY <1>1, SameKeepsHeld
    DEF BeginReconcile, ReconcileFails, LeaveAlone, Applied, core, managed, made
  <2>2. RowWanted'
    BY <1>1
    DEF BeginReconcile, ReconcileFails, LeaveAlone, Reading, Applied, core, managed, HeldInv,
        RowWanted
  <2> QED BY <2>1, <2>2 DEF HeldInv
<1>2. ASSUME Removed PROVE HeldInv'
  <2>1. Owned' /\ StartsAlone' /\ ClosingAwaited' /\ OpenIsHeld'
    BY <1>2, SameKeepsHeld DEF Removed, core, made
  <2> QED BY <1>2, <2>1 DEF Removed, HeldInv, RowWanted
<1>3. ASSUME Remove PROVE HeldInv'
  <2>0. row \in Entries BY <1>3 DEF Remove, InvK, TypeOK
  <2>1. /\ \A n \in Attempts : n # held[row] => attempt'[n] = attempt[n]
        /\ \A n \in Attempts : n = held[row] => /\ attempt'[n] = "closing" /\ entryOf[n] = row
                                                /\ attempt[n] \notin InFlight \cup {"none"}
    BY <1>3, <2>0 DEF Remove, LetGo, InvK, TypeOK, HeldIsUp, HeldInv, Owned
  <2>2. /\ held'[row] = 0 /\ ~desired'[row]
        /\ \A e \in Entries : e # row => held'[e] = held[e] /\ desired'[e] = desired[e]
        /\ UNCHANGED <<closed, entries, startedWith, entryOf, configOf, replaces, overlapped>>
    BY <1>3, <2>0 DEF Remove, core, InvK, TypeOK
  <2>3. /\ \A n \in Attempts : attempt[n] \in InFlight => attempt'[n] = attempt[n]
        /\ \A n \in Attempts : attempt'[n] \in InFlight => attempt[n] \in InFlight
    BY <2>1 DEF InFlight
  <2>4. \A n \in Attempts : attempt[n] # "none" => entryOf[n] \in Entries
    BY DEF HeldInv, Owned, InvK, TypeOK
  <2>5. \A e : StartsOf(e)' = StartsOf(e) BY <2>2, <2>3 DEF StartsOf
  <2>6. Owned'
    <3>1. \A n \in Attempts : attempt'[n] # "none" => attempt[n] # "none" BY <2>1
    <3>2. \A e \in Entries : held'[e] # 0 => entryOf[held'[e]] = e /\ desired'[e]
      BY <2>2 DEF HeldInv, Owned
    <3> QED BY <2>2, <3>1, <3>2 DEF HeldInv, Owned
  <2>7. StartsAlone'
    <3> SUFFICES ASSUME NEW n \in Attempts, attempt'[n] \in InFlight, entryOf[n] \notin overlapped
                 PROVE  /\ StartsOf(entryOf[n])' = {n} /\ held'[entryOf[n]] = 0
                        /\ configOf[n] = startedWith[entryOf[n]]
      BY <2>2 DEF StartsAlone
    <3>1. attempt[n] \in InFlight /\ entryOf[n] \in Entries BY <2>3, <2>4 DEF InFlight
    <3> QED BY <2>2, <2>5, <3>1 DEF HeldInv, StartsAlone
  <2>8. ClosingAwaited'
    <3> SUFFICES ASSUME NEW n \in Attempts, ~closed, attempt'[n] = "closing",
                        entryOf[n] \notin overlapped, desired'[entryOf[n]]
                 PROVE  \E m \in StartsOf(entryOf[n]) : attempt'[m] = "stopping" /\ replaces[m] = n
      BY <2>2, <2>5 DEF ClosingAwaited
    <3>1. entryOf[n] # row BY <2>2
    <3>2. attempt[n] = "closing" /\ entryOf[n] \in Entries BY <2>1, <2>4, <3>1
    <3>3. PICK m \in StartsOf(entryOf[n]) : attempt[m] = "stopping" /\ replaces[m] = n
      BY <2>2, <3>1, <3>2 DEF HeldInv, ClosingAwaited
    <3> QED BY <2>3, <3>3 DEF StartsOf
  <2>9. OpenIsHeld'
    <3> SUFFICES ASSUME NEW n \in Attempts, ~closed, attempt'[n] = "open",
                        entryOf[n] \notin overlapped
                 PROVE  /\ held'[entryOf[n]] = n /\ desired'[entryOf[n]]
                        /\ configOf[n] = startedWith[entryOf[n]]
      BY <2>2 DEF OpenIsHeld
    <3>1. attempt[n] = "open" /\ n # held[row] /\ entryOf[n] \in Entries BY <2>1, <2>4
    <3>2. /\ held[entryOf[n]] = n /\ desired[entryOf[n]]
          /\ configOf[n] = startedWith[entryOf[n]]
      BY <3>1 DEF HeldInv, OpenIsHeld
    <3> QED BY <2>2, <3>1, <3>2
  <2>10. RowWanted' BY <1>3 DEF Remove, RowWanted
  <2> QED BY <2>6, <2>7, <2>8, <2>9, <2>10 DEF HeldInv
<1>4. ASSUME Apply PROVE HeldInv'
  <2>1. /\ row' \in Entries /\ row' <= entries' /\ entries <= entries' /\ entries' \in Nat
        /\ want \in Configs \cup {"off"} /\ entries \in Nat
    BY <1>4 DEF Apply, InvK, TypeOK, Rows
  <2>2. closed \/ desired[row'] \/ \A m \in Attempts : attempt[m] # "none" => entryOf[m] # row'
    <3>1. CASE row = 0
      <4>1. row' = entries + 1 BY <1>4, <3>1 DEF Apply
      <4>2. \A m \in Attempts : attempt[m] # "none" => entryOf[m] \in 1 .. entries
        BY DEF HeldInv, Owned
      <4> QED BY <2>1, <4>1, <4>2
    <3>2. CASE row # 0
      BY <1>4, <3>2 DEF Apply, Reading, HeldInv, RowWanted
    <3> QED BY <3>1, <3>2
  <2> DEFINE e == row'
  <2>3. Start(e, want) /\ UNCHANGED closed BY <1>4 DEF Apply, core
  <2>4. desired'[e] BY <2>1, <2>3 DEF Start, InvK, TypeOK
  <2> HIDE DEF e
  <2>5. e \in Entries /\ e <= entries'
        /\ (closed \/ desired[e] \/ \A m \in Attempts : attempt[m] # "none" => entryOf[m] # e)
    BY <2>1, <2>2 DEF e
  <2>6. Owned' /\ StartsAlone' /\ ClosingAwaited' /\ OpenIsHeld'
    BY <2>1, <2>3, <2>5, StartKeepsHeld
  <2>7. RowWanted' BY <2>4 DEF RowWanted, e
  <2> QED BY <2>6, <2>7 DEF HeldInv
<1> QED BY <1>1, <1>2, <1>3, <1>4 DEF Reconcile

LEMMA HeldStartSteps ==
  ASSUME InvK, HeldInv, NEW n \in Attempts, Settle(n) \/ HookReady(n) \/ HookError(n)
  PROVE  HeldInv'
<1> USE Bounds
<1>t. /\ attempt \in [Attempts -> AttemptStates] /\ held \in [Entries -> Attempts \cup {0}]
  BY DEF InvK, TypeOK
<1>r. ASSUME UNCHANGED <<closed, row, reconciler, desired>> PROVE RowWanted'
  BY <1>r DEF HeldInv, RowWanted
<1>1. ASSUME Stopped(n) PROVE HeldInv'
  <2>1. Owned' /\ StartsAlone' /\ ClosingAwaited' /\ OpenIsHeld'
    BY <1>1, <1>t, MoveKeepsHeld DEF Stopped, core, InFlight
  <2> QED BY <1>1, <1>r, <2>1 DEF Stopped, core, recon, HeldInv
<1>2. ASSUME Connected(n) PROVE HeldInv'
  <2>1. entryOf[n] \in Entries
    BY <1>2 DEF Connected, HeldInv, Owned, InvK, TypeOK
  <2>2. /\ attempt'[n] = "open" /\ attempt[n] = "connecting"
        /\ \A m \in Attempts : m # n => attempt'[m] = attempt[m]
        /\ held'[entryOf[n]] = n /\ desired[entryOf[n]]
        /\ \A d \in Entries : d # entryOf[n] => held'[d] = held[d]
        /\ UNCHANGED <<closed, entries, desired, startedWith, entryOf, configOf, replaces,
                       overlapped>>
    BY <1>2, <1>t, <2>1 DEF Connected, core
  <2>3. Owned' /\ StartsAlone' /\ ClosingAwaited' /\ OpenIsHeld'
    BY <2>2, MoveKeepsHeld DEF InFlight
  <2> QED BY <1>2, <1>r, <2>3 DEF Connected, core, recon, HeldInv
<1>3. ASSUME HandBack(n) PROVE HeldInv'
  <2>1. Owned' /\ StartsAlone' /\ ClosingAwaited' /\ OpenIsHeld'
    BY <1>3, <1>t, MoveKeepsHeld DEF HandBack, core, managed, InFlight
  <2> QED BY <1>3, <1>r, <2>1 DEF HandBack, core, recon, managed, HeldInv
<1>4. ASSUME HandedBack(n) PROVE HeldInv'
  <2>1. Owned' /\ StartsAlone' /\ ClosingAwaited' /\ OpenIsHeld'
    BY <1>4, <1>t, MoveKeepsHeld DEF HandedBack, core, InFlight
  <2> QED BY <1>4, <1>r, <2>1 DEF HandedBack, core, recon, HeldInv
<1>f. ASSUME Fail(entryOf[n]) PROVE \A d \in Entries :
        held'[d] = held[d] \/ (d = entryOf[n] /\ held'[d] = 0)
  BY <1>f, <1>t DEF Fail
<1>5. ASSUME ConnectFails(n) PROVE HeldInv'
  <2>1. /\ attempt'[n] = "failed" /\ attempt[n] = "connecting"
        /\ \A m \in Attempts : m # n => attempt'[m] = attempt[m]
        /\ UNCHANGED <<closed, entries, desired, startedWith, entryOf, configOf, replaces,
                       overlapped>>
    BY <1>5, <1>t DEF ConnectFails, Fail, core
  <2>2. \A d \in Entries : held'[d] = held[d] \/ (d = entryOf[n] /\ held'[d] = 0)
    BY <1>5, <1>f DEF ConnectFails
  <2>3. Owned' /\ StartsAlone' /\ ClosingAwaited' /\ OpenIsHeld'
    BY <2>1, <2>2, MoveKeepsHeld DEF InFlight
  <2> QED BY <1>5, <1>r, <2>3 DEF ConnectFails, Fail, core, recon, HeldInv
<1>6. ASSUME Close(n) PROVE HeldInv'
  <2>1. Owned' /\ StartsAlone' /\ ClosingAwaited' /\ OpenIsHeld'
    BY <1>6, <1>t, MoveKeepsHeld DEF Close, core, managed, InFlight
  <2> QED BY <1>6, <1>r, <2>1 DEF Close, core, recon, managed, HeldInv
<1>7. ASSUME HookReady(n) PROVE HeldInv'
  <2>1. Owned' /\ StartsAlone' /\ ClosingAwaited' /\ OpenIsHeld'
    BY <1>7, SameKeepsHeld DEF HookReady, core, made
  <2> QED BY <1>7, <1>r, <2>1 DEF HookReady, core, recon, HeldInv
<1>8. ASSUME HookError(n) PROVE HeldInv'
  <2>1. /\ attempt[n] \in {"connecting", "open", "closing"}
        /\ attempt'[n] = IF attempt[n] = "open" THEN "dead" ELSE attempt[n]
        /\ \A m \in Attempts : m # n => attempt'[m] = attempt[m]
        /\ UNCHANGED <<closed, entries, desired, startedWith, entryOf, configOf, replaces,
                       overlapped>>
    BY <1>8, <1>t DEF HookError, Fail, core
  <2>2. \A d \in Entries : held'[d] = held[d] \/ (d = entryOf[n] /\ held'[d] = 0)
    BY <1>8, <1>f DEF HookError
  <2>3. Owned' /\ StartsAlone' /\ ClosingAwaited' /\ OpenIsHeld'
    BY <2>1, <2>2, MoveKeepsHeld DEF InFlight
  <2> QED BY <1>8, <1>r, <2>3 DEF HookError, Fail, core, recon, HeldInv
<1> QED BY <1>1, <1>2, <1>3, <1>4, <1>5, <1>6, <1>7, <1>8 DEF Settle

LEMMA HeldRetrySteps ==
  ASSUME InvK, HeldInv, NEW e \in Entries, Retry(e)
  PROVE  HeldInv'
<1> USE Bounds
<1>1. desired[e] /\ timer[e] BY DEF Retry, InvK, NoRetryUnwanted
<1>2. e <= entries /\ entries \in Nat /\ startedWith[e] \in Configs \cup {"off"}
  BY <1>1 DEF InvK, TypeOK, HeldInv, Owned
<1>3. Owned' /\ StartsAlone' /\ ClosingAwaited' /\ OpenIsHeld'
  BY <1>1, <1>2, StartKeepsHeld DEF Retry, core
<1>4. RowWanted' BY DEF Retry, Start, core, recon, HeldInv, RowWanted, InvK, TypeOK
<1> QED BY <1>3, <1>4 DEF HeldInv

LEMMA HeldAlways == Spec => [](InvK /\ HeldInv)
<1>1. Init => InvK /\ HeldInv
  <2>1. Init => HeldInv
    BY DEF Init, HeldInv, Owned, RowWanted, StartsAlone, ClosingAwaited, OpenIsHeld, InFlight
  <2> QED BY <2>1, InvInit
<1>2. InvK /\ HeldInv /\ [Next]_vars => (InvK /\ HeldInv)'
  <2> SUFFICES ASSUME InvK, HeldInv, [Next]_vars PROVE HeldInv'
    BY InvNext
  <2>1. CASE UNCHANGED vars
    <3>1. Owned' /\ StartsAlone' /\ ClosingAwaited' /\ OpenIsHeld'
      BY <2>1, SameKeepsHeld DEF vars, core, managed, made
    <3> QED BY <2>1, <3>1 DEF vars, core, recon, managed, HeldInv, RowWanted
  <2> QED BY <2>1, HeldCoreSteps, HeldReconcileSteps, HeldStartSteps, HeldRetrySteps DEF Next
<1> QED BY <1>1, <1>2, PTL DEF Spec

\* Until the host shuts down, a connection that is open is the one its entry holds,
\* wanted, and opened with the configuration the entry is compared by, unless a retry
\* and a reconcile once started that entry at once: whatever fails, closes or changes.
THEOREM OpenIsHeldHolds == Spec => []OpenIsHeld
<1>1. InvK /\ HeldInv => OpenIsHeld BY DEF HeldInv
<1> QED BY <1>1, HeldAlways, PTL
=============================================================================
