--------------------------- MODULE Ingest_proofs ---------------------------
(***************************************************************************)
(* Theorems about Ingest, for every number of messages, assistants, worker *)
(* slots, redeliveries and faults.                                         *)
(***************************************************************************)
EXTENDS Ingest, TLAPS

(***************************************************************************)
(* The inductive invariant.  Jobs: the wait list holds waiting jobs, each  *)
(* once, and a receipt that is still due has no job, so that nothing is    *)
(* put back or handled twice at a time.  Runs: only the head of the chain  *)
(* ingests, and the message it ingests is the last of the mirror.  Turns:  *)
(* a message is mirrored once, and before it has turns.                    *)
(***************************************************************************)
NoRepeats(s) == \A i, k \in 1 .. Len(s) : s[i] = s[k] => i = k

JobInv ==
  /\ \A i \in 1 .. Len(wait) : job[wait[i]] = "waiting"
  /\ NoRepeats(wait)
  /\ \A r \in due : job[r] = "absent" /\ messageOf(r) <= posted
  /\ \A r \in Receipts : job[r] # "absent" => messageOf(r) <= posted

\* The message of an ingesting job has turns for the receivers done so far only.
IngestsAlone(r) ==
  /\ chain # <<>> /\ Head(chain) = r /\ r \notin presence
  /\ rows # <<>> /\ messageOf(r) = rows[Len(rows)]
  /\ \A i \in 1 .. Len(turns) : turns[i][1] = messageOf(r) =>
       job[r] = "opening" /\ turns[i][2] \notin todo

RunInv == \A r \in Receipts : job[r] \in Ingesting => IngestsAlone(r)

TurnInv ==
  /\ NoRepeats(rows)
  /\ \A i \in 1 .. Len(turns) : \E k \in 1 .. Len(rows) : turns[i][1] = rows[k]

(***************************************************************************)
(* Facts about the data.                                                   *)
(***************************************************************************)
LEMMA ReceiptParts ==
  /\ \A r \in Receipts : messageOf(r) \in Messages /\ receiverOf(r) \in Assistants
  /\ \A r \in Receipts : r[1] \in Messages /\ r[2] \in Assistants /\ r[3] \in 1 .. 2
  /\ \A m \in Messages : \A a \in Assistants : <<m, a, 1>> \in Receipts /\ <<m, a, 2>> \in Receipts
  BY DEF Receipts, messageOf, receiverOf

LEMMA HeadAndTail ==
  ASSUME NEW S, NEW s \in Seq(S), s # <<>>
  PROVE  /\ Head(s) \in S /\ Head(s) = s[1] /\ 1 \in 1 .. Len(s)
         /\ Tail(s) \in Seq(S) /\ Len(Tail(s)) = Len(s) - 1
         /\ \A i \in 1 .. Len(Tail(s)) : i + 1 \in 1 .. Len(s) /\ Tail(s)[i] = s[i + 1]
  OBVIOUS

LEMMA Appended ==
  ASSUME NEW S, NEW s \in Seq(S), NEW x \in S
  PROVE  /\ Append(s, x) \in Seq(S) /\ Len(Append(s, x)) = Len(s) + 1
         /\ Append(s, x)[Len(s) + 1] = x
         /\ \A i \in 1 .. Len(s) : Append(s, x)[i] = s[i]
  OBVIOUS

\* Appending what is not in a sequence without repetitions adds none.
LEMMA AppendedNoRepeats ==
  ASSUME NEW S, NEW s \in Seq(S), NEW x \in S, NoRepeats(s),
         \A i \in 1 .. Len(s) : s[i] # x
  PROVE  NoRepeats(Append(s, x))
<1> DEFINE a == Append(s, x)
<1>1. Len(a) = Len(s) + 1 /\ a[Len(s) + 1] = x /\ \A i \in 1 .. Len(s) : a[i] = s[i]
  BY Appended
<1> HIDE DEF a
<1>2. \A i \in 1 .. Len(a) : i \in 1 .. Len(s) \/ i = Len(s) + 1
  BY <1>1
<1>3. \A i, k \in 1 .. Len(a) : a[i] = a[k] => i = k
  BY <1>1, <1>2 DEF NoRepeats
<1> QED  BY <1>3 DEF NoRepeats, a

LEMMA States ==
  /\ Ingesting \subseteq JobStates /\ Active \subseteq JobStates
  /\ {"absent", "waiting", "picked", "stalled", "over"} \subseteq JobStates
  /\ {"absent", "waiting", "picked", "stalled", "over"} \cap Ingesting = {}
  /\ Ingesting \subseteq Active /\ "waiting" \notin Active /\ "absent" \notin Active
  BY DEF Ingesting, Active, JobStates

\* The types of what the running job reads, and what is left when it is over.
LEMMA Running ==
  ASSUME TypeOK, NEW r, NEW s, Runs(r, s)
  PROVE  /\ chain \in Seq(Receipts) /\ chain # <<>> /\ r = Head(chain) /\ r \in Receipts
         /\ job[r] = s /\ Tail(chain) \in Seq(Receipts) /\ Len(Tail(chain)) <= Concurrency
<1>1. chain \in Seq(Receipts) /\ chain # <<>> /\ Len(chain) <= Concurrency /\ Len(chain) \in Nat
  BY DEF TypeOK, Runs
<1> QED  BY <1>1, HeadAndTail, IngestAssumption DEF Runs

LEMMA OverTypes ==
  ASSUME TypeOK, NEW r, NEW s, Runs(r, s), Over(r)
  PROVE  /\ r \in Receipts
         /\ job' \in [Receipts -> JobStates] /\ presence' \subseteq Receipts
         /\ wait' \in Seq(Receipts) /\ chain' \in Seq(Receipts) /\ Len(chain') <= Concurrency
         /\ todo' \subseteq Assistants
         /\ \A q \in Receipts : job'[q] = IF q = r THEN "over" ELSE job[q]
<1>1. r \in Receipts /\ chain' = Tail(chain) /\ job' = [job EXCEPT ![r] = "over"]
  BY Running DEF Over
<1>2. job' \in [Receipts -> JobStates] /\ \A q \in Receipts : job'[q] = IF q = r THEN "over" ELSE job[q]
  BY <1>1, States DEF TypeOK
<1> QED  BY <1>1, <1>2, Running DEF Over, TypeOK

(***************************************************************************)
(* Type correctness.                                                       *)
(***************************************************************************)
LEMMA InitTypes == Init => TypeOK
  BY IngestAssumption DEF Init, TypeOK, JobStates, Messages

LEMMA NextTypes == TypeOK /\ [Next]_vars => TypeOK'
<1> SUFFICES ASSUME TypeOK, [Next]_vars PROVE TypeOK'
  OBVIOUS
<1> USE DEF edge, queue, store, counters
<1>n. NMessages \in Nat /\ Concurrency \in Nat
  BY IngestAssumption
<1>1. CASE Post
  <2>1. posted + 1 \in Messages /\ posted' \in 0 .. NMessages
    BY <1>1, <1>n DEF Post, TypeOK, Messages
  <2>2. due' \subseteq Receipts
    BY <1>1, <2>1, ReceiptParts DEF Post, TypeOK
  <2> QED  BY <1>1, <2>1, <2>2 DEF Post, TypeOK
<1>2. ASSUME NEW r \in Receipts, Redeliver(r)
      PROVE  TypeOK'
  BY <1>2, ReceiptParts DEF Redeliver, TypeOK
<1>3. ASSUME NEW r \in Receipts, Forward(r)
      PROVE  TypeOK'
  <2>1. job' \in [Receipts -> JobStates] /\ wait' \in Seq(Receipts)
    BY <1>3, States, Appended DEF Forward, TypeOK
  <2>2. seen' \subseteq Messages /\ presence' \subseteq Receipts /\ due' \subseteq Receipts
    BY <1>3, ReceiptParts DEF Forward, TypeOK
  <2> QED  BY <1>3, <2>1, <2>2 DEF Forward, TypeOK
<1>4. ASSUME NEW r \in Receipts, PublishFails(r)
      PROVE  TypeOK'
  BY <1>4, ReceiptParts DEF PublishFails, Failing, TypeOK
<1>5. ASSUME NEW m \in Messages, Forget(m)
      PROVE  TypeOK'
  BY <1>5 DEF Forget, Failing, TypeOK
<1>6. CASE Pick
  <2>1. Head(wait) \in Receipts /\ Tail(wait) \in Seq(Receipts)
    BY <1>6, HeadAndTail DEF Pick, TypeOK
  <2>2. job' \in [Receipts -> JobStates] /\ wait' \in Seq(Receipts)
    BY <1>6, <2>1, States DEF Pick, TypeOK
  <2>3. chain' \in Seq(Receipts) /\ Len(chain') <= Concurrency
    <3>1. chain \in Seq(Receipts) /\ Len(chain) < Concurrency /\ chain' = Append(chain, Head(wait))
      BY <1>6 DEF Pick, TypeOK
    <3>2. chain' \in Seq(Receipts) /\ Len(chain') = Len(chain) + 1 /\ Len(chain) \in Nat
      BY <2>1, <3>1, Appended
    <3> QED  BY <1>n, <3>1, <3>2
  <2> QED  BY <1>6, <2>2, <2>3 DEF Pick, TypeOK
<1>7. ASSUME NEW r \in Receipts, Present(r) \/ MirroredBefore(r)
      PROVE  TypeOK'
  BY <1>7, OverTypes, ReceiptParts DEF Present, MirroredBefore, TypeOK
<1>8. ASSUME NEW r \in Receipts, Mirror(r)
      PROVE  TypeOK'
  <2>1. job' \in [Receipts -> JobStates]
    BY <1>8, States DEF Mirror, TypeOK, Ingesting
  <2>2. rows' \in Seq(Messages) /\ present' \subseteq Assistants
    BY <1>8, ReceiptParts, Appended DEF Mirror, TypeOK
  <2> QED  BY <1>8, <2>1, <2>2 DEF Mirror, TypeOK
<1>9. ASSUME NEW r \in Receipts, Consume(r)
      PROVE  TypeOK'
  BY <1>9, OverTypes, ReceiptParts DEF Consume, TypeOK
<1>10. ASSUME NEW r \in Receipts, Resolve(r)
       PROVE  TypeOK'
  <2>1. PICK running \in SUBSET Assistants, here \in {present, {}} :
          IF Listening(r, running, here) = {}
          THEN Over(r) /\ broken' = broken \cup {<<messageOf(r), "unheard">>}
          ELSE /\ job' = [job EXCEPT ![r] = "opening"]
               /\ todo' = Listening(r, running, here)
               /\ UNCHANGED <<presence, wait, chain, broken>>
    BY <1>10 DEF Resolve
  <2>2. UNCHANGED <<edge, store, turns, counters>> /\ Runs(r, "mirrored")
    BY <1>10 DEF Resolve
  <2>3. CASE Listening(r, running, here) = {}
    BY <2>1, <2>2, <2>3, OverTypes, ReceiptParts DEF TypeOK
  <2>4. CASE Listening(r, running, here) # {}
    <3>1. job' \in [Receipts -> JobStates]
      BY <2>1, <2>4, States DEF TypeOK, Ingesting
    <3>2. todo' \subseteq Assistants
      BY <2>1, <2>4 DEF Listening
    <3> QED  BY <2>1, <2>2, <2>4, <3>1, <3>2 DEF TypeOK
  <2> QED  BY <2>3, <2>4
<1>11. ASSUME NEW r \in Receipts, NEW a \in Assistants, OpenTurn(r, a)
       PROVE  TypeOK'
  <2>1. turns' \in Seq(Messages \X Assistants)
    BY <1>11, ReceiptParts, Appended DEF OpenTurn, TypeOK
  <2>2. Runs(r, "opening") /\ UNCHANGED <<edge, store, broken, counters>>
    BY <1>11 DEF OpenTurn
  <2>3. CASE todo = {a}
    BY <1>11, <2>1, <2>2, <2>3, OverTypes DEF OpenTurn, TypeOK
  <2>4. CASE todo # {a}
    BY <1>11, <2>1, <2>2, <2>4 DEF OpenTurn, TypeOK
  <2> QED  BY <2>3, <2>4
<1>12. ASSUME NEW r \in Receipts, JobFails(r)
       PROVE  TypeOK'
  BY <1>12, OverTypes, ReceiptParts DEF JobFails, Failing, TypeOK
<1>13. CASE Crash
  <2>1. broken' \subseteq Messages \X {"failure", "crash", "unheard"}
    BY <1>13, ReceiptParts DEF Crash, TypeOK
  <2>2. job' \in [Receipts -> JobStates]
    BY <1>13, States DEF Crash, TypeOK
  <2> QED  BY <1>13, <1>n, <2>1, <2>2 DEF Crash, TypeOK
<1>14. ASSUME NEW r \in Receipts, Recover(r)
       PROVE  TypeOK'
  <2>1. job' \in [Receipts -> JobStates] /\ wait' \in Seq(Receipts)
    BY <1>14, States DEF Recover, TypeOK
  <2> QED  BY <1>14, <2>1 DEF Recover, TypeOK
<1>15. CASE UNCHANGED vars
  BY <1>15 DEF vars, TypeOK
<1> QED
  BY <1>1, <1>2, <1>3, <1>4, <1>5, <1>6, <1>7, <1>8, <1>9, <1>10, <1>11, <1>12, <1>13, <1>14, <1>15
     DEF Next, Handle

(***************************************************************************)
(* The jobs.                                                               *)
(***************************************************************************)

\* A step that leaves the wait list alone, keeps its jobs waiting and makes no
\* job of a receipt that is due.
LEMMA JobsKept ==
  ASSUME TypeOK, JobInv, UNCHANGED <<wait, posted>>, due' \subseteq due,
         \A r \in Receipts : job[r] = "waiting" => job'[r] = "waiting",
         \A r \in Receipts : job'[r] = "absent" <=> job[r] = "absent"
  PROVE  JobInv'
<1>1. \A i \in 1 .. Len(wait) : wait[i] \in Receipts
  BY DEF TypeOK
<1>2. due \subseteq Receipts
  BY DEF TypeOK
<1> QED  BY <1>1, <1>2 DEF JobInv, messageOf

\* ... or puts a job that was not waiting at one of its ends.
LEMMA JobsAdded ==
  ASSUME TypeOK, JobInv, NEW r \in Receipts, job[r] # "waiting", messageOf(r) <= posted,
         job' = [job EXCEPT ![r] = "waiting"], UNCHANGED posted, due' \subseteq due, r \notin due',
         wait' = Append(wait, r) \/ wait' = <<r>> \o wait
  PROVE  JobInv'
<1>1. wait \in Seq(Receipts) /\ \A q \in Receipts : job'[q] = IF q = r THEN "waiting" ELSE job[q]
  BY DEF TypeOK
<1>2. \A i \in 1 .. Len(wait) : wait[i] \in Receipts /\ job[wait[i]] = "waiting" /\ wait[i] # r
  BY <1>1 DEF JobInv
<1>3. /\ NoRepeats(wait')
      /\ \A i \in 1 .. Len(wait') : wait'[i] = r \/ \E k \in 1 .. Len(wait) : wait'[i] = wait[k]
  <2>1. CASE wait' = Append(wait, r)
    <3>1. NoRepeats(Append(wait, r))
      BY <1>1, <1>2, AppendedNoRepeats DEF JobInv
    <3> QED  BY <1>1, <2>1, <3>1
  <2>2. CASE wait' = <<r>> \o wait
    <3>1. /\ Len(wait') = Len(wait) + 1 /\ wait'[1] = r
          /\ \A i \in 1 .. Len(wait') : i # 1 => i - 1 \in 1 .. Len(wait) /\ wait'[i] = wait[i - 1]
      BY <1>1, <2>2
    <3>2. ASSUME NEW i \in 1 .. Len(wait'), NEW k \in 1 .. Len(wait'), wait'[i] = wait'[k]
          PROVE  i = k
      <4>1. CASE i = 1 \/ k = 1
        BY <1>2, <3>1, <3>2, <4>1
      <4>2. CASE i # 1 /\ k # 1
        <5>1. i - 1 = k - 1
          BY <3>1, <3>2, <4>2 DEF JobInv, NoRepeats
        <5> QED  BY <5>1
      <4> QED  BY <4>1, <4>2
    <3> QED  BY <3>1, <3>2 DEF NoRepeats
  <2> QED  BY <2>1, <2>2
<1>4. \A i \in 1 .. Len(wait') : job'[wait'[i]] = "waiting"
  BY <1>1, <1>2, <1>3
<1>5. \A q \in due' : q \in Receipts /\ q # r /\ job[q] = "absent" /\ messageOf(q) <= posted
  BY DEF JobInv, TypeOK
<1>6. \A q \in Receipts : job'[q] # "absent" => messageOf(q) <= posted
  BY <1>1 DEF JobInv
<1> QED  BY <1>1, <1>3, <1>4, <1>5, <1>6 DEF JobInv, messageOf

LEMMA InitJobs == Init => JobInv
  BY DEF Init, JobInv, NoRepeats

LEMMA NextJobs == TypeOK /\ JobInv /\ [Next]_vars => JobInv'
<1> SUFFICES ASSUME TypeOK, JobInv, [Next]_vars PROVE JobInv'
  OBVIOUS
<1> USE DEF edge, queue, store, counters
<1>d. due \subseteq Receipts /\ posted \in Nat
  BY DEF TypeOK
<1>w. \A i \in 1 .. Len(wait) : wait[i] \in Receipts
  BY DEF TypeOK
\* New receipts have no job: their message is new, or they have not been given before.
<1>1. ASSUME UNCHANGED <<job, wait>>, posted <= posted', posted' \in Nat,
             \A r \in due' \ due : r \in Receipts /\ job[r] = "absent" /\ messageOf(r) <= posted'
      PROVE  JobInv'
  <2>1. \A r \in Receipts : messageOf(r) \in Nat
    BY ReceiptParts DEF Messages
  <2> QED  BY <1>1, <1>d, <2>1 DEF JobInv, messageOf
<1>2. CASE Post
  <2>1. posted + 1 \in Messages
    BY <1>2, IngestAssumption DEF Post, TypeOK, Messages
  <2>2. ASSUME NEW r \in due' \ due
        PROVE  r \in Receipts /\ job[r] = "absent" /\ messageOf(r) <= posted'
    <3>1. PICK a \in Assistants : r = <<posted + 1, a, 1>>
      BY <1>2, <2>2 DEF Post
    <3>2. r \in Receipts /\ messageOf(r) = posted + 1
      BY <2>1, <3>1, ReceiptParts DEF messageOf
    <3> QED  BY <1>2, <1>d, <3>2 DEF Post, JobInv
  <2> QED  BY <1>2, <1>d, <2>2, <1>1 DEF Post
<1>3. ASSUME NEW r \in Receipts, Redeliver(r)
      PROVE  JobInv'
  <2>1. <<r[1], r[2], 2>> \in Receipts /\ messageOf(<<r[1], r[2], 2>>) = messageOf(r)
    BY ReceiptParts DEF messageOf
  <2> QED  BY <1>3, <1>d, <2>1, <1>1 DEF Redeliver
<1>4. ASSUME NEW r \in Receipts, Forward(r)
      PROVE  JobInv'
  <2>1. job[r] = "absent" /\ messageOf(r) <= posted
    BY <1>4 DEF Forward, JobInv
  <2> QED  BY <1>4, <2>1, JobsAdded DEF Forward
<1>5. ASSUME NEW r \in Receipts, PublishFails(r)
      PROVE  JobInv'
  BY <1>5, JobsKept DEF PublishFails
<1>6. ASSUME NEW m \in Messages, Forget(m)
      PROVE  JobInv'
  BY <1>6, JobsKept DEF Forget
<1>7. CASE Pick
  <2> DEFINE h == Head(wait)
  <2>1. /\ wait \in Seq(Receipts) /\ wait # <<>> /\ h \in Receipts /\ h = wait[1]
        /\ wait' = Tail(wait) /\ UNCHANGED <<due, posted>>
        /\ \A r \in Receipts : job'[r] = IF r = h THEN "picked" ELSE job[r]
    BY <1>7, HeadAndTail DEF Pick, TypeOK
  <2>2. \A i \in 1 .. Len(wait') : i + 1 \in 1 .. Len(wait) /\ wait'[i] = wait[i + 1]
    BY <2>1, HeadAndTail
  <2>3. 1 \in 1 .. Len(wait) /\ job[h] = "waiting"
    BY <2>1, HeadAndTail DEF JobInv
  <2> HIDE DEF h
  <2>4. \A i \in 1 .. Len(wait') : wait'[i] # h /\ job'[wait'[i]] = "waiting"
    <3> SUFFICES ASSUME NEW i \in 1 .. Len(wait')
                 PROVE  wait'[i] # h /\ job'[wait'[i]] = "waiting"
      OBVIOUS
    <3>1. i + 1 # 1 /\ wait'[i] # h
      BY <2>1, <2>2, <2>3 DEF JobInv, NoRepeats
    <3> QED  BY <1>w, <2>1, <2>2, <3>1 DEF JobInv
  <2>5. NoRepeats(wait')
    <3>1. \A i, k \in 1 .. Len(wait') : wait'[i] = wait'[k] => i + 1 = k + 1
      BY <2>2 DEF JobInv, NoRepeats
    <3> QED  BY <3>1 DEF NoRepeats
  <2>6. \A r \in due : r \in Receipts /\ r # h
    BY <1>d, <2>3 DEF JobInv
  <2> QED  BY <2>1, <2>3, <2>4, <2>5, <2>6 DEF JobInv, messageOf
\* The running job was not waiting.
<1>8. ASSUME NEW r, NEW s \in Active, Runs(r, s), NEW s2, s2 # "absent",
             job' = [job EXCEPT ![r] = s2], UNCHANGED <<wait, edge>>
      PROVE  JobInv'
  <2>1. /\ r \in Receipts /\ job[r] = s /\ s # "waiting" /\ s # "absent"
        /\ \A q \in Receipts : job'[q] = IF q = r THEN s2 ELSE job[q]
    BY <1>8, Running, States DEF TypeOK
  <2> QED  BY <1>8, <2>1, JobsKept
<1>9. ASSUME NEW r \in Receipts, Handle(r)
      PROVE  JobInv'
  <2>1. CASE Present(r) \/ MirroredBefore(r) \/ Mirror(r) \/ Consume(r)
    BY <2>1, <1>8 DEF Present, MirroredBefore, Mirror, Consume, Over, Active, Ingesting
  <2>2. CASE Resolve(r)
    BY <2>2, <1>8 DEF Resolve, Over, Active, Ingesting
  <2>3. ASSUME NEW a \in Assistants, OpenTurn(r, a) PROVE JobInv'
    <3>1. CASE todo = {a}
      BY <2>3, <3>1, <1>8 DEF OpenTurn, Over, Active, Ingesting
    <3>2. CASE todo # {a}
      BY <2>3, <3>2, JobsKept DEF OpenTurn
    <3> QED  BY <3>1, <3>2
  <2> QED  BY <1>9, <2>1, <2>2, <2>3 DEF Handle
<1>10. ASSUME NEW r \in Receipts, JobFails(r)
       PROVE  JobInv'
  BY <1>10, <1>8 DEF JobFails, Over
<1>11. CASE Crash
  BY <1>11, JobsKept, States DEF Crash
<1>12. ASSUME NEW r \in Receipts, Recover(r)
       PROVE  JobInv'
  BY <1>12, JobsAdded DEF Recover, JobInv
<1>13. CASE UNCHANGED vars
  BY <1>13, JobsKept DEF vars
<1> QED
  BY <1>2, <1>3, <1>4, <1>5, <1>6, <1>7, <1>9, <1>10, <1>11, <1>12, <1>13 DEF Next

(***************************************************************************)
(* The run at the head of the chain, the mirror and the turns.             *)
(***************************************************************************)

\* A step that leaves the mirror, the turns and the running job alone.
LEMMA RunsKept ==
  ASSUME RunInv, UNCHANGED <<rows, turns, todo>>,
         \A r \in Receipts : job'[r] \in Ingesting => job'[r] = job[r] /\ r \notin presence',
         chain # <<>> => chain' # <<>> /\ Head(chain') = Head(chain)
  PROVE  RunInv'
  BY DEF RunInv, IngestsAlone, messageOf

\* When the running job is over no job ingests.
LEMMA NoneRuns ==
  ASSUME TypeOK, RunInv, NEW r, NEW s, Runs(r, s),
         \A q \in Receipts : job'[q] = IF q = r THEN "over" ELSE job[q]
  PROVE  (\A q \in Receipts : job'[q] \notin Ingesting) /\ RunInv'
  BY States DEF RunInv, IngestsAlone, Runs

\* What the running job's step rests on.
LEMMA RunFacts ==
  ASSUME TypeOK, RunInv, NEW r \in Receipts, job[r] \in Ingesting
  PROVE  /\ rows \in Seq(Messages) /\ Len(rows) \in 1 .. Len(rows) /\ messageOf(r) = rows[Len(rows)]
         /\ r \notin presence
         /\ \A q \in Receipts : job[q] \in Ingesting => q = r
  BY DEF TypeOK, RunInv, IngestsAlone

LEMMA InitRuns == Init => RunInv /\ TurnInv /\ OneTurnEach /\ TurnsFollowMirror /\ HoldHasOwner
  BY States DEF Init, RunInv, TurnInv, NoRepeats, OneTurnEach, TurnsFollowMirror, HoldHasOwner, Mirrored

LEMMA NextRuns == TypeOK /\ JobInv /\ RunInv /\ TurnInv /\ [Next]_vars => RunInv'
<1> SUFFICES ASSUME TypeOK, JobInv, RunInv, TurnInv, [Next]_vars PROVE RunInv'
  OBVIOUS
<1> USE DEF edge, queue, store, counters
<1>s. {"waiting", "picked", "absent", "stalled"} \cap Ingesting = {}
  BY States
<1>p. \A r \in Receipts : job[r] \in Ingesting => r \notin presence
  BY DEF RunInv, IngestsAlone
<1>1. CASE Post \/ UNCHANGED vars
  BY <1>1, <1>p, RunsKept DEF Post, vars
<1>2. ASSUME NEW r \in Receipts, Redeliver(r) \/ PublishFails(r)
      PROVE  RunInv'
  BY <1>2, <1>p, RunsKept DEF Redeliver, PublishFails
<1>3. ASSUME NEW m \in Messages, Forget(m)
      PROVE  RunInv'
  BY <1>3, <1>p, RunsKept DEF Forget
<1>4. ASSUME NEW r \in Receipts, Forward(r)
      PROVE  RunInv'
  <2>1. \A q \in Receipts : job'[q] = IF q = r THEN "waiting" ELSE job[q]
    BY <1>4 DEF Forward, TypeOK
  <2>2. \A q \in Receipts : q # r /\ q \notin presence => q \notin presence'
    BY <1>4 DEF Forward
  <2> QED  BY <1>4, <1>p, <1>s, <2>1, <2>2, RunsKept DEF Forward
<1>5. CASE Pick
  <2>1. Head(wait) \in Receipts /\ wait \in Seq(Receipts) /\ chain \in Seq(Receipts)
    BY <1>5, HeadAndTail DEF Pick, TypeOK
  <2>2. \A q \in Receipts : job'[q] = IF q = Head(wait) THEN "picked" ELSE job[q]
    BY <1>5, <2>1 DEF Pick, TypeOK
  <2>3. chain # <<>> => Append(chain, Head(wait)) # <<>> /\ Head(Append(chain, Head(wait))) = Head(chain)
    BY <2>1
  <2> QED  BY <1>5, <1>p, <1>s, <2>2, <2>3, RunsKept DEF Pick
<1>6. ASSUME NEW r, NEW s, Runs(r, s), Over(r)
      PROVE  RunInv'
  BY <1>6, OverTypes, NoneRuns
\* Its message was not mirrored, so no turn of it was opened either.
<1>7. ASSUME NEW r \in Receipts, Mirror(r)
      PROVE  RunInv'
  <2>1. /\ chain # <<>> /\ Head(chain) = r /\ job[r] = "picked" /\ r \notin presence
        /\ rows' = Append(rows, messageOf(r)) /\ UNCHANGED <<chain, presence, todo, turns>>
        /\ \A q \in Receipts : job'[q] = IF q = r THEN "mirrored" ELSE job[q]
    BY <1>7 DEF Mirror, Runs, TypeOK
  <2>2. rows \in Seq(Messages) /\ messageOf(r) \in Messages
    BY <1>7, ReceiptParts DEF TypeOK
  <2>3. Len(rows') = Len(rows) + 1 /\ rows'[Len(rows')] = messageOf(r) /\ rows' # <<>>
    BY <2>1, <2>2
  <2>4. \A i \in 1 .. Len(turns) : turns[i][1] # messageOf(r)
    BY <1>7, <2>2 DEF Mirror, Mirrored, TurnInv
  <2>5. \A q \in Receipts : job'[q] \in Ingesting => q = r
    BY <1>s, <2>1 DEF RunInv, IngestsAlone
  <2> QED  BY <2>1, <2>3, <2>4, <2>5 DEF RunInv, IngestsAlone, messageOf
<1>8. ASSUME NEW r \in Receipts, Runs(r, "mirrored"), job' = [job EXCEPT ![r] = "opening"],
             UNCHANGED <<presence, chain, rows, turns>>
      PROVE  RunInv'
  <2>1. job[r] = "mirrored" /\ job[r] \in Ingesting
        /\ \A q \in Receipts : job'[q] = IF q = r THEN "opening" ELSE job[q]
    BY <1>8 DEF Runs, Ingesting, TypeOK
  <2>2. \A q \in Receipts : job'[q] \in Ingesting => q = r
    BY <2>1, RunFacts
  <2>3. IngestsAlone(r) /\ \A i \in 1 .. Len(turns) : turns[i][1] # messageOf(r)
    BY <2>1 DEF RunInv, IngestsAlone
  <2> QED  BY <1>8, <2>2, <2>3 DEF RunInv, IngestsAlone, messageOf
<1>9. ASSUME NEW r \in Receipts, Resolve(r)
      PROVE  RunInv'
  BY <1>9, <1>6, <1>8 DEF Resolve
<1>10. ASSUME NEW r \in Receipts, NEW a \in Assistants, OpenTurn(r, a)
       PROVE  RunInv'
  <2>1. Runs(r, "opening") /\ turns' = Append(turns, <<messageOf(r), a>>) /\ UNCHANGED rows
    BY <1>10 DEF OpenTurn
  <2>2. CASE todo = {a}
    BY <1>10, <2>1, <2>2, <1>6 DEF OpenTurn
  <2>3. CASE todo # {a}
    <3>1. todo' = todo \ {a} /\ UNCHANGED <<job, presence, chain>>
      BY <1>10, <2>3 DEF OpenTurn
    <3>2. job[r] = "opening" /\ job[r] \in Ingesting
      BY <2>1 DEF Runs, Ingesting
    <3>3. \A q \in Receipts : job'[q] \in Ingesting => q = r
      BY <3>1, <3>2, RunFacts
    <3>4. turns \in Seq(Messages \X Assistants) /\ <<messageOf(r), a>> \in Messages \X Assistants
      BY ReceiptParts DEF TypeOK
    <3>5. \A i \in 1 .. Len(turns') :
            turns'[i] = <<messageOf(r), a>> \/ (i \in 1 .. Len(turns) /\ turns'[i] = turns[i])
      BY <2>1, <3>4, Appended
    <3>6. IngestsAlone(r)
      BY <3>2 DEF RunInv
    <3>7. IngestsAlone(r)'
      BY <2>1, <3>1, <3>2, <3>5, <3>6 DEF IngestsAlone, messageOf
    <3> QED  BY <3>3, <3>7 DEF RunInv
  <2> QED  BY <2>2, <2>3
<1>11. ASSUME NEW r \in Receipts, Handle(r)
       PROVE  RunInv'
  <2>1. CASE Present(r) \/ MirroredBefore(r) \/ Consume(r)
    BY <2>1, <1>6 DEF Present, MirroredBefore, Consume
  <2> QED  BY <1>7, <1>9, <1>10, <1>11, <2>1 DEF Handle
<1>12. ASSUME NEW r \in Receipts, JobFails(r)
       PROVE  RunInv'
  BY <1>12, <1>6 DEF JobFails
<1>13. CASE Crash
  <2>1. \A r \in Receipts : job'[r] \notin Ingesting
    BY <1>13, <1>s, States DEF Crash
  <2> QED  BY <2>1 DEF RunInv
<1>14. ASSUME NEW r \in Receipts, Recover(r)
       PROVE  RunInv'
  <2>1. \A q \in Receipts : job'[q] = IF q = r THEN "waiting" ELSE job[q]
    BY <1>14 DEF Recover, TypeOK
  <2> QED  BY <1>14, <1>p, <1>s, <2>1, RunsKept DEF Recover
<1> QED
  BY <1>1, <1>2, <1>3, <1>4, <1>5, <1>11, <1>12, <1>13, <1>14 DEF Next

(***************************************************************************)
(* Turns and holds.                                                        *)
(***************************************************************************)

\* Three kinds of step: nothing is mirrored and no turn opened; a fresh message
\* is mirrored; the running job opens a turn.
LEMMA MirrorOrTurn ==
  ASSUME TypeOK, [Next]_vars
  PROVE  \/ UNCHANGED <<rows, turns>>
         \/ \E r \in Receipts : Mirror(r)
         \/ \E r \in Receipts : \E a \in Assistants : OpenTurn(r, a)
<1> USE DEF edge, queue, store, counters
<1> QED
  BY DEF Next, Handle, Post, Redeliver, Forward, PublishFails, JobFails, Recover, Forget, Pick,
         Present, MirroredBefore, Consume, Resolve, Crash, vars

\* A new row, and a new turn of the last row.
LEMMA MirrorFacts ==
  ASSUME TypeOK, NEW r \in Receipts, Mirror(r)
  PROVE  /\ rows' \in Seq(Messages) /\ Len(rows') = Len(rows) + 1 /\ Len(rows) \in Nat
         /\ rows'[Len(rows) + 1] = messageOf(r)
         /\ \A k \in 1 .. Len(rows) : rows'[k] = rows[k] /\ rows[k] # messageOf(r)
         /\ turns' = turns
<1>1. rows \in Seq(Messages) /\ messageOf(r) \in Messages
  BY ReceiptParts DEF TypeOK
<1>2. rows' = Append(rows, messageOf(r)) /\ turns' = turns
  BY DEF Mirror
<1>3. \A k \in 1 .. Len(rows) : rows[k] # messageOf(r)
  BY <1>1 DEF Mirror, Mirrored
<1> QED  BY <1>1, <1>2, <1>3, Appended

LEMMA TurnFacts ==
  ASSUME TypeOK, RunInv, NEW r \in Receipts, NEW a \in Assistants, OpenTurn(r, a)
  PROVE  /\ rows' = rows /\ Len(rows) \in 1 .. Len(rows) /\ messageOf(r) = rows[Len(rows)]
         /\ Len(turns) \in Nat /\ Len(turns') = Len(turns) + 1
         /\ turns'[Len(turns) + 1] = <<messageOf(r), a>>
         /\ \A i \in 1 .. Len(turns) : turns'[i] = turns[i] /\ turns[i] # <<messageOf(r), a>>
<1>1. turns \in Seq(Messages \X Assistants) /\ <<messageOf(r), a>> \in Messages \X Assistants
  BY ReceiptParts DEF TypeOK
<1>2. turns' = Append(turns, <<messageOf(r), a>>) /\ rows' = rows /\ a \in todo /\ job[r] = "opening"
  BY DEF OpenTurn, Runs, store
<1>3. job[r] \in Ingesting
  BY <1>2 DEF Ingesting
<1>4. \A i \in 1 .. Len(turns) : turns[i] # <<messageOf(r), a>>
  BY <1>2, <1>3 DEF RunInv, IngestsAlone
<1>5. /\ Len(turns) \in Nat /\ Len(turns') = Len(turns) + 1
      /\ turns'[Len(turns) + 1] = <<messageOf(r), a>>
      /\ \A i \in 1 .. Len(turns) : turns'[i] = turns[i]
  <2> DEFINE t == <<messageOf(r), a>>  T == Messages \X Assistants
  <2>1. turns \in Seq(T) /\ t \in T /\ turns' = Append(turns, t)
    BY <1>1, <1>2
  <2> HIDE DEF t, T
  <2>2. Len(turns) \in Nat
    BY <2>1
  <2>3. /\ Len(turns') = Len(turns) + 1 /\ turns'[Len(turns) + 1] = t
        /\ \A i \in 1 .. Len(turns) : turns'[i] = turns[i]
    BY <2>1, Appended
  <2> QED  BY <2>2, <2>3 DEF t
<1>6. rows' = rows /\ Len(rows) \in 1 .. Len(rows) /\ messageOf(r) = rows[Len(rows)]
  BY <1>2, <1>3, RunFacts
<1> QED  BY <1>4, <1>5, <1>6

LEMMA NextTurns ==
  TypeOK /\ RunInv /\ TurnInv /\ OneTurnEach /\ TurnsFollowMirror /\ [Next]_vars =>
    TurnInv' /\ OneTurnEach' /\ TurnsFollowMirror'
<1> SUFFICES ASSUME TypeOK, RunInv, TurnInv, OneTurnEach, TurnsFollowMirror, [Next]_vars
             PROVE  TurnInv' /\ OneTurnEach' /\ TurnsFollowMirror'
  OBVIOUS
<1>d. DOMAIN rows = 1 .. Len(rows) /\ DOMAIN turns = 1 .. Len(turns)
  BY DEF TypeOK
<1>e. DOMAIN rows' = 1 .. Len(rows') /\ DOMAIN turns' = 1 .. Len(turns')
  BY NextTypes DEF TypeOK
<1>1. CASE UNCHANGED <<rows, turns>>
  BY <1>1 DEF TurnInv, NoRepeats, OneTurnEach, TurnsFollowMirror
<1>2. ASSUME NEW r \in Receipts, Mirror(r)
      PROVE  TurnInv' /\ OneTurnEach' /\ TurnsFollowMirror'
  <2>1. \A k \in 1 .. Len(rows') : k \in 1 .. Len(rows) \/ k = Len(rows) + 1
    BY <1>2, MirrorFacts
  <2>2. NoRepeats(rows')
    BY <1>2, <2>1, MirrorFacts DEF TurnInv, NoRepeats
  <2>3. \A k \in 1 .. Len(rows) : k \in 1 .. Len(rows') /\ rows'[k] = rows[k]
    BY <1>2, MirrorFacts
  <2>4. TurnInv'
    BY <1>2, <2>2, <2>3, MirrorFacts DEF TurnInv
  <2>5. \A i \in 1 .. Len(turns) : \A k \in 1 .. Len(rows') : turns[i][1] = rows'[k] => k \in 1 .. Len(rows)
    BY <1>2, <2>1, MirrorFacts DEF TurnInv
  <2>6. TurnsFollowMirror'
    <3>1. turns' = turns
      BY <1>2, MirrorFacts
    <3> SUFFICES ASSUME NEW i \in 1 .. Len(turns), NEW j \in 1 .. Len(turns),
                        NEW k \in 1 .. Len(rows'), NEW l \in 1 .. Len(rows'),
                        i < j, turns[i][1] = rows'[k], turns[j][1] = rows'[l]
                 PROVE  k <= l
      BY <1>d, <1>e, <3>1 DEF TurnsFollowMirror
    <3>2. k \in 1 .. Len(rows) /\ l \in 1 .. Len(rows)
      BY <2>5
    <3>3. turns[i][1] = rows[k] /\ turns[j][1] = rows[l]
      BY <2>3, <3>2
    <3> QED  BY <1>d, <3>2, <3>3 DEF TurnsFollowMirror
  <2>7. OneTurnEach'
    BY <1>2, MirrorFacts DEF OneTurnEach
  <2> QED  BY <2>4, <2>6, <2>7
<1>3. ASSUME NEW r \in Receipts, NEW a \in Assistants, OpenTurn(r, a)
      PROVE  TurnInv' /\ OneTurnEach' /\ TurnsFollowMirror'
  <2>1. \A i \in 1 .. Len(turns') : i \in 1 .. Len(turns) \/ i = Len(turns) + 1
    BY <1>3, TurnFacts
  <2>2. TurnInv'
    BY SMTT(30), <1>3, <2>1, TurnFacts DEF TurnInv
  <2>3. OneTurnEach'
    BY <1>3, <1>d, <1>e, <2>1, TurnFacts DEF OneTurnEach
  <2>4. ASSUME NEW i \in 1 .. Len(turns'), NEW j \in 1 .. Len(turns'),
               NEW k \in 1 .. Len(rows), NEW l \in 1 .. Len(rows),
               i < j, turns'[i][1] = rows[k], turns'[j][1] = rows[l]
        PROVE  k <= l
    <3>1. CASE j \in 1 .. Len(turns)
      <4>1. i \in 1 .. Len(turns)
        BY <2>1, <2>4, <3>1
      <4> QED  BY SMTT(30), <1>3, <1>d, <2>4, <3>1, <4>1, TurnFacts DEF TurnsFollowMirror
    <3>2. CASE j = Len(turns) + 1
      <4>1. rows[l] = rows[Len(rows)] /\ Len(rows) \in 1 .. Len(rows)
        BY <1>3, <2>4, <3>2, TurnFacts
      <4>2. l = Len(rows)
        BY <4>1 DEF TurnInv, NoRepeats
      <4> QED  BY <4>2
    <3> QED  BY <2>1, <3>1, <3>2
  <2>5. TurnsFollowMirror'
    BY ZenonT(30), <1>3, <1>d, <1>e, <2>4, TurnFacts DEF TurnsFollowMirror
  <2> QED  BY <2>2, <2>3, <2>5
<1> QED  BY <1>1, <1>2, <1>3, MirrorOrTurn

\* Messages leave the owned ones only with an owner: a turn, or what cut them short.
LEMMA HoldKept ==
  ASSUME TypeOK, HoldHasOwner, UNCHANGED rows, processed \subseteq processed', broken \subseteq broken',
         \A i \in DOMAIN turns : i \in DOMAIN turns' /\ turns'[i] = turns[i],
         \A r \in Receipts : job[r] \in Ingesting =>
           \/ job'[r] \in Ingesting
           \/ messageOf(r) \in processed'
           \/ \E why \in {"failure", "crash", "unheard"} : <<messageOf(r), why>> \in broken'
           \/ \E i \in DOMAIN turns' : turns'[i][1] = messageOf(r)
  PROVE  HoldHasOwner'
<1> SUFFICES ASSUME NEW m \in Mirrored' \ processed'
             PROVE  \/ Broken(m)'
                    \/ \E i \in DOMAIN turns' : turns'[i][1] = m
                    \/ \E r \in Receipts : messageOf(r) = m /\ job'[r] \in Ingesting
  BY DEF HoldHasOwner, messageOf
<1>1. m \in Mirrored \ processed
  BY DEF Mirrored
<1>2. CASE Broken(m)
  BY <1>2 DEF Broken
<1>3. CASE \E i \in DOMAIN turns : turns[i][1] = m
  BY <1>3
<1>4. ASSUME NEW r \in Receipts, messageOf(r) = m, job[r] \in Ingesting
      PROVE  \/ Broken(m)'
             \/ \E i \in DOMAIN turns' : turns'[i][1] = m
             \/ \E q \in Receipts : messageOf(q) = m /\ job'[q] \in Ingesting
  BY <1>4 DEF Broken
<1> QED  BY <1>1, <1>2, <1>3, <1>4 DEF HoldHasOwner

LEMMA NextHolds ==
  TypeOK /\ JobInv /\ RunInv /\ HoldHasOwner /\ [Next]_vars => HoldHasOwner'
<1> SUFFICES ASSUME TypeOK, JobInv, RunInv, HoldHasOwner, [Next]_vars PROVE HoldHasOwner'
  OBVIOUS
<1> USE DEF edge, queue, store, counters
\* A step that ends no ingesting.
<1>k. ASSUME UNCHANGED <<rows, processed, turns>>, broken \subseteq broken',
             \A r \in Receipts : job[r] \in Ingesting => job'[r] \in Ingesting
      PROVE  HoldHasOwner'
  BY <1>k, HoldKept
<1>s. {"waiting", "picked", "absent", "stalled"} \cap Ingesting = {}
  BY States
<1>1. CASE Post \/ UNCHANGED vars
  BY <1>1, <1>k DEF Post, vars
<1>2. ASSUME NEW r \in Receipts, Redeliver(r) \/ PublishFails(r)
      PROVE  HoldHasOwner'
  BY <1>2, <1>k DEF Redeliver, PublishFails
<1>3. ASSUME NEW m \in Messages, Forget(m)
      PROVE  HoldHasOwner'
  BY <1>3, <1>k DEF Forget
<1>4. ASSUME NEW r \in Receipts, Forward(r) \/ Recover(r)
      PROVE  HoldHasOwner'
  <2>1. job[r] \notin Ingesting
    BY <1>4, <1>s DEF Forward, Recover, JobInv
  <2> QED  BY <1>4, <2>1, <1>k DEF Forward, Recover, TypeOK
<1>5. CASE Pick
  <2>1. Head(wait) \in Receipts /\ Head(wait) = wait[1] /\ 1 \in 1 .. Len(wait)
    BY <1>5, HeadAndTail DEF Pick, TypeOK
  <2>2. job[Head(wait)] \notin Ingesting
    BY <1>s, <2>1 DEF JobInv
  <2> QED  BY <1>5, <2>1, <2>2, <1>k DEF Pick, TypeOK
<1>6. ASSUME NEW r \in Receipts, Present(r) \/ MirroredBefore(r)
      PROVE  HoldHasOwner'
  BY <1>6, <1>s, <1>k, OverTypes DEF Present, MirroredBefore, Runs
\* The message just mirrored is its job's.
<1>7. ASSUME NEW r \in Receipts, Mirror(r)
      PROVE  HoldHasOwner'
  <2>1. /\ \A q \in Receipts : job[q] \in Ingesting => job'[q] = job[q]
        /\ job'[r] \in Ingesting
    BY <1>7, <1>s DEF Mirror, Runs, TypeOK, Ingesting
  <2>2. UNCHANGED <<processed, turns, broken>>
    BY <1>7 DEF Mirror
  <2>3. \A m \in Mirrored' : m \in Mirrored \/ m = messageOf(r)
    <3>1. rows \in Seq(Messages) /\ messageOf(r) \in Messages /\ rows' = Append(rows, messageOf(r))
      BY <1>7, ReceiptParts DEF Mirror, TypeOK
    <3> QED  BY <3>1 DEF Mirrored
  <2> QED  BY <2>1, <2>2, <2>3 DEF HoldHasOwner, Broken, messageOf
<1>8. ASSUME NEW r \in Receipts, Consume(r)
      PROVE  HoldHasOwner'
  <2>1. \A q \in Receipts : job[q] \in Ingesting => job'[q] \in Ingesting \/ q = r
    BY <1>8, OverTypes DEF Consume
  <2> QED  BY <1>8, <2>1, HoldKept DEF Consume
<1>9. ASSUME NEW r \in Receipts, Resolve(r)
      PROVE  HoldHasOwner'
  <2>1. UNCHANGED <<rows, processed, turns>> /\ Runs(r, "mirrored")
    BY <1>9 DEF Resolve
  <2>2. CASE Over(r) /\ broken' = broken \cup {<<messageOf(r), "unheard">>}
    <3>1. \A q \in Receipts : job[q] \in Ingesting => job'[q] \in Ingesting \/ q = r
      BY <2>1, <2>2, OverTypes
    <3> QED  BY <2>1, <2>2, <3>1, HoldKept
  <2>3. CASE job' = [job EXCEPT ![r] = "opening"] /\ UNCHANGED broken
    BY <2>1, <2>3, <1>k DEF TypeOK, Ingesting
  <2> QED  BY <1>9, <2>2, <2>3 DEF Resolve
<1>10. ASSUME NEW r \in Receipts, NEW a \in Assistants, OpenTurn(r, a)
       PROVE  HoldHasOwner'
  <2>1. Runs(r, "opening") /\ UNCHANGED <<rows, processed, broken>>
    BY <1>10 DEF OpenTurn
  <2>2. /\ \A i \in DOMAIN turns : i \in DOMAIN turns' /\ turns'[i] = turns[i]
        /\ \E i \in DOMAIN turns' : turns'[i][1] = messageOf(r)
    <3>1. DOMAIN turns = 1 .. Len(turns) /\ DOMAIN turns' = 1 .. Len(turns')
      BY NextTypes DEF TypeOK
    <3>2. /\ Len(turns) \in Nat /\ Len(turns') = Len(turns) + 1
          /\ turns'[Len(turns) + 1] = <<messageOf(r), a>>
          /\ \A i \in 1 .. Len(turns) : turns'[i] = turns[i]
      BY <1>10, TurnFacts
    <3>3. Len(turns) + 1 \in DOMAIN turns' /\ turns'[Len(turns) + 1][1] = messageOf(r)
      BY <3>1, <3>2
    <3>4. \A i \in DOMAIN turns : i \in DOMAIN turns' /\ turns'[i] = turns[i]
      BY <3>1, <3>2
    <3> QED  BY <3>3, <3>4
  <2>3. \A q \in Receipts : job[q] \in Ingesting => job'[q] \in Ingesting \/ q = r
    <3>1. CASE todo = {a}
      BY <1>10, <2>1, <3>1, OverTypes DEF OpenTurn
    <3>2. CASE todo # {a}
      BY <1>10, <3>2 DEF OpenTurn
    <3> QED  BY <3>1, <3>2
  <2> QED  BY <2>1, <2>2, <2>3, HoldKept
<1>11. ASSUME NEW r \in Receipts, JobFails(r)
       PROVE  HoldHasOwner'
  <2>1. PICK s \in Active : Runs(r, s)
    BY <1>11 DEF JobFails
  <2>2. \A q \in Receipts : job[q] \in Ingesting => job'[q] \in Ingesting \/ q = r
    BY <1>11, <2>1, OverTypes DEF JobFails
  <2>3. job[r] \in Ingesting => <<messageOf(r), "failure">> \in broken'
    BY <1>11, RunFacts DEF JobFails
  <2> QED  BY <1>11, <2>2, <2>3, HoldKept DEF JobFails
<1>12. CASE Crash
  <2>1. \A r \in Receipts : job[r] \in Ingesting => <<messageOf(r), "crash">> \in broken'
    BY <1>12 DEF Crash
  <2> QED  BY <1>12, <2>1, HoldKept DEF Crash
<1> QED
  BY <1>1, <1>2, <1>3, <1>4, <1>5, <1>6, <1>7, <1>8, <1>9, <1>10, <1>11, <1>12 DEF Next, Handle

\* However often a message is received, published or handled again, and whatever
\* crashes or fails: one turn for each assistant, in the order of the mirror, and
\* no hold without an owner unless its ingest was cut short.
THEOREM TurnsAndHoldsHold == Spec => []TurnsAndHolds
<1>1. TypeOK /\ OneTurnEach /\ TurnsFollowMirror /\ HoldHasOwner => TurnsAndHolds
  BY DEF TurnsAndHolds, OneTurnEachInOrder
<1> QED
  BY <1>1, InitTypes, NextTypes, InitJobs, NextJobs, InitRuns, NextRuns, NextTurns, NextHolds, PTL
     DEF Spec
=============================================================================
