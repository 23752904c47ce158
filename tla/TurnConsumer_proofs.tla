------------------------ MODULE TurnConsumer_proofs ------------------------
(***************************************************************************)
(* Theorems about TurnConsumer, for every number of turns, chats, worker   *)
(* slots and attempts.                                                     *)
(***************************************************************************)
EXTENDS TurnConsumer, FiniteSetTheorems, TLAPS

(***************************************************************************)
(* Type correctness.                                                       *)
(***************************************************************************)

\* A job is a turn and an attempt, and its next attempt is a job too unless
\* the tries are used up.
LEMMA JobsAreNumbered ==
  /\ \A j \in Jobs : turnOf(j) \in Turns /\ attemptOf(j) \in 1 .. MaxAttempts
  /\ \A j \in Jobs : j = <<turnOf(j), attemptOf(j)>>
  /\ \A j \in Jobs : attemptOf(j) < MaxAttempts => <<turnOf(j), attemptOf(j) + 1>> \in Jobs
  /\ \A t \in Turns : <<t, 1>> \in Jobs
  /\ \A j \in Jobs : chatOfJob(j) \in Chats
  BY ConstantsAssumption DEF Jobs, turnOf, attemptOf, chatOfJob, Turns

\* The first and the later jobs of a chain or of the wait list are jobs.
LEMMA HeadIsJob ==
  ASSUME NEW s \in Seq(Jobs), s # << >>
  PROVE  Head(s) \in Jobs /\ Tail(s) \in Seq(Jobs)
  OBVIOUS

\* What the elements of a tail are.
LEMMA TailElements ==
  ASSUME NEW s \in Seq(Jobs), s # << >>, NEW i \in 1 .. Len(Tail(s))
  PROVE  i + 1 \in 1 .. Len(s) /\ Tail(s)[i] = s[i + 1]
  OBVIOUS

\* A step of the running job keeps the states of the jobs what they are.
LEMMA StepTypes ==
  ASSUME TypeOK, NEW c \in Chats, NEW s, NEW s2 \in JobStates, Step(c, s, s2)
  PROVE  /\ Head(chain[c]) \in Jobs
         /\ headTurn(c) \in Turns
         /\ Tail(chain[c]) \in Seq(Jobs)
         /\ job' \in [Jobs -> JobStates]
  BY HeadIsJob, JobsAreNumbered DEF TypeOK, Step, headTurn

\* Init and every step keep the types.
LEMMA InitTypes == Init => TypeOK
  BY ConstantsAssumption DEF Init, TypeOK, JobStates

LEMMA NextTypes == TypeOK /\ [Next]_vars => TypeOK'
<1> SUFFICES ASSUME TypeOK, [Next]_vars PROVE TypeOK'
  OBVIOUS
<1> USE ConstantsAssumption, JobsAreNumbered
<1>f. \A kind : Fault(kind) => faults' \in 0 .. MaxFaults
  BY DEF Fault, TypeOK
<1>s. \A x \in Running \cup InHandler
               \cup {"chained", "leaving", "waiting", "over", "delayed", "stalled"} : x \in JobStates
  BY DEF Running, InHandler, JobStates, Active, Pending
<1>1. CASE Arrive
  <2> DEFINE new == <<arrived + 1, 1>>
  <2>1. arrived' \in 0 .. NTurns /\ new \in Jobs
    BY <1>1 DEF Arrive, TypeOK, Turns
  <2>2. job' = [job EXCEPT ![new] = "waiting"] /\ wait' = Append(wait, new)
    BY <1>1 DEF Arrive
  <2> HIDE DEF new
  <2>3. job' \in [Jobs -> JobStates] /\ wait' \in Seq(Jobs)
    BY <2>1, <2>2, <1>s DEF TypeOK
  <2> QED  BY <1>1, <2>1, <2>3 DEF Arrive, TypeOK
<1>2. CASE Pick
  <2>1. Head(wait) \in Jobs /\ Tail(wait) \in Seq(Jobs)
    BY <1>2, HeadIsJob DEF Pick, TypeOK
  <2>2. chatOfJob(Head(wait)) \in Chats
    BY <2>1
  <2> DEFINE d == chatOfJob(Head(wait))
             h == Head(wait)
  <2>3. /\ job' = [job EXCEPT ![h] = "chained"]
        /\ chain' = [chain EXCEPT ![d] = Append(@, h)]
        /\ wait' = Tail(wait)
    BY <1>2 DEF Pick
  <2> HIDE DEF d, h
  <2>4. d \in Chats /\ h \in Jobs
    BY <2>1, <2>2 DEF d, h
  <2>5. job' \in [Jobs -> JobStates] /\ chain' \in [Chats -> Seq(Jobs)]
    BY <2>3, <2>4, <1>s DEF TypeOK
  <2> QED
    BY <2>1, <2>3, <2>5, <1>2 DEF Pick, TypeOK
<1>3. ASSUME NEW j \in Jobs, Promote(j) \/ Finish(j) \/ Recover(j) \/ Discard(j)
      PROVE  TypeOK'
  <2>1. CASE Promote(j)  BY <2>1, <1>s DEF Promote, TypeOK
  <2>2. CASE Finish(j)   BY <2>2, <1>s DEF Finish, TypeOK
  <2>3. CASE Recover(j)  BY <2>3, <1>s DEF Recover, TypeOK
  <2>4. CASE Discard(j)  BY <2>4, <1>s DEF Discard, TypeOK
  <2> QED  BY <1>3, <2>1, <2>2, <2>3, <2>4
<1>4. ASSUME NEW c \in Chats, Run(c)
      PROVE  TypeOK'
  <2>1. CASE Start(c)   BY <2>1, <1>s, StepTypes DEF Start, InHandler, Running, TypeOK
  <2>2. CASE Mark(c)    BY <2>2, <1>s, StepTypes DEF Mark, InHandler, Running, TypeOK
  <2>3. CASE Act(c)
    <3>1. job' \in [Jobs -> JobStates] /\ headTurn(c) \in Turns
      BY <2>3, <1>s, StepTypes DEF Act, InHandler, Running
    <3>2. runs' \in [Turns -> Nat]
      BY <2>3, <3>1 DEF Act, TypeOK
    <3> QED  BY <2>3, <3>1, <3>2 DEF Act, TypeOK
  <2>4. CASE Return(c)  BY <2>4, <1>s, StepTypes DEF Return, InHandler, Running, TypeOK
  <2>5. CASE Throw(c)   BY <2>5, <1>s, StepTypes DEF Throw, InHandler, Running, TypeOK
  <2> QED  BY <1>4, <2>1, <2>2, <2>3, <2>4, <2>5 DEF Run
<1>5. ASSUME NEW c \in Chats, Policy(c)
      PROVE  TypeOK'
  <2>1. CASE Settle(c)
    BY <2>1, <1>s, StepTypes DEF Settle, PublishSettled, InHandler, TypeOK
  <2>2. CASE Clear(c)
    BY <2>2, <1>s, StepTypes DEF Clear, Leave, TypeOK
  <2>3. CASE CheckMarker(c)
    BY <2>3, <1>s, StepTypes DEF CheckMarker, InHandler, TypeOK
  <2>4. CASE ReEnqueue(c)
    <3> DEFINE h == Head(chain[c])
               next == <<turnOf(h), attemptOf(h) + 1>>
    <3>1. h \in Jobs /\ Tail(chain[c]) \in Seq(Jobs)
      BY <2>4, HeadIsJob DEF ReEnqueue, TypeOK
    <3>2. job' \in [Jobs -> JobStates]
      <4>1. \/ job' = [job EXCEPT ![h] = "leaving"]
            \/ job' = [[job EXCEPT ![h] = "leaving"] EXCEPT ![next] = "delayed"]
        BY <2>4 DEF ReEnqueue
      <4> HIDE DEF h, next
      <4> QED  BY <3>1, <4>1, <1>s DEF TypeOK
    <3> QED  BY <2>4, <3>1, <3>2 DEF ReEnqueue, TypeOK
  <2>5. CASE GiveUp(c)
    BY <2>5, <1>s, StepTypes DEF GiveUp, PublishSettled, InHandler, TypeOK
  <2> QED  BY <1>5, <2>1, <2>2, <2>3, <2>4, <2>5 DEF Policy
<1>6. ASSUME NEW c \in Chats, Broken(c)
      PROVE  TypeOK'
  <2>1. CASE MarkFails(c)
    <3>1. job' \in [Jobs -> JobStates] /\ headTurn(c) \in Turns /\ Tail(chain[c]) \in Seq(Jobs)
      BY <2>1, <1>s, StepTypes DEF MarkFails, InHandler, Running
    <3>2. faults' \in 0 .. MaxFaults
      BY <2>1, <1>f DEF MarkFails
    <3> QED  BY <2>1, <3>1, <3>2 DEF MarkFails, TypeOK
  <2>2. CASE SettleFails(c)
    <3>1. job' \in [Jobs -> JobStates] /\ headTurn(c) \in Turns /\ Tail(chain[c]) \in Seq(Jobs)
      BY <2>2, <1>s, StepTypes DEF SettleFails, InHandler, Running
    <3>2. faults' \in 0 .. MaxFaults
      BY <2>2, <1>f DEF SettleFails
    <3> QED  BY <2>2, <3>1, <3>2 DEF SettleFails, TypeOK
  <2>3. CASE ClearFails(c)
    <3>1. job' \in [Jobs -> JobStates] /\ headTurn(c) \in Turns /\ Tail(chain[c]) \in Seq(Jobs)
      BY <2>3, <1>s, StepTypes DEF ClearFails, Leave, InHandler, Running
    <3>2. faults' \in 0 .. MaxFaults
      BY <2>3, <1>f DEF ClearFails
    <3> QED  BY <2>3, <3>1, <3>2 DEF ClearFails, Leave, TypeOK
  <2>4. CASE CheckMarkerFails(c)
    <3>1. job' \in [Jobs -> JobStates] /\ headTurn(c) \in Turns /\ Tail(chain[c]) \in Seq(Jobs)
      BY <2>4, <1>s, StepTypes DEF CheckMarkerFails, InHandler, Running
    <3>2. faults' \in 0 .. MaxFaults
      BY <2>4, <1>f DEF CheckMarkerFails
    <3> QED  BY <2>4, <3>1, <3>2 DEF CheckMarkerFails, TypeOK
  <2>5. CASE ReEnqueueFails(c)
    <3>1. job' \in [Jobs -> JobStates] /\ headTurn(c) \in Turns /\ Tail(chain[c]) \in Seq(Jobs)
      BY <2>5, <1>s, StepTypes DEF ReEnqueueFails, Leave, InHandler, Running
    <3>2. faults' \in 0 .. MaxFaults
      BY <2>5, <1>f DEF ReEnqueueFails
    <3> QED  BY <2>5, <3>1, <3>2 DEF ReEnqueueFails, Leave, TypeOK
  <2>6. CASE GiveUpFails(c)
    <3>1. job' \in [Jobs -> JobStates] /\ headTurn(c) \in Turns /\ Tail(chain[c]) \in Seq(Jobs)
      BY <2>6, <1>s, StepTypes DEF GiveUpFails, InHandler, Running
    <3>2. faults' \in 0 .. MaxFaults
      BY <2>6, <1>f DEF GiveUpFails
    <3> QED  BY <2>6, <3>1, <3>2 DEF GiveUpFails, TypeOK
  <2> QED  BY <1>6, <2>1, <2>2, <2>3, <2>4, <2>5, <2>6 DEF Broken
<1>7. CASE Crash
  BY <1>7, <1>s DEF Crash, Fault, TypeOK
<1>8. CASE UNCHANGED vars
  BY <1>8 DEF vars, TypeOK
<1> QED
  BY <1>1, <1>2, <1>3, <1>4, <1>5, <1>6, <1>7, <1>8 DEF Next, Queue

\* The queue, the chains and the markers stay what they are meant to be,
\* whatever fails and however often the core crashes.
THEOREM TypeCorrect == Spec => []TypeOK
  BY InitTypes, NextTypes, PTL DEF Spec

(***************************************************************************)
(* One run per chat: a job inside handleInboundJob is the head of its      *)
(* chat's chain, so there is one at most.                                  *)
(***************************************************************************)
ChainInv ==
  /\ \A c \in Chats : \A i \in 1 .. Len(chain[c]) : chatOfJob(chain[c][i]) = c
  /\ \A j \in Jobs : job[j] \in InHandler =>
       chain[chatOfJob(j)] # << >> /\ Head(chain[chatOfJob(j)]) = j

\* What a step of the running job does to the states of all jobs.
LEMMA StepFrame ==
  ASSUME TypeOK, NEW c \in Chats, NEW s, NEW s2, Step(c, s, s2)
  PROVE  /\ chain[c] # << >> /\ Head(chain[c]) \in Jobs
         /\ job[Head(chain[c])] = s
         /\ \A j \in Jobs : job'[j] = IF j = Head(chain[c]) THEN s2 ELSE job[j]
  BY HeadIsJob DEF TypeOK, Step

\* A step that stays in the handler or enters it keeps the invariant.
LEMMA StepKeepsChain ==
  ASSUME TypeOK, ChainInv, NEW c \in Chats, NEW s, NEW s2, Step(c, s, s2), UNCHANGED chain
  PROVE  ChainInv'
<1>1. chain[c] # << >> /\ Head(chain[c]) = chain[c][1] /\ 1 \in 1 .. Len(chain[c])
  BY StepFrame DEF TypeOK
<1>2. chatOfJob(Head(chain[c])) = c
  BY <1>1 DEF ChainInv
<1> QED
  BY <1>1, <1>2, StepFrame DEF ChainInv, chatOfJob, turnOf

\* So does the step with which the running job leaves the chain.
LEMMA LeaveKeepsChain ==
  ASSUME TypeOK, ChainInv, NEW c \in Chats, chain[c] # << >>,
         chain' = [chain EXCEPT ![c] = Tail(@)],
         job[Head(chain[c])] \in InHandler,
         \A j \in Jobs : job'[j] \in InHandler => job'[j] = job[j] /\ j # Head(chain[c])
  PROVE  ChainInv'
<1>1. chain[c] \in Seq(Jobs) /\ \A d \in Chats : chain'[d] = IF d = c THEN Tail(chain[c]) ELSE chain[d]
  BY DEF TypeOK
<1>2. \A d \in Chats : \A i \in 1 .. Len(chain'[d]) : chatOfJob(chain'[d][i]) = d
  <2> SUFFICES ASSUME NEW d \in Chats, NEW i \in 1 .. Len(chain'[d])
               PROVE  chatOfJob(chain'[d][i]) = d
    OBVIOUS
  <2>1. CASE d = c
    <3>1. i + 1 \in 1 .. Len(chain[c]) /\ chain'[d][i] = chain[c][i + 1]
      <4>1. chain'[d] = Tail(chain[c]) /\ i \in 1 .. Len(Tail(chain[c]))
        BY <1>1, <2>1
      <4> QED  BY <1>1, <4>1, TailElements
    <3> QED  BY <2>1, <3>1 DEF ChainInv
  <2>2. CASE d # c
    BY <1>1, <2>2 DEF ChainInv
  <2> QED  BY <2>1, <2>2
<1>3. \A j \in Jobs : job'[j] \in InHandler => chatOfJob(j) # c
  BY DEF ChainInv
<1>4. \A j \in Jobs : job'[j] \in InHandler =>
        chain'[chatOfJob(j)] # << >> /\ Head(chain'[chatOfJob(j)]) = j
  BY <1>1, <1>3, JobsAreNumbered DEF ChainInv
<1> QED  BY <1>2, <1>4 DEF ChainInv, chatOfJob, turnOf

LEMMA InitChain == Init => ChainInv
  BY DEF Init, ChainInv, InHandler, Running

LEMMA NextChain == TypeOK /\ ChainInv /\ [Next]_vars => ChainInv'
<1> SUFFICES ASSUME TypeOK, ChainInv, [Next]_vars PROVE ChainInv'
  OBVIOUS
<1>p. {"waiting", "chained", "leaving", "over", "delayed", "stalled"} \cap InHandler = {}
  BY DEF InHandler, Running
\* A step of the queue that changes no chain and moves a job outside the handler.
<1>q. ASSUME UNCHANGED chain,
             \A j \in Jobs : job'[j] \in InHandler => job'[j] = job[j]
      PROVE  ChainInv'
  BY <1>q DEF ChainInv, chatOfJob, turnOf
<1>1. CASE Arrive
  BY <1>1, <1>p, <1>q DEF Arrive, TypeOK
<1>2. CASE Pick
  <2> DEFINE h == Head(wait)
             d == chatOfJob(h)
  <2>1. /\ h \in Jobs /\ d \in Chats
        /\ job' = [job EXCEPT ![h] = "chained"]
        /\ chain' = [chain EXCEPT ![d] = Append(@, h)]
    BY <1>2, HeadIsJob, JobsAreNumbered DEF Pick, TypeOK
  <2>2. chatOfJob(h) = d
    OBVIOUS
  <2> HIDE DEF h, d
  <2>3. \A e \in Chats : chain'[e] = IF e = d THEN Append(chain[d], h) ELSE chain[e]
    BY <2>1 DEF TypeOK
  <2>4. \A e \in Chats : chain[e] \in Seq(Jobs)
    BY DEF TypeOK
  <2>5. \A e \in Chats : \A i \in 1 .. Len(chain'[e]) : chatOfJob(chain'[e][i]) = e
    BY <2>1, <2>2, <2>3, <2>4 DEF ChainInv
  <2>6. ASSUME NEW j \in Jobs, job'[j] \in InHandler
        PROVE  chain'[chatOfJob(j)] # << >> /\ Head(chain'[chatOfJob(j)]) = j
    <3>1. j # h /\ job[j] \in InHandler
      BY <2>1, <2>6, <1>p DEF TypeOK
    <3>2. chain[chatOfJob(j)] # << >> /\ Head(chain[chatOfJob(j)]) = j /\ chatOfJob(j) \in Chats
      BY <3>1, JobsAreNumbered DEF ChainInv
    <3> QED  BY <2>1, <2>3, <2>4, <3>2
  <2> QED  BY <2>5, <2>6 DEF ChainInv, chatOfJob, turnOf
<1>3. ASSUME NEW j \in Jobs, Promote(j) \/ Finish(j) \/ Recover(j) \/ Discard(j)
      PROVE  ChainInv'
  BY <1>3, <1>p, <1>q DEF Promote, Finish, Recover, Discard, TypeOK
<1>4. ASSUME NEW c \in Chats, Run(c)
      PROVE  ChainInv'
  BY <1>4, StepKeepsChain DEF Run, Start, Mark, Act, Return, Throw
<1>5. ASSUME NEW c \in Chats, Leave(c, "settled") \/ Leave(c, "retrying") \/ ReEnqueue(c)
      PROVE  ChainInv'
  <2>1. /\ chain[c] # << >> /\ Head(chain[c]) \in Jobs
        /\ chain' = [chain EXCEPT ![c] = Tail(@)]
        /\ job[Head(chain[c])] \in InHandler
    BY <1>5, HeadIsJob DEF Leave, Step, ReEnqueue, InHandler, TypeOK
  <2>2. \A k \in Jobs : job'[k] \in InHandler => job'[k] = job[k] /\ k # Head(chain[c])
    <3>1. CASE Leave(c, "settled") \/ Leave(c, "retrying")
      BY <3>1, <1>p, StepFrame DEF Leave
    <3>2. CASE ReEnqueue(c)
      <4> DEFINE h == Head(chain[c])
                 next == <<turnOf(h), attemptOf(h) + 1>>
      <4>1. \/ job' = [job EXCEPT ![h] = "leaving"]
            \/ job' = [[job EXCEPT ![h] = "leaving"] EXCEPT ![next] = "delayed"]
        BY <3>2 DEF ReEnqueue
      <4>2. h # next
        BY <2>1, JobsAreNumbered
      <4> HIDE DEF next
      <4> QED  BY <2>1, <4>1, <4>2, <1>p DEF TypeOK
    <3> QED  BY <1>5, <3>1, <3>2
  <2> QED  BY <2>1, <2>2, LeaveKeepsChain
<1>6. ASSUME NEW c \in Chats, Policy(c)
      PROVE  ChainInv'
  <2>1. CASE Settle(c) \/ CheckMarker(c) \/ GiveUp(c)
    BY <2>1, StepKeepsChain DEF Settle, CheckMarker, GiveUp
  <2>2. CASE Clear(c) \/ ReEnqueue(c)
    BY <2>2, <1>5 DEF Clear
  <2> QED  BY <1>6, <2>1, <2>2 DEF Policy
<1>7. ASSUME NEW c \in Chats, Broken(c)
      PROVE  ChainInv'
  <2>1. CASE MarkFails(c) \/ SettleFails(c) \/ CheckMarkerFails(c) \/ GiveUpFails(c)
    BY <2>1, StepKeepsChain DEF MarkFails, SettleFails, CheckMarkerFails, GiveUpFails
  <2>2. CASE ClearFails(c) \/ ReEnqueueFails(c)
    BY <2>2, <1>5 DEF ClearFails, ReEnqueueFails
  <2> QED  BY <1>7, <2>1, <2>2 DEF Broken
<1>8. CASE Crash
  <2>1. \A j \in Jobs : job'[j] \notin InHandler
    BY <1>8, <1>p DEF Crash, Active
  <2>2. \A c \in Chats : chain'[c] = << >>
    BY <1>8 DEF Crash
  <2> QED  BY <2>1, <2>2 DEF ChainInv
<1>9. CASE UNCHANGED vars
  BY <1>9, <1>q DEF vars
<1> QED
  BY <1>1, <1>2, <1>3, <1>4, <1>6, <1>7, <1>8, <1>9 DEF Next, Queue

\* A chat's turns never run at the same time, whatever is retried, recovered
\* after a crash or fails on the way.
THEOREM OneRunPerChatHolds == Spec => []OneRunPerChat
<1>1. ChainInv => OneRunPerChat
  BY DEF ChainInv, OneRunPerChat
<1> QED
  BY <1>1, InitTypes, NextTypes, InitChain, NextChain, PTL DEF Spec

(***************************************************************************)
(* One acting run.  Without a crash a turn has one job that still has      *)
(* something to do; until that job acts the turn has not, and from the     *)
(* action on the marker is there for the policy to find.                   *)
(***************************************************************************)
Crashless == "crash" \notin Faults

BeforeActing == {"waiting", "delayed", "chained", "running", "marked", "retrying"}
AfterActing == {"acted", "returned", "threw"}
Busy == BeforeActing \cup AfterActing \cup {"givingUp", "settled"}

WaitInv ==
  \A i \in 1 .. Len(wait) :
    /\ job[wait[i]] = "waiting"
    /\ \A k \in 1 .. Len(wait) : wait[i] = wait[k] => i = k

FreshInv ==
  \A j \in Jobs : turnOf(j) > arrived => job[j] = "absent" /\ runs[turnOf(j)] = 0

OneBusyJob ==
  \A j, k \in Jobs :
    turnOf(j) = turnOf(k) /\ job[j] \in Busy /\ job[k] \in Busy => j = k

MarkInv ==
  \A j \in Jobs :
    /\ job[j] # "stalled"
    /\ job[j] \in BeforeActing => runs[turnOf(j)] = 0
    /\ job[j] = "marked" => turnOf(j) \in marks
    /\ job[j] \in AfterActing /\ runs[turnOf(j)] > 0 => turnOf(j) \in marks

ActInv == WaitInv /\ FreshInv /\ OneBusyJob /\ MarkInv /\ ActsInOneRun

\* The states of jobs as sets, so that a leaf need not compare strings.
LEMMA StateSets ==
  /\ Running \subseteq InHandler
  /\ "waiting" \notin InHandler /\ "stalled" \notin InHandler /\ "absent" \notin InHandler
  /\ "leaving" \notin InHandler /\ "chained" \notin InHandler
  /\ InHandler \subseteq Busy
  /\ "stalled" \notin Busy /\ "absent" \notin Busy /\ "leaving" \notin Busy /\ "over" \notin Busy
  BY DEF Running, InHandler, Busy, BeforeActing, AfterActing

\* The wait list is undisturbed by a step that neither adds nor removes waiting jobs.
LEMMA WaitKept ==
  ASSUME TypeOK, WaitInv, UNCHANGED wait,
         \A j \in Jobs : job[j] = "waiting" => job'[j] = "waiting"
  PROVE  WaitInv'
  BY DEF WaitInv, TypeOK

\* ... and by one that appends a job which was not waiting.
LEMMA WaitAppended ==
  ASSUME TypeOK, WaitInv, NEW j \in Jobs, job[j] # "waiting",
         job' = [job EXCEPT ![j] = "waiting"], wait' = Append(wait, j)
  PROVE  WaitInv'
<1>1. wait \in Seq(Jobs)
  BY DEF TypeOK
<1>2. \A i \in 1 .. Len(wait) : wait[i] \in Jobs /\ wait[i] # j
  BY <1>1 DEF WaitInv
<1>3. Len(wait') = Len(wait) + 1 /\ wait'[Len(wait) + 1] = j
      /\ \A i \in 1 .. Len(wait) : wait'[i] = wait[i]
  BY <1>1
<1>4. \A i \in 1 .. Len(wait') : job'[wait'[i]] = "waiting"
  BY <1>1, <1>2, <1>3 DEF WaitInv, TypeOK
<1>5. \A i, k \in 1 .. Len(wait') : wait'[i] = wait'[k] => i = k
  BY <1>1, <1>2, <1>3 DEF WaitInv
<1> QED  BY <1>4, <1>5 DEF WaitInv

\* A step of the running job, from one busy state to another, keeps ActInv if
\* the new state fits the turn's marker and its acting runs.
LEMMA StepKeepsAct ==
  ASSUME TypeOK, ActInv, NEW c \in Chats, NEW s \in Busy, NEW s2 \in Busy, Step(c, s, s2),
         s # "waiting", s2 # "waiting",
         UNCHANGED <<arrived, wait, runs>>, marks \subseteq marks',
         s2 \in BeforeActing => runs[headTurn(c)] = 0,
         s2 = "marked" => headTurn(c) \in marks',
         s2 \in AfterActing /\ runs[headTurn(c)] > 0 => headTurn(c) \in marks'
  PROVE  ActInv'
<1> DEFINE h == Head(chain[c])
<1>1. h \in Jobs /\ job[h] = s /\ turnOf(h) = headTurn(c)
      /\ \A j \in Jobs : job'[j] = IF j = h THEN s2 ELSE job[j]
  BY StepFrame DEF headTurn
<1> HIDE DEF h
<1>2. WaitInv'
  BY <1>1, WaitKept DEF ActInv
<1>3. FreshInv'
  BY <1>1, StateSets DEF ActInv, FreshInv, turnOf
<1>4. OneBusyJob'
  BY <1>1 DEF ActInv, OneBusyJob, turnOf
<1>5. MarkInv'
  BY <1>1, StateSets DEF ActInv, MarkInv, turnOf
<1> QED  BY <1>2, <1>3, <1>4, <1>5 DEF ActInv, ActsInOneRun

\* The running job leaves: its turn has no other busy job, so the marker may go.
LEMMA LeaveKeepsAct ==
  ASSUME TypeOK, ActInv, NEW c \in Chats, NEW s \in InHandler, Leave(c, s),
         UNCHANGED <<arrived, wait, runs>>,
         marks' = marks \/ marks' = marks \ {headTurn(c)}
  PROVE  ActInv'
<1> DEFINE h == Head(chain[c])
<1>1. h \in Jobs /\ job[h] = s /\ turnOf(h) = headTurn(c)
      /\ \A j \in Jobs : job'[j] = IF j = h THEN "leaving" ELSE job[j]
  BY StepFrame DEF headTurn, Leave
<1> HIDE DEF h
<1>2. WaitInv'
  BY <1>1, WaitKept, StateSets DEF ActInv
<1>3. FreshInv'
  BY <1>1, StateSets DEF ActInv, FreshInv, turnOf
<1>4. OneBusyJob'
  BY <1>1, StateSets DEF ActInv, OneBusyJob, turnOf
<1>5. MarkInv'
  <2> SUFFICES ASSUME NEW j \in Jobs
               PROVE  /\ job'[j] # "stalled"
                      /\ job'[j] \in BeforeActing => runs[turnOf(j)] = 0
                      /\ job'[j] = "marked" => turnOf(j) \in marks'
                      /\ job'[j] \in AfterActing /\ runs[turnOf(j)] > 0 => turnOf(j) \in marks'
    BY DEF MarkInv, turnOf
  <2>1. CASE j = h
    BY <1>1, <2>1 DEF BeforeActing, AfterActing
  <2>2. CASE j # h /\ job[j] \notin Busy
    BY <1>1, <2>2 DEF ActInv, MarkInv, Busy, BeforeActing, AfterActing
  <2>3. CASE j # h /\ job[j] \in Busy
    <3>1. turnOf(j) # headTurn(c)
      BY <1>1, <2>3, StateSets DEF ActInv, OneBusyJob
    <3> QED  BY <1>1, <2>3, <3>1 DEF ActInv, MarkInv
  <2> QED  BY <2>1, <2>2, <2>3
<1> QED  BY <1>2, <1>3, <1>4, <1>5 DEF ActInv, ActsInOneRun

LEMMA InitAct == Init => ActInv
  BY DEF Init, ActInv, WaitInv, FreshInv, OneBusyJob, MarkInv, ActsInOneRun,
         Busy, BeforeActing, AfterActing, turnOf, Jobs

LEMMA NextAct == Crashless /\ TypeOK /\ ActInv /\ [Next]_vars => ActInv'
<1> SUFFICES ASSUME Crashless, TypeOK, ActInv, [Next]_vars PROVE ActInv'
  OBVIOUS
<1>1. CASE Arrive
  <2> DEFINE new == <<arrived + 1, 1>>
  <2>1. /\ new \in Jobs /\ turnOf(new) = arrived + 1
        /\ job' = [job EXCEPT ![new] = "waiting"] /\ wait' = Append(wait, new)
        /\ arrived' = arrived + 1 /\ UNCHANGED <<marks, runs>>
    BY <1>1, ConstantsAssumption DEF Arrive, Jobs, Turns, TypeOK, turnOf
  <2> HIDE DEF new
  <2>2. /\ job[new] = "absent" /\ runs[turnOf(new)] = 0
        /\ \A j \in Jobs : turnOf(j) = turnOf(new) => job[j] = "absent"
    BY <2>1 DEF ActInv, FreshInv, TypeOK
  <2>3. \A j \in Jobs : job'[j] = IF j = new THEN "waiting" ELSE job[j]
    BY <2>1 DEF TypeOK
  <2>4. WaitInv'
    BY <2>1, <2>2, WaitAppended DEF ActInv
  <2>5. FreshInv'
    BY SMTT(30), <2>1, <2>3, JobsAreNumbered DEF ActInv, FreshInv, TypeOK, turnOf, Turns
  <2>6. OneBusyJob'
    BY <2>2, <2>3, StateSets DEF ActInv, OneBusyJob, turnOf
  <2>7. MarkInv'
    BY <2>1, <2>2, <2>3 DEF ActInv, MarkInv, BeforeActing, AfterActing, turnOf
  <2> QED  BY <2>1, <2>4, <2>5, <2>6, <2>7 DEF ActInv, ActsInOneRun
<1>2. CASE Pick
  <2> DEFINE h == Head(wait)
  <2>1. /\ wait # << >> /\ h \in Jobs /\ wait' = Tail(wait)
        /\ job' = [job EXCEPT ![h] = "chained"]
        /\ UNCHANGED <<arrived, marks, runs>>
    BY <1>2, HeadIsJob DEF Pick, TypeOK
  <2>2. wait \in Seq(Jobs) /\ h = wait[1] /\ 1 \in 1 .. Len(wait)
    BY <2>1 DEF TypeOK
  <2>3. job[h] = "waiting"
    BY <2>2 DEF ActInv, WaitInv
  <2> HIDE DEF h
  <2>4. \A j \in Jobs : job'[j] = IF j = h THEN "chained" ELSE job[j]
    BY <2>1 DEF TypeOK
  <2>5. \A i \in 1 .. Len(wait') : i + 1 \in 1 .. Len(wait) /\ wait'[i] = wait[i + 1]
    BY <2>1, <2>2, TailElements
  <2>6. \A i \in 1 .. Len(wait') : wait'[i] \in Jobs /\ wait'[i] # h
    BY <2>2, <2>5 DEF ActInv, WaitInv
  <2>7. \A i, k \in 1 .. Len(wait') : wait'[i] = wait'[k] => i = k
    <3>1. \A i, k \in 1 .. Len(wait') : wait'[i] = wait'[k] => i + 1 = k + 1
      BY <2>5 DEF ActInv, WaitInv
    <3> QED  BY <3>1
  <2>8. \A i \in 1 .. Len(wait') : job'[wait'[i]] = "waiting"
    BY <2>4, <2>5, <2>6 DEF ActInv, WaitInv
  <2>9. WaitInv'
    BY <2>7, <2>8 DEF WaitInv
  <2>10. FreshInv'
    BY <2>1, <2>3, <2>4 DEF ActInv, FreshInv, turnOf
  <2>11. OneBusyJob'
    BY <2>3, <2>4 DEF ActInv, OneBusyJob, Busy, BeforeActing, turnOf
  <2>12. MarkInv'
    BY <2>1, <2>3, <2>4 DEF ActInv, MarkInv, BeforeActing, AfterActing, turnOf
  <2> QED  BY <2>1, <2>9, <2>10, <2>11, <2>12 DEF ActInv, ActsInOneRun
<1>3. ASSUME NEW j \in Jobs, Promote(j)
      PROVE  ActInv'
  <2>1. /\ job[j] = "delayed" /\ job' = [job EXCEPT ![j] = "waiting"]
        /\ wait' = Append(wait, j) /\ UNCHANGED <<arrived, marks, runs>>
    BY <1>3 DEF Promote
  <2>2. \A k \in Jobs : job'[k] = IF k = j THEN "waiting" ELSE job[k]
    BY <2>1 DEF TypeOK
  <2>3. WaitInv'
    BY <2>1, WaitAppended DEF ActInv
  <2>4. FreshInv' /\ OneBusyJob' /\ MarkInv'
    BY <2>1, <2>2 DEF ActInv, FreshInv, OneBusyJob, MarkInv, Busy, BeforeActing, AfterActing, turnOf
  <2> QED  BY <2>1, <2>3, <2>4 DEF ActInv, ActsInOneRun
<1>4. ASSUME NEW j \in Jobs, Finish(j)
      PROVE  ActInv'
  <2>1. /\ job[j] = "leaving" /\ job' = [job EXCEPT ![j] = "over"]
        /\ UNCHANGED <<arrived, wait, marks, runs>>
    BY <1>4 DEF Finish
  <2>2. \A k \in Jobs : job'[k] = IF k = j THEN "over" ELSE job[k]
    BY <2>1 DEF TypeOK
  <2>3. WaitInv'
    BY <2>1, <2>2, WaitKept DEF ActInv
  <2>4. FreshInv' /\ OneBusyJob' /\ MarkInv'
    BY <2>1, <2>2, StateSets DEF ActInv, FreshInv, OneBusyJob, MarkInv, BeforeActing, AfterActing, turnOf
  <2> QED  BY <2>1, <2>3, <2>4 DEF ActInv, ActsInOneRun
<1>5. ASSUME NEW j \in Jobs, Recover(j) \/ Discard(j)
      PROVE  ActInv'
  \* Without a crash no job is ever stalled.
  BY <1>5 DEF Recover, Discard, ActInv, MarkInv
<1>6. ASSUME NEW c \in Chats, Run(c)
      PROVE  ActInv'
  <2> DEFINE h == Head(chain[c])
  <2>0. ASSUME NEW s \in Busy, NEW s2, Step(c, s, s2)
        PROVE  /\ s \in BeforeActing => runs[headTurn(c)] = 0
               /\ s = "marked" => headTurn(c) \in marks
               /\ s \in AfterActing /\ runs[headTurn(c)] > 0 => headTurn(c) \in marks
    BY <2>0, StepFrame DEF ActInv, MarkInv, headTurn
  <2>1. CASE Start(c)
    BY <2>1, <2>0, StepKeepsAct DEF Start, Busy, BeforeActing, AfterActing
  <2>2. CASE Mark(c)
    BY <2>2, <2>0, StepKeepsAct DEF Mark, Busy, BeforeActing, AfterActing
  <2>3. CASE Act(c)
    <3>1. /\ Step(c, "marked", "acted") /\ UNCHANGED <<arrived, wait, marks>>
          /\ runs' = [runs EXCEPT ![headTurn(c)] = @ + 1]
      BY <2>3 DEF Act
    <3>2. /\ h \in Jobs /\ job[h] = "marked" /\ turnOf(h) = headTurn(c)
          /\ \A j \in Jobs : job'[j] = IF j = h THEN "acted" ELSE job[j]
      BY <3>1, StepFrame DEF headTurn
    <3> HIDE DEF h
    <3>3. headTurn(c) \in Turns /\ runs[headTurn(c)] = 0 /\ headTurn(c) \in marks
      BY <3>2, JobsAreNumbered DEF ActInv, MarkInv, BeforeActing
    <3>4. \A t \in Turns : runs'[t] = IF t = headTurn(c) THEN 1 ELSE runs[t]
      BY <3>1, <3>3 DEF TypeOK
    <3>5. ActsInOneRun' /\ WaitInv'
      BY <3>1, <3>2, <3>4, WaitKept DEF ActInv, ActsInOneRun
    <3>6. OneBusyJob'
      BY <3>2 DEF ActInv, OneBusyJob, Busy, BeforeActing, AfterActing, turnOf
    <3>7. FreshInv'
      BY <3>1, <3>2, <3>4, JobsAreNumbered DEF ActInv, FreshInv, turnOf
    <3>8. MarkInv'
      <4> SUFFICES ASSUME NEW j \in Jobs
                   PROVE  /\ job'[j] # "stalled"
                          /\ job'[j] \in BeforeActing => runs'[turnOf(j)] = 0
                          /\ job'[j] = "marked" => turnOf(j) \in marks'
                          /\ job'[j] \in AfterActing /\ runs'[turnOf(j)] > 0 => turnOf(j) \in marks'
        BY DEF MarkInv, turnOf
      <4>1. CASE j = h
        BY <3>1, <3>2, <3>3, <4>1 DEF BeforeActing
      <4>2. CASE j # h /\ turnOf(j) = turnOf(h)
        <5>1. job[j] \notin Busy /\ job'[j] = job[j]
          BY <3>2, <4>2 DEF ActInv, OneBusyJob, Busy, BeforeActing
        <5> QED  BY <5>1 DEF ActInv, MarkInv, Busy, BeforeActing, AfterActing
      <4>3. CASE turnOf(j) # turnOf(h)
        BY <3>1, <3>2, <3>4, <4>3, JobsAreNumbered DEF ActInv, MarkInv
      <4> QED  BY <4>1, <4>2, <4>3
    <3> QED  BY <3>5, <3>6, <3>7, <3>8 DEF ActInv
  <2>4. ASSUME NEW s \in Running, NEW s2 \in {"returned", "threw"}, Step(c, s, s2),
               UNCHANGED <<arrived, wait, marks, runs>>
        PROVE  ActInv'
    <3>1. runs[headTurn(c)] > 0 => headTurn(c) \in marks
      BY <2>0, <2>4 DEF Running, Busy, BeforeActing, AfterActing
    <3>2. s \in Busy /\ s2 \in Busy /\ s # "waiting" /\ s2 # "waiting" /\ s2 # "marked" /\ s2 \notin BeforeActing
      BY <2>4 DEF Running, Busy, BeforeActing, AfterActing
    <3> QED  BY <2>4, <3>1, <3>2, StepKeepsAct
  <2>5. CASE Return(c) \/ Throw(c)
    BY <2>4, <2>5 DEF Return, Throw
  <2> QED  BY <1>6, <2>1, <2>2, <2>3, <2>5 DEF Run
\* A step between states in which nothing more is required than that the
\* turn acted in one run.
<1>7. ASSUME NEW c \in Chats, NEW s \in Busy, NEW s2 \in {"givingUp", "settled"}, Step(c, s, s2),
             s # "waiting", UNCHANGED <<arrived, wait, marks, runs>>
      PROVE  ActInv'
  BY <1>7, StepKeepsAct DEF Busy, BeforeActing, AfterActing
\* A failed call sends the turn to the catch.
<1>8. ASSUME NEW c \in Chats, NEW s \in {"running", "returned"}, Step(c, s, "threw"),
             UNCHANGED <<arrived, wait, marks, runs>>
      PROVE  ActInv'
  <2>1. runs[headTurn(c)] > 0 => headTurn(c) \in marks
    BY <1>8, StepFrame DEF ActInv, MarkInv, headTurn, BeforeActing, AfterActing
  <2> QED  BY <1>8, <2>1, StepKeepsAct DEF Busy, BeforeActing, AfterActing
\* The marker decides: a turn that is tried again has not acted.
<1>9. ASSUME NEW c \in Chats, Step(c, "threw", "retrying"), headTurn(c) \notin marks,
             UNCHANGED <<arrived, wait, marks, runs>>
      PROVE  ActInv'
  <2>1. headTurn(c) \in Turns
    BY <1>9, StepTypes DEF JobStates, Active, InHandler
  <2>2. runs[headTurn(c)] = 0
    BY <1>9, <2>1, StepFrame DEF ActInv, MarkInv, headTurn, AfterActing, TypeOK
  <2> QED  BY <1>9, <2>2, StepKeepsAct DEF Busy, BeforeActing, AfterActing
<1>10. ASSUME NEW c \in Chats, ReEnqueue(c)
       PROVE  ActInv'
  <2> DEFINE h == Head(chain[c])
             next == <<turnOf(h), attemptOf(h) + 1>>
  <2>1. /\ h \in Jobs /\ job[h] = "retrying"
        /\ \/ job' = [job EXCEPT ![h] = "leaving"]
           \/ job[next] = "absent" /\ job' = [[job EXCEPT ![h] = "leaving"] EXCEPT ![next] = "delayed"]
        /\ UNCHANGED <<arrived, wait, marks, runs>>
    BY <1>10, HeadIsJob DEF ReEnqueue, TypeOK
  <2>2. turnOf(next) = turnOf(h) /\ next # h
    BY <2>1, JobsAreNumbered DEF turnOf, attemptOf
  <2> HIDE DEF h, next
  <2>3. \A j \in Jobs : j # h => job'[j] = job[j] \/ (j = next /\ job[j] = "absent" /\ job'[j] = "delayed")
    BY <2>1, <2>2 DEF TypeOK
  <2>4. job'[h] = "leaving"
    BY <2>1, <2>2 DEF TypeOK
  <2>5. runs[turnOf(h)] = 0 /\ ~(turnOf(h) > arrived)
        /\ \A j \in Jobs : turnOf(j) = turnOf(h) /\ j # h => job[j] \notin Busy
    BY <2>1 DEF ActInv, MarkInv, FreshInv, OneBusyJob, Busy, BeforeActing
  <2>6. WaitInv'
    BY <2>1, <2>3, WaitKept DEF ActInv
  <2>7. FreshInv'
    BY <2>1, <2>2, <2>3, <2>4, <2>5 DEF ActInv, FreshInv, turnOf
  <2>8. OneBusyJob'
    BY <2>2, <2>3, <2>4, <2>5, StateSets DEF ActInv, OneBusyJob, turnOf
  <2>9. MarkInv'
    BY <2>1, <2>2, <2>3, <2>4, <2>5 DEF ActInv, MarkInv, BeforeActing, AfterActing, turnOf
  <2> QED  BY <2>1, <2>6, <2>7, <2>8, <2>9 DEF ActInv, ActsInOneRun
<1>11. ASSUME NEW c \in Chats, Policy(c)
       PROVE  ActInv'
  <2>1. CASE Settle(c) \/ GiveUp(c)
    BY <2>1, <1>7 DEF Settle, GiveUp, Busy, AfterActing
  <2>2. CASE Clear(c)
    BY <2>2, LeaveKeepsAct DEF Clear, InHandler
  <2>3. CASE CheckMarker(c)
    <3>1. CASE Step(c, "threw", "givingUp")
      BY <2>3, <3>1, <1>7 DEF CheckMarker, Busy, AfterActing
    <3>2. CASE Step(c, "threw", "retrying") /\ ~ Step(c, "threw", "givingUp")
      BY <2>3, <3>2, <1>9 DEF CheckMarker, Retriable
    <3> QED  BY <2>3, <3>1, <3>2 DEF CheckMarker
  <2>4. CASE ReEnqueue(c)
    BY <2>4, <1>10
  <2> QED  BY <1>11, <2>1, <2>2, <2>3, <2>4 DEF Policy
<1>12. ASSUME NEW c \in Chats, Broken(c)
       PROVE  ActInv'
  <2>1. CASE MarkFails(c) \/ SettleFails(c)
    BY <2>1, <1>8 DEF MarkFails, SettleFails
  <2>2. CASE ClearFails(c) \/ ReEnqueueFails(c)
    BY <2>2, LeaveKeepsAct DEF ClearFails, ReEnqueueFails, InHandler
  <2>3. CASE CheckMarkerFails(c)
    BY <2>3, <1>7 DEF CheckMarkerFails, Retriable, Busy, AfterActing
  <2>4. CASE GiveUpFails(c)
    BY <2>4, <1>7 DEF GiveUpFails, Busy
  <2> QED  BY <1>12, <2>1, <2>2, <2>3, <2>4 DEF Broken
<1>13. CASE UNCHANGED vars
  BY <1>13 DEF vars, ActInv, WaitInv, FreshInv, OneBusyJob, MarkInv, ActsInOneRun, turnOf
<1>14. ~Crash
  BY DEF Crash, Fault, Crashless
<1> QED
  BY <1>1, <1>2, <1>3, <1>4, <1>5, <1>6, <1>11, <1>12, <1>13, <1>14 DEF Next, Queue

\* "Nothing double-sends or double-executes", as far as no crash is concerned:
\* whatever calls fail, and also when the marker cannot be written, read or
\* cleared, a turn acts in at most one of its runs.
THEOREM ActsInOneRunHolds == Crashless => (Spec => []ActsInOneRun)
<1>1. ActInv => ActsInOneRun
  BY DEF ActInv
<1>2. Crashless /\ TypeOK /\ ActInv /\ [Next]_vars => ActInv'
  BY NextAct
<1>3. ASSUME Crashless PROVE Spec => []ActsInOneRun
  <2>1. TypeOK /\ ActInv /\ [Next]_vars => ActInv'
    BY <1>2, <1>3
  <2> QED  BY <1>1, <2>1, InitTypes, NextTypes, InitAct, PTL DEF Spec
<1> QED  BY <1>3

(***************************************************************************)
(* No turn is dropped silently.  The attempts of a turn are numbered       *)
(* without gaps, and an attempt that left the handler was settled, was     *)
(* lost with a failed call or has the next attempt behind it: the last     *)
(* attempt of a turn with no job left can only have been settled or lost.  *)
(***************************************************************************)
nextOf(j) == <<turnOf(j), attemptOf(j) + 1>>

\* The first attempts of a turn that arrived are jobs, the later ones not yet.
Attempted(t) ==
  \/ t > arrived /\ \A n \in 1 .. MaxAttempts : job[<<t, n>>] = "absent"
  \/ /\ t <= arrived
     /\ \E m \in 1 .. MaxAttempts : \A n \in 1 .. MaxAttempts :
          job[<<t, n>>] # "absent" <=> n <= m

AttemptsInv == \A t \in Turns : Attempted(t)

EndOf(j) ==
  /\ job[j] = "retrying" => attemptOf(j) < MaxAttempts
  /\ job[j] = "settled" => turnOf(j) \in settled \cup lost
  /\ job[j] \in {"leaving", "over"} =>
       \/ turnOf(j) \in settled \cup lost
       \/ attemptOf(j) < MaxAttempts /\ job[nextOf(j)] # "absent"

EndInv == \A j \in Jobs : EndOf(j)

\* A step that makes no new job keeps both, if the jobs it moves fit EndOf.
LEMMA EndKept ==
  ASSUME TypeOK, AttemptsInv, EndInv, UNCHANGED arrived,
         settled \subseteq settled', lost \subseteq lost',
         \A k \in Jobs : job'[k] = "absent" <=> job[k] = "absent",
         \A k \in Jobs : job'[k] = job[k] \/ EndOf(k)'
  PROVE  AttemptsInv' /\ EndInv'
<1>1. AttemptsInv'
  <2> SUFFICES ASSUME NEW t \in Turns PROVE Attempted(t)'
    BY DEF AttemptsInv
  <2>1. \A n \in 1 .. MaxAttempts : job'[<<t, n>>] = "absent" <=> job[<<t, n>>] = "absent"
    BY DEF Jobs
  <2> QED  BY <2>1 DEF AttemptsInv, Attempted
<1>2. ASSUME NEW k \in Jobs, job'[k] = job[k] PROVE EndOf(k)'
  <2>1. attemptOf(k) < MaxAttempts => nextOf(k) \in Jobs
    BY JobsAreNumbered DEF nextOf
  <2> QED  BY <1>2, <2>1 DEF EndInv, EndOf, turnOf, attemptOf, nextOf
<1> QED  BY <1>1, <1>2 DEF EndInv

\* The running job takes a step inside the handler or leaves it.
LEMMA StepKeepsEnd ==
  ASSUME TypeOK, AttemptsInv, EndInv, NEW c \in Chats, NEW s, NEW s2,
         Step(c, s, s2), s # "absent", s2 # "absent",
         UNCHANGED arrived, settled \subseteq settled', lost \subseteq lost',
         s2 = "retrying" => attemptOf(Head(chain[c])) < MaxAttempts,
         s2 \in {"settled", "leaving"} => headTurn(c) \in settled' \cup lost',
         s2 # "over"
  PROVE  AttemptsInv' /\ EndInv'
<1> DEFINE h == Head(chain[c])
<1>1. h \in Jobs /\ job[h] = s /\ turnOf(h) = headTurn(c)
      /\ \A j \in Jobs : job'[j] = IF j = h THEN s2 ELSE job[j]
  BY StepFrame DEF headTurn
<1>2. ASSUME NEW k \in Jobs, k = h PROVE EndOf(k)'
  BY <1>1, <1>2 DEF EndOf, turnOf, attemptOf, headTurn
<1> QED  BY <1>1, <1>2, EndKept

\* The wait list stays well-formed when its head is taken.
LEMMA WaitShortened ==
  ASSUME TypeOK, WaitInv, wait # << >>, wait' = Tail(wait),
         NEW s, job' = [job EXCEPT ![Head(wait)] = s]
  PROVE  WaitInv'
<1>1. wait \in Seq(Jobs) /\ Head(wait) = wait[1] /\ 1 \in 1 .. Len(wait)
  BY DEF TypeOK
<1>2. \A i \in 1 .. Len(wait') : i + 1 \in 1 .. Len(wait) /\ wait'[i] = wait[i + 1]
  BY <1>1, TailElements
<1>3. \A i \in 1 .. Len(wait') : wait'[i] \in Jobs /\ wait'[i] # Head(wait)
  BY <1>1, <1>2 DEF WaitInv
<1>4. \A i, k \in 1 .. Len(wait') : wait'[i] = wait'[k] => i = k
  <2>1. \A i, k \in 1 .. Len(wait') : wait'[i] = wait'[k] => i + 1 = k + 1
    BY <1>2 DEF WaitInv
  <2> QED  BY <2>1
<1>5. \A i \in 1 .. Len(wait') : job'[wait'[i]] = "waiting"
  BY <1>2, <1>3 DEF WaitInv, TypeOK
<1> QED  BY <1>4, <1>5 DEF WaitInv

\* ... and by one that puts a job which was not waiting in front.
LEMMA WaitPreceded ==
  ASSUME TypeOK, WaitInv, NEW j \in Jobs, job[j] # "waiting",
         job' = [job EXCEPT ![j] = "waiting"], wait' = <<j>> \o wait
  PROVE  WaitInv'
<1>1. wait \in Seq(Jobs)
  BY DEF TypeOK
<1>2. \A i \in 1 .. Len(wait) : wait[i] \in Jobs /\ wait[i] # j
  BY <1>1 DEF WaitInv
<1>3. Len(wait') = Len(wait) + 1 /\ wait'[1] = j
      /\ \A i \in 1 .. Len(wait') : i # 1 => i - 1 \in 1 .. Len(wait) /\ wait'[i] = wait[i - 1]
  BY <1>1
<1>4. \A i \in 1 .. Len(wait') : job'[wait'[i]] = "waiting"
  BY <1>1, <1>2, <1>3 DEF WaitInv, TypeOK
<1>5. ASSUME NEW i \in 1 .. Len(wait'), NEW k \in 1 .. Len(wait'), wait'[i] = wait'[k]
      PROVE  i = k
  <2>1. CASE i = 1 \/ k = 1
    BY <1>2, <1>3, <1>5, <2>1
  <2>2. CASE i # 1 /\ k # 1
    <3>1. i - 1 = k - 1
      BY <1>3, <1>5, <2>2 DEF WaitInv
    <3> QED  BY <3>1
  <2> QED  BY <2>1, <2>2
<1> QED  BY <1>4, <1>5 DEF WaitInv

\* The job the worker picks is a waiting one.
LEMMA HeadIsWaiting ==
  ASSUME TypeOK, WaitInv, wait # << >>
  PROVE  Head(wait) \in Jobs /\ job[Head(wait)] = "waiting"
<1>1. wait \in Seq(Jobs) /\ Head(wait) = wait[1] /\ 1 \in 1 .. Len(wait)
  BY DEF TypeOK
<1> QED  BY <1>1 DEF WaitInv

LEMMA InitWait == Init => WaitInv
  BY DEF Init, WaitInv

\* The wait list holds waiting jobs only, each once, crash or no crash.
LEMMA NextWait == TypeOK /\ AttemptsInv /\ WaitInv /\ [Next]_vars => WaitInv'
<1> SUFFICES ASSUME TypeOK, AttemptsInv, WaitInv, [Next]_vars PROVE WaitInv'
  OBVIOUS
<1>1. CASE Arrive
  <2> DEFINE new == <<arrived + 1, 1>>
  <2>1. /\ arrived + 1 \in Turns /\ new \in Jobs
        /\ job' = [job EXCEPT ![new] = "waiting"] /\ wait' = Append(wait, new)
    BY <1>1, ConstantsAssumption DEF Arrive, Jobs, Turns, TypeOK
  <2>2. job[new] = "absent"
    <3>1. ~(arrived + 1 <= arrived) /\ 1 \in 1 .. MaxAttempts
      BY ConstantsAssumption DEF TypeOK
    <3> QED  BY <2>1, <3>1 DEF AttemptsInv, Attempted
  <2> HIDE DEF new
  <2> QED  BY <2>1, <2>2, WaitAppended
<1>2. CASE Pick
  <2> DEFINE j == Head(wait)
  <2>1. job' = [job EXCEPT ![j] = "chained"] /\ wait # << >> /\ wait' = Tail(wait)
    BY <1>2 DEF Pick
  <2> QED  BY <2>1, WaitShortened
<1>3. ASSUME NEW j \in Jobs, Promote(j) \/ Finish(j) \/ Recover(j) \/ Discard(j)
      PROVE  WaitInv'
  <2>1. CASE Promote(j)
    BY <2>1, WaitAppended DEF Promote
  <2>2. CASE Recover(j)
    BY <2>2, WaitPreceded DEF Recover
  <2>3. CASE Finish(j) \/ Discard(j)
    BY <2>3, WaitKept DEF Finish, Discard, TypeOK
  <2> QED  BY <1>3, <2>1, <2>2, <2>3
\* A chat's running job was not waiting, and its step leaves the list alone.
<1>4. ASSUME NEW c \in Chats, NEW s, NEW s2, Step(c, s, s2), s # "waiting", UNCHANGED wait
      PROVE  WaitInv'
  BY <1>4, StepFrame, WaitKept
<1>5. ASSUME NEW c \in Chats, Run(c)
      PROVE  WaitInv'
  BY <1>5, <1>4 DEF Run, Start, Mark, Act, Return, Throw, Running
<1>6. ASSUME NEW c \in Chats, Policy(c)
      PROVE  WaitInv'
  <2>1. CASE Settle(c) \/ Clear(c) \/ CheckMarker(c) \/ GiveUp(c)
    BY <2>1, <1>4 DEF Settle, Clear, CheckMarker, GiveUp, Leave
  <2>2. CASE ReEnqueue(c)
    <3> DEFINE h == Head(chain[c])
               next == <<turnOf(h), attemptOf(h) + 1>>
    <3>1. /\ h \in Jobs /\ job[h] = "retrying" /\ UNCHANGED wait
          /\ \/ job' = [job EXCEPT ![h] = "leaving"]
             \/ job[next] = "absent" /\ job' = [[job EXCEPT ![h] = "leaving"] EXCEPT ![next] = "delayed"]
      BY <2>2, HeadIsJob DEF ReEnqueue, TypeOK
    <3> HIDE DEF h, next
    <3> QED  BY <3>1, WaitKept DEF TypeOK
  <2> QED  BY <1>6, <2>1, <2>2 DEF Policy
<1>7. ASSUME NEW c \in Chats, Broken(c)
      PROVE  WaitInv'
  BY <1>7, <1>4 DEF Broken, MarkFails, SettleFails, ClearFails, CheckMarkerFails,
                    ReEnqueueFails, GiveUpFails, Leave
<1>8. CASE Crash
  BY <1>8, WaitKept, StateSets DEF Crash, Active
<1>9. CASE UNCHANGED vars
  BY <1>9, WaitKept DEF vars
<1> QED
  BY <1>1, <1>2, <1>3, <1>5, <1>6, <1>7, <1>8, <1>9 DEF Next, Queue

LEMMA InitEnd == Init => AttemptsInv /\ EndInv
<1> SUFFICES ASSUME Init PROVE AttemptsInv /\ EndInv
  OBVIOUS
<1>1. AttemptsInv
  BY DEF Init, AttemptsInv, Attempted, Jobs, Turns
<1>2. EndInv
  BY DEF Init, EndInv, EndOf
<1> QED  BY <1>1, <1>2

LEMMA NextEnd ==
  TypeOK /\ WaitInv /\ AttemptsInv /\ EndInv /\ [Next]_vars => AttemptsInv' /\ EndInv'
<1> SUFFICES ASSUME TypeOK, WaitInv, AttemptsInv, EndInv, [Next]_vars PROVE AttemptsInv' /\ EndInv'
  OBVIOUS
<1>1. CASE Arrive
  <2> DEFINE new == <<arrived + 1, 1>>
  <2>1. /\ arrived + 1 \in Turns /\ new \in Jobs
        /\ job' = [job EXCEPT ![new] = "waiting"]
        /\ arrived' = arrived + 1 /\ UNCHANGED <<settled, lost>>
    BY <1>1, ConstantsAssumption DEF Arrive, Jobs, Turns, TypeOK
  <2>2. \A j \in Jobs : job'[j] = IF j = new THEN "waiting" ELSE job[j]
    BY <2>1 DEF TypeOK
  <2>3. ASSUME NEW t \in Turns PROVE Attempted(t)'
    <3>1. CASE t = arrived + 1
      <4>1. \A n \in 1 .. MaxAttempts : job'[<<t, n>>] # "absent" <=> n <= 1
        BY <2>1, <2>2, <3>1 DEF AttemptsInv, Attempted, Jobs, Turns, TypeOK
      <4>2. 1 \in 1 .. MaxAttempts /\ t <= arrived'
        BY <2>1, <3>1, ConstantsAssumption DEF TypeOK, Turns
      <4> QED  BY <4>1, <4>2 DEF Attempted
    <3>2. CASE t # arrived + 1
      <4>1. \A n \in 1 .. MaxAttempts : job'[<<t, n>>] = job[<<t, n>>]
        BY <2>2, <3>2 DEF Jobs
      <4>2. (t > arrived' <=> t > arrived) /\ (t <= arrived' <=> t <= arrived)
        BY <2>1, <3>2 DEF TypeOK, Turns
      <4> QED  BY <4>1, <4>2 DEF AttemptsInv, Attempted
    <3> QED  BY <3>1, <3>2
  <2>4. ASSUME NEW j \in Jobs PROVE EndOf(j)'
    <3>1. attemptOf(j) < MaxAttempts => nextOf(j) \in Jobs
      BY JobsAreNumbered DEF nextOf
    <3> QED  BY <2>1, <2>2, <3>1 DEF EndInv, EndOf, turnOf, attemptOf, nextOf
  <2> QED  BY <2>3, <2>4 DEF AttemptsInv, EndInv
<1>2. CASE Pick
  <2> DEFINE h == Head(wait)
  <2>1. /\ h \in Jobs /\ job[h] = "waiting"
        /\ job' = [job EXCEPT ![h] = "chained"]
        /\ UNCHANGED <<arrived, settled, lost>>
    BY <1>2, HeadIsWaiting DEF Pick
  <2> HIDE DEF h
  <2>2. \A k \in Jobs : job'[k] = IF k = h THEN "chained" ELSE job[k]
    BY <2>1 DEF TypeOK
  <2>3. ASSUME NEW k \in Jobs, k = h PROVE EndOf(k)'
    BY <2>1, <2>2, <2>3 DEF EndOf, turnOf, attemptOf
  <2> QED  BY <2>1, <2>2, <2>3, EndKept
<1>3. ASSUME NEW j \in Jobs, Promote(j) \/ Recover(j) \/ Discard(j)
      PROVE  AttemptsInv' /\ EndInv'
  <2>1. /\ job[j] \in {"delayed", "stalled"}
        /\ \A k \in Jobs : k # j => job'[k] = job[k]
        /\ job'[j] = "waiting" \/ (job'[j] = "over" /\ turnOf(j) \in lost')
        /\ settled' = settled /\ lost \subseteq lost' /\ arrived' = arrived
    <3>1. CASE Promote(j)  BY <3>1 DEF Promote, TypeOK
    <3>2. CASE Recover(j)  BY <3>2 DEF Recover, TypeOK
    <3>3. CASE Discard(j)  BY <3>3 DEF Discard, TypeOK
    <3> QED  BY <1>3, <3>1, <3>2, <3>3
  <2>2. EndOf(j)'
    BY <2>1 DEF EndOf, turnOf, attemptOf
  <2>3. \A k \in Jobs : job'[k] = "absent" <=> job[k] = "absent"
    BY <2>1
  <2> QED  BY <2>1, <2>2, <2>3, EndKept
<1>4. ASSUME NEW j \in Jobs, Finish(j)
      PROVE  AttemptsInv' /\ EndInv'
  <2>1. /\ job[j] = "leaving" /\ UNCHANGED <<arrived, settled, lost>>
        /\ \A k \in Jobs : job'[k] = IF k = j THEN "over" ELSE job[k]
    BY <1>4 DEF Finish, TypeOK
  <2>2. attemptOf(j) < MaxAttempts => nextOf(j) \in Jobs
    BY JobsAreNumbered DEF nextOf
  <2>3. EndOf(j)'
    BY <2>1, <2>2 DEF EndInv, EndOf, turnOf, attemptOf, nextOf
  <2> QED  BY <2>1, <2>3, EndKept
<1>5. ASSUME NEW c \in Chats, Run(c)
      PROVE  AttemptsInv' /\ EndInv'
  BY <1>5, StepKeepsEnd DEF Run, Start, Mark, Act, Return, Throw, Running
<1>6. ASSUME NEW c \in Chats, ReEnqueue(c)
      PROVE  AttemptsInv' /\ EndInv'
  <2> DEFINE h == Head(chain[c])
             next == nextOf(h)
             t == turnOf(h)
  <2>1. /\ h \in Jobs /\ job[h] = "retrying"
        /\ \/ job[next] # "absent" /\ job' = [job EXCEPT ![h] = "leaving"]
           \/ job[next] = "absent" /\ job' = [[job EXCEPT ![h] = "leaving"] EXCEPT ![next] = "delayed"]
        /\ UNCHANGED <<arrived, settled, lost>>
    BY <1>6, HeadIsJob DEF ReEnqueue, TypeOK, nextOf
  <2>2. /\ attemptOf(h) < MaxAttempts /\ next \in Jobs /\ next # h
        /\ turnOf(next) = t /\ attemptOf(next) = attemptOf(h) + 1
        /\ t \in Turns /\ attemptOf(h) \in 1 .. MaxAttempts /\ h = <<t, attemptOf(h)>>
    <3>1. attemptOf(h) < MaxAttempts
      BY <2>1 DEF EndInv, EndOf
    <3> QED  BY <2>1, <3>1, JobsAreNumbered DEF nextOf, turnOf, attemptOf
  <2>3. CASE job[next] # "absent"
    <3>1. \A k \in Jobs : job'[k] = IF k = h THEN "leaving" ELSE job[k]
      BY <2>1, <2>3 DEF TypeOK
    <3>2. ASSUME NEW k \in Jobs, k = h PROVE EndOf(k)'
      BY <2>1, <2>2, <2>3, <3>1, <3>2 DEF EndOf, nextOf, turnOf, attemptOf
    <3> QED  BY <2>1, <3>1, <3>2, EndKept
  <2>4. CASE job[next] = "absent"
    <3>1. \A k \in Jobs : job'[k] = IF k = next THEN "delayed" ELSE IF k = h THEN "leaving" ELSE job[k]
      BY <2>1, <2>2, <2>4 DEF TypeOK
    <3>2. ASSUME NEW k \in Jobs PROVE EndOf(k)'
      <4>1. attemptOf(k) < MaxAttempts => nextOf(k) \in Jobs
        BY JobsAreNumbered DEF nextOf
      <4>2. job'[nextOf(h)] = "delayed"
        BY <2>2, <3>1
      <4>3. \A i \in Jobs : job[i] # "absent" => job'[i] # "absent"
        BY <3>1
      <4> QED  BY <2>1, <2>2, <3>1, <4>1, <4>2, <4>3 DEF EndInv, EndOf, turnOf, attemptOf, nextOf
    <3>3. ASSUME NEW u \in Turns, u # t PROVE Attempted(u)'
      <4>1. \A n \in 1 .. MaxAttempts : job'[<<u, n>>] = job[<<u, n>>]
        BY <2>2, <3>1, <3>3 DEF Jobs, turnOf
      <4> QED  BY <2>1, <4>1 DEF AttemptsInv, Attempted
    <3>4. ASSUME NEW u \in Turns, u = t PROVE Attempted(u)'
      <4>1. t <= arrived /\ \E m \in 1 .. MaxAttempts : \A n \in 1 .. MaxAttempts :
              job[<<t, n>>] # "absent" <=> n <= m
        BY <2>1, <2>2 DEF AttemptsInv, Attempted
      <4>2. PICK m \in 1 .. MaxAttempts : \A n \in 1 .. MaxAttempts :
              job[<<t, n>>] # "absent" <=> n <= m
        BY <4>1
      <4>3. next = <<t, attemptOf(h) + 1>> /\ attemptOf(h) + 1 \in 1 .. MaxAttempts
        BY <2>2, ConstantsAssumption DEF nextOf
      <4>4. m = attemptOf(h)
        BY <2>1, <2>2, <2>4, <4>2, <4>3
      <4>5. \A n \in 1 .. MaxAttempts : job'[<<t, n>>] # "absent" <=> n <= m + 1
        <5> SUFFICES ASSUME NEW n \in 1 .. MaxAttempts
                     PROVE  job'[<<t, n>>] # "absent" <=> n <= m + 1
          OBVIOUS
        <5>1. <<t, n>> \in Jobs /\ (<<t, n>> = next <=> n = m + 1)
          BY <2>2, <4>3, <4>4 DEF Jobs
        <5>2. CASE n = m + 1
          BY <3>1, <5>1, <5>2
        <5>3. CASE n # m + 1
          <6>1. job'[<<t, n>>] # "absent" <=> job[<<t, n>>] # "absent"
            BY <2>1, <3>1, <5>1, <5>3
          <6> QED  BY <4>2, <5>3, <6>1
        <5> QED  BY <5>2, <5>3
      <4>6. m + 1 \in 1 .. MaxAttempts
        BY <4>3, <4>4
      <4> QED  BY <2>1, <3>4, <4>1, <4>5, <4>6 DEF Attempted
    <3> QED  BY <3>2, <3>3, <3>4 DEF AttemptsInv, EndInv
  <2> QED  BY <2>3, <2>4
<1>7. ASSUME NEW c \in Chats, Policy(c)
      PROVE  AttemptsInv' /\ EndInv'
  <2>1. CASE Settle(c) \/ GiveUp(c)
    BY <2>1, StepKeepsEnd DEF Settle, GiveUp, PublishSettled
  <2>2. CASE Clear(c)
    <3>1. headTurn(c) \in settled \cup lost
      BY <2>2, StepFrame DEF Clear, Leave, EndInv, EndOf, headTurn
    <3> QED  BY <2>2, <3>1, StepKeepsEnd DEF Clear, Leave
  <2>3. CASE CheckMarker(c)
    BY <2>3, StepKeepsEnd DEF CheckMarker, Retriable
  <2>4. CASE ReEnqueue(c)
    BY <2>4, <1>6
  <2> QED  BY <1>7, <2>1, <2>2, <2>3, <2>4 DEF Policy
<1>8. ASSUME NEW c \in Chats, Broken(c)
      PROVE  AttemptsInv' /\ EndInv'
  <2>1. CASE MarkFails(c) \/ SettleFails(c)
    BY <2>1, StepKeepsEnd DEF MarkFails, SettleFails
  <2>2. CASE ClearFails(c)
    <3>1. headTurn(c) \in settled \cup lost
      BY <2>2, StepFrame DEF ClearFails, Leave, EndInv, EndOf, headTurn
    <3> QED  BY <2>2, <3>1, StepKeepsEnd DEF ClearFails, Leave
  <2>3. CASE CheckMarkerFails(c)
    BY <2>3, StepKeepsEnd DEF CheckMarkerFails, Retriable
  <2>4. CASE ReEnqueueFails(c) \/ GiveUpFails(c)
    BY <2>4, StepKeepsEnd DEF ReEnqueueFails, GiveUpFails, Leave
  <2> QED  BY <1>8, <2>1, <2>2, <2>3, <2>4 DEF Broken
<1>9. CASE Crash
  <2>1. /\ UNCHANGED <<arrived, settled, lost>>
        /\ \A k \in Jobs : job'[k] = IF job[k] \in Active THEN "stalled" ELSE job[k]
    BY <1>9 DEF Crash
  <2>2. \A k \in Jobs : job'[k] # job[k] => EndOf(k)'
    BY <2>1 DEF EndOf, turnOf, attemptOf
  <2>3. \A k \in Jobs : job'[k] = "absent" <=> job[k] = "absent"
    BY <2>1, StateSets DEF Active
  <2> QED  BY <2>1, <2>2, <2>3, EndKept
<1>10. CASE UNCHANGED vars
  BY <1>10, EndKept DEF vars
<1> QED
  BY <1>1, <1>2, <1>3, <1>4, <1>5, <1>7, <1>8, <1>9, <1>10 DEF Next, Queue

\* The policy never drops a turn silently: whatever call fails and however often
\* the core crashes, a turn with no job left was settled, or a failed call or a
\* job stalled too often lost it.
THEOREM SettledOrLostHolds == Spec => []SettledOrLost
<1>1. TypeOK /\ AttemptsInv /\ EndInv => SettledOrLost
  <2> SUFFICES ASSUME TypeOK, AttemptsInv, EndInv,
                      NEW t \in Turns, t <= arrived, ~Live(t)
               PROVE  t \in settled \cup lost
    BY DEF SettledOrLost, Arrived
  <2>1. PICK m \in 1 .. MaxAttempts : \A n \in 1 .. MaxAttempts :
          job[<<t, n>>] # "absent" <=> n <= m
    BY DEF AttemptsInv, Attempted, TypeOK, Turns
  <2> DEFINE j == <<t, m>>
  <2>2. j \in Jobs /\ turnOf(j) = t /\ attemptOf(j) = m
    BY DEF Jobs, turnOf, attemptOf
  <2>3. job[j] # "absent"
    BY <2>1
  <2>4. ~(m < MaxAttempts /\ job[<<t, m + 1>>] # "absent")
    <3>1. ASSUME m < MaxAttempts PROVE m + 1 \in 1 .. MaxAttempts /\ ~(m + 1 <= m)
      BY <3>1, ConstantsAssumption
    <3> QED  BY <2>1, <3>1
  <2>5. job[j] \notin LiveStates
    BY <2>2 DEF Live
  <2>6. job[j] \in {"settled", "leaving", "over"}
    BY <2>2, <2>3, <2>5 DEF TypeOK, JobStates, LiveStates
  <2> HIDE DEF j
  <2> QED  BY <2>2, <2>4, <2>6 DEF EndInv, EndOf, nextOf
<1> QED
  BY <1>1, InitTypes, NextTypes, InitWait, NextWait, InitEnd, NextEnd, PTL DEF Spec
(***************************************************************************)
(* The live-processing hold.  Without a crash a turn is settled by its     *)
(* only busy job, so that a settled turn has nothing left to run; a        *)
(* message that no other turn answers is therefore held until its own turn *)
(* is through.                                                             *)
(***************************************************************************)
DoneInv == \A t \in settled : t <= arrived /\ ~Live(t)

FreedInv == \A m \in processed : \E t \in settled : msgOf[t] = m

\* A message opens one turn: the chat is no group with several assistants.
OneTurnPerMessage == \A t, u \in Turns : msgOf[t] = msgOf[u] => t = u

\* What the live states are, apart from those of an aborted job.
LEMMA LiveSets ==
  /\ LiveStates = (Busy \ {"settled"}) \cup {"stalled"}
  /\ \A t : ~Live(t) <=> \A j \in Jobs : turnOf(j) = t => job[j] \notin LiveStates
  BY DEF LiveStates, Live, Pending, Active, InHandler, Running, Busy, BeforeActing, AfterActing

\* A step that settles nothing keeps a turn done if it makes no job of a done
\* turn live.
LEMMA DoneKept ==
  ASSUME TypeOK, DoneInv, UNCHANGED settled, arrived <= arrived', arrived' \in Nat,
         \A j \in Jobs : turnOf(j) \in settled /\ job'[j] # job[j] => job'[j] \notin LiveStates
  PROVE  DoneInv'
<1> SUFFICES ASSUME NEW t \in settled
             PROVE  t <= arrived' /\ \A j \in Jobs : turnOf(j) = t => job'[j] \notin LiveStates
  BY DEF DoneInv, Live, turnOf
<1>1. t <= arrived /\ t \in Turns /\ \A j \in Jobs : turnOf(j) = t => job[j] \notin LiveStates
  BY LiveSets DEF DoneInv, TypeOK
<1>2. t <= arrived'
  BY <1>1 DEF TypeOK, Turns
<1> QED  BY <1>1, <1>2

\* The running job settles its turn.
LEMMA SettleKeepsDone ==
  ASSUME TypeOK, ActInv, DoneInv, NEW c \in Chats, NEW s \in Busy, Step(c, s, "settled"),
         settled' = settled \cup {headTurn(c)}, UNCHANGED arrived
  PROVE  DoneInv'
<1> DEFINE h == Head(chain[c])
<1>1. h \in Jobs /\ job[h] = s /\ turnOf(h) = headTurn(c) /\ headTurn(c) \in Turns
      /\ \A j \in Jobs : job'[j] = IF j = h THEN "settled" ELSE job[j]
  BY StepFrame, JobsAreNumbered DEF headTurn
<1> HIDE DEF h
<1>2. headTurn(c) <= arrived
  BY <1>1, StateSets DEF ActInv, FreshInv, TypeOK, Turns
<1>3. \A j \in Jobs : turnOf(j) = headTurn(c) /\ j # h => job[j] \notin LiveStates
  BY <1>1, LiveSets DEF ActInv, OneBusyJob, MarkInv
<1>4. "settled" \notin LiveStates
  BY LiveSets
<1> SUFFICES ASSUME NEW t \in settled'
             PROVE  t <= arrived' /\ \A j \in Jobs : turnOf(j) = t => job'[j] \notin LiveStates
  BY DEF DoneInv, Live, turnOf
<1>5. CASE t = headTurn(c)
  BY <1>1, <1>2, <1>3, <1>4, <1>5
<1>6. CASE t \in settled
  BY <1>1, <1>4, <1>6, LiveSets DEF DoneInv
<1> QED  BY <1>5, <1>6

LEMMA InitDone == Init => DoneInv /\ FreedInv
  BY DEF Init, DoneInv, FreedInv

LEMMA NextDone == Crashless /\ TypeOK /\ ActInv /\ DoneInv /\ [Next]_vars => DoneInv'
<1> SUFFICES ASSUME Crashless, TypeOK, ActInv, DoneInv, [Next]_vars PROVE DoneInv'
  OBVIOUS
<1>d. \A j \in Jobs : turnOf(j) \in settled => job[j] \notin LiveStates /\ turnOf(j) <= arrived
  BY LiveSets DEF DoneInv
<1>n. "leaving" \notin LiveStates /\ "over" \notin LiveStates /\ "settled" \notin LiveStates
  BY LiveSets, StateSets
<1>l. \A x \in Busy : x # "settled" => x \in LiveStates
  BY LiveSets
<1>a. arrived \in Nat
  BY DEF TypeOK
<1>1. CASE Arrive
  <2> DEFINE new == <<arrived + 1, 1>>
  <2>1. /\ new \in Jobs /\ turnOf(new) = arrived + 1
        /\ \A j \in Jobs : job'[j] = IF j = new THEN "waiting" ELSE job[j]
        /\ arrived' = arrived + 1 /\ UNCHANGED settled
    BY <1>1, ConstantsAssumption DEF Arrive, Jobs, Turns, TypeOK, turnOf
  <2> HIDE DEF new
  <2>2. turnOf(new) \notin settled
    BY <2>1, <1>d, <1>a
  <2> QED  BY <2>1, <2>2, <1>a, DoneKept
<1>2. CASE Pick
  <2> DEFINE h == Head(wait)
  <2>1. /\ h \in Jobs /\ job[h] = "waiting" /\ UNCHANGED <<arrived, settled>>
        /\ \A j \in Jobs : j # h => job'[j] = job[j]
    BY <1>2, HeadIsWaiting DEF Pick, TypeOK, ActInv
  <2> HIDE DEF h
  <2>2. turnOf(h) \notin settled
    BY <2>1, <1>d, <1>l DEF Busy, BeforeActing
  <2> QED  BY <2>1, <2>2, <1>a, DoneKept
<1>3. ASSUME NEW j \in Jobs, Promote(j) \/ Finish(j) \/ Recover(j) \/ Discard(j)
      PROVE  DoneInv'
  <2>1. CASE Promote(j)
    <3>1. turnOf(j) \notin settled
      BY <2>1, <1>d, <1>l DEF Promote, Busy, BeforeActing
    <3>2. (\A k \in Jobs : k # j => job'[k] = job[k]) /\ UNCHANGED <<arrived, settled>>
      BY <2>1 DEF Promote, TypeOK
    <3> QED  BY <3>1, <3>2, <1>a, DoneKept
  <2>2. CASE Finish(j)
    <3>1. (\A k \in Jobs : job'[k] # job[k] => job'[k] = "over") /\ UNCHANGED <<arrived, settled>>
      BY <2>2 DEF Finish, TypeOK
    <3> QED  BY <3>1, <1>n, <1>a, DoneKept
  <2>3. ~Recover(j) /\ ~Discard(j)
    BY DEF Recover, Discard, ActInv, MarkInv
  <2> QED  BY <1>3, <2>1, <2>2, <2>3
\* The job that runs is no job of a settled turn, unless it has settled it.
<1>4. ASSUME NEW c \in Chats, NEW s \in InHandler, NEW s2, Step(c, s, s2),
             s # "settled" \/ s2 = "leaving", UNCHANGED <<arrived, settled>>
      PROVE  DoneInv'
  <2>1. /\ Head(chain[c]) \in Jobs /\ job[Head(chain[c])] = s
        /\ \A j \in Jobs : job'[j] = IF j = Head(chain[c]) THEN s2 ELSE job[j]
    BY <1>4, StepFrame
  <2>2. s # "settled" => turnOf(Head(chain[c])) \notin settled
    BY <2>1, <1>d, <1>l, StateSets
  <2> QED  BY <1>4, <2>1, <2>2, <1>a, <1>n, DoneKept
<1>5. ASSUME NEW c \in Chats, Start(c)
      PROVE  DoneInv'
  <2>1. /\ Head(chain[c]) \in Jobs /\ job[Head(chain[c])] = "chained"
        /\ \A j \in Jobs : job'[j] = IF j = Head(chain[c]) THEN "running" ELSE job[j]
        /\ UNCHANGED <<arrived, settled>>
    BY <1>5, StepFrame DEF Start
  <2>2. turnOf(Head(chain[c])) \notin settled
    BY <2>1, <1>d, <1>l DEF Busy, BeforeActing
  <2> QED  BY <2>1, <2>2, <1>a, DoneKept
<1>6. ASSUME NEW c \in Chats, Run(c)
      PROVE  DoneInv'
  <2>1. CASE Mark(c) \/ Act(c) \/ Return(c) \/ Throw(c)
    BY <2>1, <1>4 DEF Mark, Act, Return, Throw, InHandler, Running
  <2> QED  BY <1>5, <1>6, <2>1 DEF Run
<1>7. ASSUME NEW c \in Chats, ReEnqueue(c)
      PROVE  DoneInv'
  <2> DEFINE h == Head(chain[c])
             next == <<turnOf(h), attemptOf(h) + 1>>
  <2>1. /\ h \in Jobs /\ job[h] = "retrying"
        /\ \/ job' = [job EXCEPT ![h] = "leaving"]
           \/ job' = [[job EXCEPT ![h] = "leaving"] EXCEPT ![next] = "delayed"]
        /\ UNCHANGED <<arrived, settled>>
    BY <1>7, HeadIsJob DEF ReEnqueue, TypeOK
  <2>2. turnOf(next) = turnOf(h)
    BY DEF turnOf
  <2> HIDE DEF h, next
  <2>3. turnOf(h) \notin settled
    BY <2>1, <1>d, <1>l DEF Busy, BeforeActing
  <2>4. \A j \in Jobs : job'[j] # job[j] => j = h \/ j = next
    BY <2>1 DEF TypeOK
  <2> QED  BY <2>1, <2>2, <2>3, <2>4, <1>a, DoneKept
<1>8. ASSUME NEW c \in Chats, Policy(c)
      PROVE  DoneInv'
  <2>1. CASE Settle(c) \/ GiveUp(c)
    BY <2>1, SettleKeepsDone DEF Settle, GiveUp, PublishSettled, Busy, AfterActing
  <2>2. CASE Clear(c) \/ CheckMarker(c)
    BY <2>2, <1>4 DEF Clear, CheckMarker, Leave, InHandler
  <2> QED  BY <1>7, <1>8, <2>1, <2>2 DEF Policy
<1>9. ASSUME NEW c \in Chats, Broken(c)
      PROVE  DoneInv'
  BY <1>9, <1>4 DEF Broken, MarkFails, SettleFails, ClearFails, CheckMarkerFails,
                    ReEnqueueFails, GiveUpFails, Leave, InHandler, Running
<1>10. CASE UNCHANGED vars
  BY <1>10, <1>a, DoneKept DEF vars
<1>11. ~Crash
  BY DEF Crash, Fault, Crashless
<1> QED
  BY <1>1, <1>2, <1>3, <1>6, <1>8, <1>9, <1>10, <1>11 DEF Next, Queue

\* A message is released only together with a turn of it that is settled.
LEMMA NextFreed == FreedInv /\ [Next]_vars => FreedInv'
<1> SUFFICES ASSUME FreedInv, [Next]_vars PROVE FreedInv'
  OBVIOUS
<1>1. \/ UNCHANGED <<settled, processed>>
      \/ \E t : settled' = settled \cup {t} /\ processed' = processed \cup {msgOf[t]}
  <2>1. CASE Queue \/ Crash \/ UNCHANGED vars
    BY <2>1 DEF Queue, Arrive, Pick, Promote, Finish, Recover, Discard, Crash, vars
  <2>2. ASSUME NEW c \in Chats, Run(c) \/ Broken(c) PROVE UNCHANGED <<settled, processed>>
    BY <2>2 DEF Run, Start, Mark, Act, Return, Throw, Broken, MarkFails, SettleFails,
                ClearFails, CheckMarkerFails, ReEnqueueFails, GiveUpFails
  <2>3. ASSUME NEW c \in Chats, Policy(c)
        PROVE  \/ UNCHANGED <<settled, processed>>
               \/ \E t : settled' = settled \cup {t} /\ processed' = processed \cup {msgOf[t]}
    BY <2>3 DEF Policy, Settle, Clear, CheckMarker, ReEnqueue, GiveUp, PublishSettled
  <2> QED  BY <2>1, <2>2, <2>3 DEF Next
<1> QED  BY <1>1 DEF FreedInv

\* Until its turn is through a message keeps its hold: no failed call and no
\* retry lets the vision backfill take work in flight, as long as the core
\* does not crash and no other turn answers the message.
THEOREM HeldWhileLiveHolds == Crashless /\ OneTurnPerMessage => (Spec => []HeldWhileLive)
<1> SUFFICES ASSUME Crashless, OneTurnPerMessage PROVE Spec => []HeldWhileLive
  OBVIOUS
<1>1. TypeOK /\ DoneInv /\ FreedInv => HeldWhileLive
  BY ZenonT(30) DEF TypeOK, DoneInv, FreedInv, HeldWhileLive, OneTurnPerMessage
<1>2. TypeOK /\ ActInv /\ [Next]_vars => ActInv'
  BY NextAct
<1>3. TypeOK /\ ActInv /\ DoneInv /\ [Next]_vars => DoneInv'
  BY NextDone
<1> QED
  BY <1>1, <1>2, <1>3, InitTypes, NextTypes, InitAct, InitDone, NextFreed, PTL DEF Spec
(***************************************************************************)
(* Order of a chat's turns.  First attempts are in turn order in the wait  *)
(* list and in each chain; one that left the wait list leaves no earlier   *)
(* one behind there.  A retried attempt joins later and is not compared.   *)
(***************************************************************************)
IsFirst(j) == attemptOf(j) = 1

Ordered(s) ==
  \A i, k \in 1 .. Len(s) :
    i < k /\ IsFirst(s[i]) /\ IsFirst(s[k]) => turnOf(s[i]) < turnOf(s[k])

\* The jobs that wait and the jobs that are chained are where they should be.
PlacedInv ==
  /\ \A j \in Jobs : job[j] = "waiting" => \E i \in 1 .. Len(wait) : wait[i] = j
  /\ \A j \in Jobs : job[j] = "chained" =>
       \E i \in 1 .. Len(chain[chatOfJob(j)]) : chain[chatOfJob(j)][i] = j
  /\ \A c \in Chats : \A i \in 1 .. Len(chain[c]) : job[chain[c][i]] \notin {"absent", "waiting", "delayed"}
  /\ \A j \in Jobs : job[j] = "delayed" => ~IsFirst(j)

\* No earlier first attempt is still waiting.
PassedInv ==
  \A j, k \in Jobs :
    /\ IsFirst(j) /\ IsFirst(k) /\ turnOf(j) < turnOf(k)
    /\ job[k] \notin {"absent", "waiting"}
    => job[j] # "waiting"

QueueOrder == Ordered(wait) /\ PassedInv /\ \A c \in Chats : Ordered(chain[c])

\* A first attempt appended behind later turns of none keeps the order.
LEMMA AppendOrdered ==
  ASSUME NEW s \in Seq(Jobs), NEW j \in Jobs, Ordered(s),
         IsFirst(j) => \A i \in 1 .. Len(s) : IsFirst(s[i]) => turnOf(s[i]) < turnOf(j)
  PROVE  Ordered(Append(s, j))
<1>1. Len(Append(s, j)) = Len(s) + 1 /\ Append(s, j)[Len(s) + 1] = j
      /\ \A i \in 1 .. Len(s) : Append(s, j)[i] = s[i]
  OBVIOUS
<1> DEFINE r == Append(s, j)
<1> HIDE DEF r
<1> SUFFICES ASSUME NEW i \in 1 .. Len(r), NEW k \in 1 .. Len(r),
                    i < k, IsFirst(r[i]), IsFirst(r[k])
             PROVE  turnOf(r[i]) < turnOf(r[k])
  BY DEF Ordered, r
<1>2. Len(r) = Len(s) + 1 /\ r[Len(s) + 1] = j /\ \A n \in 1 .. Len(s) : r[n] = s[n]
  BY <1>1 DEF r
<1>3. i \in 1 .. Len(s) /\ (k \in 1 .. Len(s) \/ k = Len(s) + 1)
  BY <1>2
<1> QED  BY <1>2, <1>3 DEF Ordered

LEMMA TailOrdered ==
  ASSUME NEW s \in Seq(Jobs), s # << >>, Ordered(s)
  PROVE  Ordered(Tail(s))
<1> SUFFICES ASSUME NEW i \in 1 .. Len(Tail(s)), NEW k \in 1 .. Len(Tail(s)),
                    i < k, IsFirst(Tail(s)[i]), IsFirst(Tail(s)[k])
             PROVE  turnOf(Tail(s)[i]) < turnOf(Tail(s)[k])
  BY DEF Ordered
<1>1. i + 1 \in 1 .. Len(s) /\ k + 1 \in 1 .. Len(s) /\ i + 1 < k + 1
      /\ Tail(s)[i] = s[i + 1] /\ Tail(s)[k] = s[k + 1]
  BY TailElements
<1> QED  BY <1>1 DEF Ordered

\* A step that moves no job into or out of the wait list, and none into a
\* chain, keeps the order; it may take the running job off its chain.
LEMMA OrderKept ==
  ASSUME TypeOK, PlacedInv, QueueOrder, NEW c \in Chats, chain[c] # << >>, UNCHANGED wait,
         \A j \in Jobs :
           /\ job'[j] = "waiting" <=> job[j] = "waiting"
           /\ job'[j] = "absent" => job[j] = "absent"
           /\ job'[j] = job[j] \/ job[j] \notin {"absent", "delayed"} \/ ~IsFirst(j)
           /\ job'[j] = "delayed" => job[j] = "delayed" \/ (job[j] = "absent" /\ ~IsFirst(j))
           /\ job'[j] = "chained" => job[j] = "chained" /\ j # Head(chain[c]),
         UNCHANGED chain \/ chain' = [chain EXCEPT ![c] = Tail(@)]
  PROVE  PlacedInv' /\ QueueOrder'
<1> DEFINE h == Head(chain[c])
<1>2. chain[c] \in Seq(Jobs) /\ h = chain[c][1]
  BY DEF TypeOK
<1>1. chain[c] # << >> /\ \A j \in Jobs : job'[j] = "chained" => job[j] = "chained" /\ j # h
  OBVIOUS
<1> HIDE DEF h
<1>4. PassedInv' /\ Ordered(wait)'
  BY DEF QueueOrder, PassedInv, Ordered, IsFirst, turnOf, attemptOf
\* What is left of a chain is part of what it was.
<1>5. ASSUME NEW d \in Chats
      PROVE  /\ Ordered(chain'[d])
             /\ \A i \in 1 .. Len(chain'[d]) : \E k \in 1 .. Len(chain[d]) : chain'[d][i] = chain[d][k]
             /\ \A k \in 1 .. Len(chain[d]) :
                  chain[d][k] # h \/ UNCHANGED chain => \E i \in 1 .. Len(chain'[d]) : chain'[d][i] = chain[d][k]
  <2>1. CASE chain'[d] = chain[d]
    BY <2>1 DEF QueueOrder
  <2>2. CASE d = c /\ chain'[c] = Tail(chain[c]) /\ ~ UNCHANGED chain
    <3>1. Ordered(chain'[d])
      BY <1>1, <1>2, <2>2, TailOrdered DEF QueueOrder
    <3>2. \A i \in 1 .. Len(Tail(chain[c])) : i + 1 \in 1 .. Len(chain[c]) /\ Tail(chain[c])[i] = chain[c][i + 1]
      BY <1>1, <1>2, TailElements
    <3>3. \A k \in 1 .. Len(chain[c]) : k # 1 =>
            k - 1 \in 1 .. Len(Tail(chain[c])) /\ Tail(chain[c])[k - 1] = chain[c][k]
      BY <1>1, <1>2
    <3> QED  BY SMTT(30), <1>2, <2>2, <3>1, <3>2, <3>3
  <2>3. \/ chain'[d] = chain[d]
        \/ d = c /\ chain'[c] = Tail(chain[c]) /\ ~ UNCHANGED chain
    BY DEF TypeOK
  <2> QED  BY <2>1, <2>2, <2>3
<1>6. PlacedInv'
  <2>1. \A j \in Jobs : job'[j] = "waiting" => \E i \in 1 .. Len(wait') : wait'[i] = j
    BY DEF PlacedInv
  <2>2. ASSUME NEW j \in Jobs, job'[j] = "chained"
        PROVE  \E i \in 1 .. Len(chain'[chatOfJob(j)]) : chain'[chatOfJob(j)][i] = j
    <3>1. chatOfJob(j) \in Chats /\ j # h
          /\ \E k \in 1 .. Len(chain[chatOfJob(j)]) : chain[chatOfJob(j)][k] = j
      BY <1>1, <2>2, JobsAreNumbered DEF PlacedInv
    <3> DEFINE d == chatOfJob(j)
    <3> HIDE DEF d
    <3>2. PICK k \in 1 .. Len(chain[d]) : chain[d][k] = j
      BY <3>1 DEF d
    <3>3. \E i \in 1 .. Len(chain'[d]) : chain'[d][i] = chain[d][k]
      BY <1>5, <3>1, <3>2 DEF d
    <3> QED  BY <3>2, <3>3 DEF d
  <2>3. ASSUME NEW d \in Chats, NEW i \in 1 .. Len(chain'[d])
        PROVE  job'[chain'[d][i]] \notin {"absent", "waiting", "delayed"}
    <3>1. PICK k \in 1 .. Len(chain[d]) : chain'[d][i] = chain[d][k]
      BY <1>5
    <3>2. chain[d][k] \in Jobs /\ job[chain[d][k]] \notin {"absent", "waiting", "delayed"}
      BY DEF PlacedInv, TypeOK
    <3> QED  BY <3>1, <3>2
  <2>4. \A j \in Jobs : job'[j] = "delayed" => ~IsFirst(j)
    BY DEF PlacedInv
  <2> QED  BY <2>1, <2>2, <2>3, <2>4 DEF PlacedInv, IsFirst, chatOfJob, turnOf, attemptOf
<1> QED  BY <1>4, <1>5, <1>6 DEF QueueOrder, Ordered, IsFirst, turnOf, attemptOf

\* The running job takes a step inside the handler or leaves its chain.
LEMMA StepKeepsOrder ==
  ASSUME TypeOK, PlacedInv, QueueOrder, NEW c \in Chats, NEW s \in InHandler \cup {"chained"},
         NEW s2 \in InHandler \cup {"leaving"}, Step(c, s, s2), UNCHANGED wait,
         UNCHANGED chain \/ chain' = [chain EXCEPT ![c] = Tail(@)]
  PROVE  PlacedInv' /\ QueueOrder'
<1> DEFINE h == Head(chain[c])
<1>1. /\ chain[c] # << >> /\ h \in Jobs /\ job[h] = s
      /\ \A j \in Jobs : job'[j] = IF j = h THEN s2 ELSE job[j]
  BY StepFrame
<1>2. /\ s \notin {"absent", "waiting", "delayed"}
      /\ s2 \notin {"absent", "waiting", "delayed", "chained"}
  BY DEF InHandler, Running
<1> QED  BY <1>1, <1>2, OrderKept

LEMMA InitOrder == Init => PlacedInv /\ QueueOrder
<1> SUFFICES ASSUME Init PROVE PlacedInv /\ QueueOrder
  OBVIOUS
<1>1. wait = << >> /\ (\A c \in Chats : chain[c] = << >>) /\ \A j \in Jobs : job[j] = "absent"
  BY DEF Init
<1> QED  BY <1>1 DEF PlacedInv, QueueOrder, PassedInv, Ordered

LEMMA NextOrder ==
  Crashless /\ TypeOK /\ ActInv /\ PlacedInv /\ QueueOrder /\ [Next]_vars => PlacedInv' /\ QueueOrder'
<1> SUFFICES ASSUME Crashless, TypeOK, ActInv, PlacedInv, QueueOrder, [Next]_vars
             PROVE  PlacedInv' /\ QueueOrder'
  OBVIOUS
<1>w. wait \in Seq(Jobs) /\ \A c \in Chats : chain[c] \in Seq(Jobs)
  BY DEF TypeOK
\* A job joins the wait list: the newest turn's first attempt, or a later attempt.
<1>1. ASSUME NEW j \in Jobs, job[j] \in {"absent", "delayed"},
             job' = [job EXCEPT ![j] = "waiting"], wait' = Append(wait, j), UNCHANGED chain,
             IsFirst(j) => \A k \in Jobs : k # j /\ IsFirst(k) /\ job[k] # "absent" => turnOf(k) < turnOf(j)
      PROVE  PlacedInv' /\ QueueOrder'
  <2>1. \A k \in Jobs : job'[k] = IF k = j THEN "waiting" ELSE job[k]
    BY <1>1 DEF TypeOK
  <2>2. Len(wait') = Len(wait) + 1 /\ wait'[Len(wait) + 1] = j
        /\ \A i \in 1 .. Len(wait) : wait'[i] = wait[i]
    BY <1>1, <1>w
  <2>3. \A i \in 1 .. Len(wait) : wait[i] \in Jobs /\ job[wait[i]] = "waiting" /\ wait[i] # j
    BY <1>1, <1>w DEF ActInv, WaitInv
  <2>4. Ordered(wait')
    <3>1. IsFirst(j) => \A i \in 1 .. Len(wait) : IsFirst(wait[i]) => turnOf(wait[i]) < turnOf(j)
      BY <1>1, <2>3
    <3>2. Ordered(Append(wait, j))
      BY <1>w, <3>1, AppendOrdered DEF QueueOrder
    <3> QED  BY <1>1, <3>2
  <2>5. \A c \in Chats : \A i \in 1 .. Len(chain[c]) : chain[c][i] \in Jobs
    BY <1>w
  <2>6. \A k \in Jobs : job'[k] = "waiting" => \E i \in 1 .. Len(wait') : wait'[i] = k
    <3>1. Len(wait) + 1 \in 1 .. Len(wait') /\ \A i \in 1 .. Len(wait) : i \in 1 .. Len(wait')
      BY <1>w, <2>2
    <3> QED  BY <2>1, <2>2, <3>1 DEF PlacedInv
  <2>7. PlacedInv'
    <3>1. \A k \in Jobs : job'[k] = "chained" =>
            \E i \in 1 .. Len(chain'[chatOfJob(k)]) : chain'[chatOfJob(k)][i] = k
      BY <1>1, <2>1 DEF PlacedInv
    <3>2. \A c \in Chats : \A i \in 1 .. Len(chain'[c]) : job'[chain'[c][i]] \notin {"absent", "waiting", "delayed"}
      <4> SUFFICES ASSUME NEW c \in Chats, NEW i \in 1 .. Len(chain[c])
                   PROVE  job'[chain[c][i]] \notin {"absent", "waiting", "delayed"}
        BY <1>1
      <4>1. chain[c][i] \in Jobs /\ job[chain[c][i]] \notin {"absent", "waiting", "delayed"}
        BY <2>5 DEF PlacedInv
      <4>2. CASE chain[c][i] = j
        BY <1>1, <4>1, <4>2
      <4> QED  BY <2>1, <4>1, <4>2
    <3>3. \A k \in Jobs : job'[k] = "delayed" => ~IsFirst(k)
      BY <2>1 DEF PlacedInv
    <3> QED  BY <2>6, <3>1, <3>2, <3>3 DEF PlacedInv, chatOfJob, turnOf, IsFirst, attemptOf
  <2>8. PassedInv'
    <3> SUFFICES ASSUME NEW i \in Jobs, NEW k \in Jobs, IsFirst(i), IsFirst(k), turnOf(i) < turnOf(k),
                        job'[k] \notin {"absent", "waiting"}, job'[i] = "waiting"
                 PROVE  FALSE
      BY DEF PassedInv, IsFirst, turnOf, attemptOf
    <3>1. k # j /\ job[k] \notin {"absent", "waiting"}
      BY <2>1
    <3>2. CASE i = j
      <4>1. turnOf(k) < turnOf(j) /\ turnOf(j) \in Nat /\ turnOf(k) \in Nat
        BY <1>1, <3>1, <3>2, JobsAreNumbered DEF Turns
      <4> QED  BY <3>2, <4>1
    <3>3. CASE i # j
      BY <2>1, <3>1, <3>3 DEF QueueOrder, PassedInv
    <3> QED  BY <3>2, <3>3
  <2> QED  BY <1>1, <2>4, <2>7, <2>8 DEF QueueOrder, Ordered, IsFirst, turnOf, attemptOf
<1>2. CASE Arrive
  <2> DEFINE new == <<arrived + 1, 1>>
  <2>1. /\ new \in Jobs /\ turnOf(new) = arrived + 1 /\ attemptOf(new) = 1
        /\ job' = [job EXCEPT ![new] = "waiting"] /\ wait' = Append(wait, new) /\ UNCHANGED chain
    BY <1>2, ConstantsAssumption DEF Arrive, Jobs, Turns, TypeOK, turnOf, attemptOf
  <2>2. job[new] = "absent"
    BY <2>1 DEF ActInv, FreshInv, TypeOK
  <2>3. \A k \in Jobs : k # new /\ job[k] # "absent" => turnOf(k) < turnOf(new)
    BY <2>1, JobsAreNumbered DEF ActInv, FreshInv, TypeOK, Turns
  <2> HIDE DEF new
  <2> QED  BY <2>1, <2>2, <2>3, <1>1
<1>3. ASSUME NEW j \in Jobs, Promote(j)
      PROVE  PlacedInv' /\ QueueOrder'
  BY <1>3, <1>1 DEF Promote, PlacedInv
<1>4. CASE Pick
  <2> DEFINE h == Head(wait)
             e == chatOfJob(h)
  <2>1. /\ wait # << >> /\ wait' = Tail(wait) /\ h \in Jobs /\ job[h] = "waiting" /\ e \in Chats
        /\ job' = [job EXCEPT ![h] = "chained"]
        /\ chain' = [chain EXCEPT ![e] = Append(@, h)]
    BY <1>4, HeadIsWaiting, JobsAreNumbered DEF Pick, ActInv
  <2>2. h = wait[1] /\ 1 \in 1 .. Len(wait)
    BY <1>w, <2>1
  <2>c. chatOfJob(h) = e
    OBVIOUS
  <2> HIDE DEF h, e
  <2>3. /\ \A k \in Jobs : job'[k] = IF k = h THEN "chained" ELSE job[k]
        /\ \A d \in Chats : chain'[d] = IF d = e THEN Append(chain[e], h) ELSE chain[d]
    BY <2>1 DEF TypeOK
  <2>4. Ordered(wait')
    BY <1>w, <2>1, TailOrdered DEF QueueOrder
  \* The first attempts of the chain have left the wait list before.
  <2>5. ASSUME IsFirst(h), NEW i \in 1 .. Len(chain[e]), IsFirst(chain[e][i])
        PROVE  turnOf(chain[e][i]) < turnOf(h)
    <3> DEFINE k == chain[e][i]
    <3>1. k \in Jobs /\ job[k] \notin {"absent", "waiting", "delayed"} /\ k # h
      BY <1>w, <2>1 DEF PlacedInv
    <3>2. turnOf(k) # turnOf(h)
      BY <2>1, <2>5, <3>1, JobsAreNumbered DEF IsFirst
    <3>3. ~(turnOf(h) < turnOf(k))
      BY <2>1, <2>5, <3>1 DEF QueueOrder, PassedInv
    <3> QED  BY <2>1, <3>1, <3>2, <3>3, JobsAreNumbered DEF Turns
  <2>6. \A d \in Chats : Ordered(chain'[d])
    <3>1. Ordered(Append(chain[e], h))
      BY <1>w, <2>1, <2>5, AppendOrdered DEF QueueOrder
    <3> QED  BY <2>3, <3>1 DEF QueueOrder
  <2>7. PassedInv'
    <3> SUFFICES ASSUME NEW i \in Jobs, NEW k \in Jobs, IsFirst(i), IsFirst(k), turnOf(i) < turnOf(k),
                        job'[k] \notin {"absent", "waiting"}, job'[i] = "waiting"
                 PROVE  FALSE
      BY DEF PassedInv, IsFirst, turnOf, attemptOf
    <3>1. i # h /\ job[i] = "waiting"
      BY <2>3
    <3>2. CASE k # h
      BY <2>3, <3>1, <3>2 DEF QueueOrder, PassedInv
    <3>3. CASE k = h
      <4>1. PICK n \in 1 .. Len(wait) : wait[n] = i
        BY <3>1 DEF PlacedInv
      <4>2. 1 < n
        BY <2>2, <3>1, <4>1
      <4>3. turnOf(h) < turnOf(i)
        BY <2>2, <3>3, <4>1, <4>2 DEF QueueOrder, Ordered
      <4> QED  BY <3>3, <4>3, JobsAreNumbered DEF Turns
    <3> QED  BY <3>2, <3>3
  <2>8. PlacedInv'
    <3>1. ASSUME NEW k \in Jobs, job'[k] = "waiting"
          PROVE  \E i \in 1 .. Len(wait') : wait'[i] = k
      <4>1. k # h /\ job[k] = "waiting"
        BY <2>3, <3>1
      <4>2. PICK n \in 1 .. Len(wait) : wait[n] = k
        BY <4>1 DEF PlacedInv
      <4>3. n # 1
        BY <2>2, <4>1, <4>2
      <4>4. n - 1 \in 1 .. Len(Tail(wait)) /\ Tail(wait)[n - 1] = wait[n]
        BY <1>w, <2>1, <4>2, <4>3
      <4> QED  BY <2>1, <4>2, <4>4
    <3>2. ASSUME NEW k \in Jobs, job'[k] = "chained"
          PROVE  \E i \in 1 .. Len(chain'[chatOfJob(k)]) : chain'[chatOfJob(k)][i] = k
      <4>1. Append(chain[e], h)[Len(chain[e]) + 1] = h /\ Len(chain[e]) + 1 \in 1 .. Len(Append(chain[e], h))
        BY <1>w, <2>1
      <4>2. CASE k = h
        BY <2>1, <2>3, <2>c, <4>1, <4>2
      <4>3. CASE k # h
        <5>1. chatOfJob(k) \in Chats /\ \E i \in 1 .. Len(chain[chatOfJob(k)]) : chain[chatOfJob(k)][i] = k
          BY <2>3, <3>2, <4>3, JobsAreNumbered DEF PlacedInv
        <5>2. \A i \in 1 .. Len(chain[e]) :
                i \in 1 .. Len(Append(chain[e], h)) /\ Append(chain[e], h)[i] = chain[e][i]
          BY <1>w, <2>1
        <5> QED  BY <2>3, <5>1, <5>2
      <4> QED  BY <4>2, <4>3
    <3>3. ASSUME NEW d \in Chats, NEW i \in 1 .. Len(chain'[d])
          PROVE  job'[chain'[d][i]] \notin {"absent", "waiting", "delayed"}
      <4>1. chain'[d][i] = h \/ \E k \in 1 .. Len(chain[d]) : chain'[d][i] = chain[d][k]
        BY <1>w, <2>1, <2>3, <3>3
      <4>2. \A k \in 1 .. Len(chain[d]) : chain[d][k] \in Jobs /\ job[chain[d][k]] \notin {"absent", "waiting", "delayed"}
        BY <1>w, <3>3 DEF PlacedInv
      <4> QED  BY <2>1, <2>3, <4>1, <4>2
    <3>4. \A k \in Jobs : job'[k] = "delayed" => ~IsFirst(k)
      BY <2>3 DEF PlacedInv
    <3> QED  BY <3>1, <3>2, <3>3, <3>4 DEF PlacedInv, IsFirst, chatOfJob, turnOf, attemptOf
  <2> QED  BY <2>4, <2>6, <2>7, <2>8 DEF QueueOrder, Ordered, IsFirst, turnOf, attemptOf
\* Steps that touch neither the wait list nor a chain, nor any first attempt's place.
<1>5. ASSUME UNCHANGED <<wait, chain>>,
             \A k \in Jobs : job'[k] = job[k] \/ (job[k] = "leaving" /\ job'[k] = "over")
      PROVE  PlacedInv' /\ QueueOrder'
  <2>1. \A c \in Chats : \A i \in 1 .. Len(chain[c]) : chain[c][i] \in Jobs
    BY <1>w
  <2>2. PlacedInv'
    BY <1>5, <2>1, JobsAreNumbered DEF PlacedInv, chatOfJob, turnOf, IsFirst, attemptOf
  <2>3. PassedInv'
    BY <1>5 DEF QueueOrder, PassedInv, IsFirst, turnOf, attemptOf
  <2> QED  BY <1>5, <2>2, <2>3 DEF QueueOrder, Ordered, IsFirst, turnOf, attemptOf
<1>6. ASSUME NEW j \in Jobs, Finish(j) \/ Recover(j) \/ Discard(j)
      PROVE  PlacedInv' /\ QueueOrder'
  <2>1. ~Recover(j) /\ ~Discard(j)
    BY DEF Recover, Discard, ActInv, MarkInv
  <2> QED  BY <1>6, <2>1, <1>5 DEF Finish, TypeOK
<1>7. ASSUME NEW c \in Chats, Run(c)
      PROVE  PlacedInv' /\ QueueOrder'
  BY <1>7, StepKeepsOrder DEF Run, Start, Mark, Act, Return, Throw, InHandler, Running
<1>8. ASSUME NEW c \in Chats, ReEnqueue(c)
      PROVE  PlacedInv' /\ QueueOrder'
  <2> DEFINE h == Head(chain[c])
             next == <<turnOf(h), attemptOf(h) + 1>>
  <2>1. /\ chain[c] # << >> /\ h \in Jobs /\ job[h] = "retrying"
        /\ \/ job' = [job EXCEPT ![h] = "leaving"]
           \/ job[next] = "absent" /\ job' = [[job EXCEPT ![h] = "leaving"] EXCEPT ![next] = "delayed"]
        /\ chain' = [chain EXCEPT ![c] = Tail(@)] /\ UNCHANGED wait
    BY <1>8, HeadIsJob DEF ReEnqueue, TypeOK
  <2>2. ~IsFirst(next)
    BY <2>1, JobsAreNumbered DEF IsFirst, attemptOf
  <2>3. \A j \in Jobs :
          \/ job'[j] = job[j] /\ j # h
          \/ j = h /\ job[j] = "retrying" /\ job'[j] \in {"leaving", "delayed"}
          \/ j = next /\ job[j] = "absent" /\ job'[j] = "delayed"
    <3> HIDE DEF next, h
    <3>1. CASE job' = [job EXCEPT ![h] = "leaving"]
      BY <2>1, <3>1 DEF TypeOK
    <3>2. CASE job[next] = "absent" /\ job' = [[job EXCEPT ![h] = "leaving"] EXCEPT ![next] = "delayed"]
      BY <2>1, <3>2 DEF TypeOK
    <3> QED  BY <2>1, <3>1, <3>2
  <2>4. next # h
    BY <2>1, JobsAreNumbered
  <2>5. job'[h] = "leaving"
    <3> HIDE DEF next, h
    <3> QED  BY <2>1, <2>4 DEF TypeOK
  <2> HIDE DEF next
  <2>6. \A j \in Jobs :
          /\ job'[j] = "waiting" <=> job[j] = "waiting"
          /\ job'[j] = "absent" => job[j] = "absent"
          /\ job'[j] = job[j] \/ job[j] \notin {"absent", "delayed"} \/ ~IsFirst(j)
          /\ job'[j] = "delayed" => job[j] = "delayed" \/ (job[j] = "absent" /\ ~IsFirst(j))
          /\ job'[j] = "chained" => job[j] = "chained" /\ j # h
    BY <2>2, <2>3, <2>5
  <2> QED  BY <2>1, <2>6, OrderKept
<1>9. ASSUME NEW c \in Chats, Policy(c)
      PROVE  PlacedInv' /\ QueueOrder'
  <2>1. CASE Settle(c) \/ Clear(c) \/ CheckMarker(c) \/ GiveUp(c)
    BY <2>1, StepKeepsOrder DEF Settle, Clear, CheckMarker, GiveUp, Leave, InHandler
  <2> QED  BY <1>8, <1>9, <2>1 DEF Policy
<1>10. ASSUME NEW c \in Chats, Broken(c)
       PROVE  PlacedInv' /\ QueueOrder'
  BY <1>10, StepKeepsOrder DEF Broken, MarkFails, SettleFails, ClearFails, CheckMarkerFails,
                              ReEnqueueFails, GiveUpFails, Leave, InHandler, Running
<1>11. CASE UNCHANGED vars
  BY <1>11, <1>5 DEF vars
<1>12. ~Crash
  BY DEF Crash, Fault, Crashless
<1> QED
  BY <1>2, <1>3, <1>4, <1>6, <1>7, <1>9, <1>10, <1>11, <1>12 DEF Next, Queue

\* Only the job at the head of a chain starts.
LEMMA RunningStarts ==
  ASSUME TypeOK, WaitInv, [Next]_vars,
         NEW j \in Jobs, job[j] = "chained", job'[j] = "running"
  PROVE  \E c \in Chats : chain[c] # << >> /\ Head(chain[c]) = j
<1>1. CASE Queue
  <2>1. ~Arrive
    BY ConstantsAssumption DEF Arrive, Jobs, Turns, TypeOK
  <2>2. ~Pick
    BY HeadIsWaiting DEF Pick, TypeOK
  <2>3. ASSUME NEW k \in Jobs, Promote(k) \/ Finish(k) \/ Recover(k) \/ Discard(k) PROVE FALSE
    BY <2>3 DEF Promote, Finish, Recover, Discard, TypeOK
  <2> QED  BY <1>1, <2>1, <2>2, <2>3 DEF Queue
<1>2. ASSUME NEW c \in Chats, Run(c) \/ Policy(c) \/ Broken(c)
      PROVE  chain[c] # << >> /\ Head(chain[c]) = j
  <2>1. ASSUME NEW s, NEW s2, Step(c, s, s2)
        PROVE  chain[c] # << >> /\ Head(chain[c]) = j
    BY <2>1, StepFrame
  <2>2. CASE ReEnqueue(c)
    <3> DEFINE h == Head(chain[c])
               next == <<turnOf(h), attemptOf(h) + 1>>
    <3>1. /\ h \in Jobs
          /\ \/ job' = [job EXCEPT ![h] = "leaving"]
             \/ job' = [[job EXCEPT ![h] = "leaving"] EXCEPT ![next] = "delayed"]
      BY <2>2, HeadIsJob DEF ReEnqueue, TypeOK
    <3> HIDE DEF h, next
    <3>2. job'[j] # "running"
      BY <3>1 DEF TypeOK
    <3> QED  BY <3>2
  <2>3. CASE Run(c)
    BY <2>1, <2>3 DEF Run, Start, Mark, Act, Return, Throw
  <2>4. CASE Policy(c)
    BY <2>1, <2>2, <2>4 DEF Policy, Settle, Clear, CheckMarker, GiveUp, Leave
  <2>5. CASE Broken(c)
    BY <2>1, <2>5 DEF Broken, MarkFails, SettleFails, ClearFails, CheckMarkerFails,
                      ReEnqueueFails, GiveUpFails, Leave
  <2> QED  BY <1>2, <2>3, <2>4, <2>5
<1>3. ~Crash
  BY DEF Crash
<1>4. ~UNCHANGED vars
  BY DEF vars
<1> QED  BY <1>1, <1>2, <1>3, <1>4 DEF Next

\* A chat's first attempts start in the order in which the turns arrived,
\* whatever fails and whatever is retried between them.
THEOREM FirstRunsInOrderHolds == Crashless => (Spec => FirstRunsInOrder)
<1> SUFFICES ASSUME Crashless PROVE Spec => FirstRunsInOrder
  OBVIOUS
<1>1. ASSUME TypeOK, ChainInv, ActInv, PlacedInv, QueueOrder, [Next]_vars,
             NEW t \in Turns, NEW u \in Turns, t < u, chatOf[t] = chatOf[u],
             job[<<u, 1>>] = "chained", job'[<<u, 1>>] = "running"
      PROVE  job[<<t, 1>>] \notin {"waiting", "chained"}
  <2> DEFINE c == chatOf[u]
             first == <<u, 1>>
  <2>1. /\ first \in Jobs /\ <<t, 1>> \in Jobs /\ IsFirst(first) /\ IsFirst(<<t, 1>>)
        /\ turnOf(first) = u /\ turnOf(<<t, 1>>) = t /\ chatOfJob(<<t, 1>>) = c /\ chatOfJob(first) = c
        /\ c \in Chats
    BY <1>1, ConstantsAssumption, JobsAreNumbered DEF IsFirst, turnOf, attemptOf, chatOfJob
  <2>2. PICK d \in Chats : chain[d] # << >> /\ Head(chain[d]) = first
    BY <1>1, <2>1, RunningStarts DEF ActInv
  <2>3. chain[d] \in Seq(Jobs) /\ first = chain[d][1] /\ 1 \in 1 .. Len(chain[d])
    BY <1>1, <2>2 DEF TypeOK
  <2>4. d = c
    BY <1>1, <2>1, <2>3 DEF ChainInv
  <2> HIDE DEF c, first
  <2>5. job[<<t, 1>>] # "waiting"
    BY <1>1, <2>1 DEF QueueOrder, PassedInv, first
  <2>6. ASSUME job[<<t, 1>>] = "chained" PROVE FALSE
    <3>1. PICK i \in 1 .. Len(chain[c]) : chain[c][i] = <<t, 1>>
      BY <1>1, <2>1, <2>6 DEF PlacedInv
    <3>2. i # 1
      BY <1>1, <2>1, <2>3, <2>4, <3>1 DEF Turns
    <3>3. u < t
      BY <1>1, <2>1, <2>3, <2>4, <3>1, <3>2 DEF QueueOrder, Ordered
    <3> QED  BY <1>1, <3>3 DEF Turns
  <2> QED  BY <2>5, <2>6
<1>2. TypeOK /\ ActInv /\ [Next]_vars => ActInv'
  BY NextAct
<1>3. TypeOK /\ ActInv /\ PlacedInv /\ QueueOrder /\ [Next]_vars => PlacedInv' /\ QueueOrder'
  BY NextOrder
<1>4. TypeOK /\ ChainInv /\ ActInv /\ PlacedInv /\ QueueOrder /\ [Next]_vars =>
        [\A t, u \in Turns :
           /\ t < u /\ chatOf[t] = chatOf[u]
           /\ job[<<u, 1>>] = "chained" /\ job'[<<u, 1>>] = "running"
           => job[<<t, 1>>] \notin {"waiting", "chained"}]_vars
  BY <1>1
<1> QED
  BY <1>2, <1>3, <1>4, InitTypes, NextTypes, InitChain, NextChain, InitAct, InitOrder, PTL
     DEF Spec, FirstRunsInOrder
(***************************************************************************)
(* Repeated actions.  A job that may still act is a chance to act; a turn  *)
(* gets one when it arrives, hands it on when it is tried again and spends *)
(* it when it acts.  Only the recovery of a stalled job makes a new one,   *)
(* so that the runs that acted and the chances left never outnumber the    *)
(* recoveries by more than one.                                            *)
(***************************************************************************)
MayAct(j) ==
  \/ job[j] \in BeforeActing
  \/ job[j] \in {"returned", "threw"} /\ turnOf(j) \notin marks

Chances(t) == {n \in 1 .. MaxAttempts : MayAct(<<t, n>>)}

\* The recoveries of the jobs of t, numbered for each job.
Recoveries(t) == {r \in (1 .. MaxAttempts) \X (1 .. MaxStalls) : r[2] <= stalls[<<t, r[1]>>]}

ChanceInv ==
  \A t \in Turns : runs[t] + Cardinality(Chances(t)) <= 1 + Cardinality(Recoveries(t))

\* An action has its marker as long as its run is not settled.
MarkedInv == \A j \in Jobs : job[j] \in {"marked", "acted"} => turnOf(j) \in marks

UnactedInv == \A t \in Turns : t > arrived => runs[t] = 0

RepeatInv == ChanceInv /\ MarkedInv /\ UnactedInv

LEMMA FiniteCounts ==
  /\ \A S \in SUBSET (1 .. MaxAttempts) : IsFiniteSet(S) /\ Cardinality(S) \in Nat
  /\ \A S \in SUBSET ((1 .. MaxAttempts) \X (1 .. MaxStalls)) : IsFiniteSet(S) /\ Cardinality(S) \in Nat
<1>1. IsFiniteSet(1 .. MaxAttempts) /\ IsFiniteSet(1 .. MaxStalls)
  BY ConstantsAssumption, FS_Interval
<1>2. IsFiniteSet((1 .. MaxAttempts) \X (1 .. MaxStalls))
  BY <1>1, FS_Product
<1> QED  BY <1>1, <1>2, FS_Subset, FS_CardinalityType

\* A step that gives no job a chance it did not have keeps the account.
LEMMA FewerChances ==
  ASSUME TypeOK, ChanceInv, UNCHANGED <<runs, stalls>>,
         \A j \in Jobs : MayAct(j)' => MayAct(j)
  PROVE  ChanceInv'
<1> SUFFICES ASSUME NEW t \in Turns
             PROVE  runs'[t] + Cardinality(Chances(t)') <= 1 + Cardinality(Recoveries(t)')
  BY DEF ChanceInv, Chances, Recoveries, MayAct
<1>1. Chances(t)' \subseteq Chances(t) /\ Chances(t) \subseteq 1 .. MaxAttempts
  BY DEF Chances, Jobs
<1>2. Cardinality(Chances(t)') <= Cardinality(Chances(t)) /\ Cardinality(Chances(t)') \in Nat
      /\ Cardinality(Chances(t)) \in Nat
  BY <1>1, FiniteCounts, FS_Subset
<1>3. Recoveries(t)' = Recoveries(t) /\ Cardinality(Recoveries(t)) \in Nat
  BY FiniteCounts DEF Recoveries
<1>4. runs'[t] = runs[t] /\ runs[t] \in Nat
  BY DEF TypeOK
<1> QED  BY <1>2, <1>3, <1>4 DEF ChanceInv

\* A step of the running job that spends no chance and makes none.
LEMMA StepKeepsRepeat ==
  ASSUME TypeOK, RepeatInv, NEW c \in Chats, NEW s, NEW s2, Step(c, s, s2),
         UNCHANGED <<arrived, runs, stalls>>, marks \subseteq marks',
         s2 \in BeforeActing => s \in BeforeActing \/ (s = "threw" /\ headTurn(c) \notin marks),
         s2 \in {"returned", "threw"} => s \in BeforeActing \cup {"acted", "returned", "threw"},
         s2 \in {"marked", "acted"} => headTurn(c) \in marks'
  PROVE  RepeatInv'
<1> DEFINE h == Head(chain[c])
<1>1. h \in Jobs /\ job[h] = s /\ turnOf(h) = headTurn(c)
      /\ \A j \in Jobs : job'[j] = IF j = h THEN s2 ELSE job[j]
  BY StepFrame DEF headTurn
<1> HIDE DEF h
<1>2. ASSUME NEW j \in Jobs, MayAct(j)' PROVE MayAct(j)
  <2>1. CASE j # h
    BY <1>1, <1>2, <2>1 DEF MayAct, turnOf
  <2>2. CASE j = h
    <3>1. CASE s2 \in BeforeActing
      BY <1>1, <2>2, <3>1 DEF MayAct
    <3>2. CASE s2 \in {"returned", "threw"} /\ turnOf(h) \notin marks'
      BY <1>1, <2>2, <3>2 DEF MayAct, RepeatInv, MarkedInv
    <3> QED  BY <1>1, <1>2, <2>2, <3>1, <3>2 DEF MayAct, turnOf
  <2> QED  BY <2>1, <2>2
<1>3. MarkedInv'
  BY <1>1 DEF RepeatInv, MarkedInv, turnOf
<1> QED  BY <1>2, <1>3, FewerChances DEF RepeatInv, UnactedInv

LEMMA InitRepeat == Init => RepeatInv
<1> SUFFICES ASSUME Init PROVE RepeatInv
  OBVIOUS
<1>1. \A t \in Turns : Chances(t) = {}
  BY DEF Init, Chances, MayAct, BeforeActing, Jobs
<1>2. ASSUME NEW t \in Turns PROVE Cardinality(Recoveries(t)) \in Nat
  <2>1. Recoveries(t) \in SUBSET ((1 .. MaxAttempts) \X (1 .. MaxStalls))
    BY DEF Recoveries
  <2> QED  BY <2>1, FiniteCounts
<1>3. ChanceInv
  <2> SUFFICES ASSUME NEW t \in Turns
               PROVE  runs[t] + Cardinality(Chances(t)) <= 1 + Cardinality(Recoveries(t))
    BY DEF ChanceInv
  <2>1. runs[t] = 0 /\ Cardinality(Chances(t)) = 0
    BY <1>1, FS_EmptySet DEF Init
  <2> QED  BY <1>2, <2>1
<1> QED  BY <1>3 DEF Init, RepeatInv, MarkedInv, UnactedInv

\* The job at the head of a chain is the only job of its turn in the handler.
LEMMA SoleHandler ==
  ASSUME TypeOK, ChainInv, NEW c \in Chats, NEW s \in InHandler, NEW s2, Step(c, s, s2),
         NEW j \in Jobs, turnOf(j) = headTurn(c), job[j] \in InHandler
  PROVE  j = Head(chain[c])
<1>1. Head(chain[c]) \in Jobs /\ job[Head(chain[c])] = s /\ turnOf(Head(chain[c])) = headTurn(c)
  BY StepFrame DEF headTurn
<1>2. chatOfJob(j) = chatOfJob(Head(chain[c]))
  BY <1>1 DEF chatOfJob
<1> QED  BY <1>1, <1>2 DEF ChainInv

LEMMA NextRepeat ==
  TypeOK /\ ChainInv /\ WaitInv /\ AttemptsInv /\ RepeatInv /\ [Next]_vars => RepeatInv'
<1> SUFFICES ASSUME TypeOK, ChainInv, WaitInv, AttemptsInv, RepeatInv, [Next]_vars PROVE RepeatInv'
  OBVIOUS
\* A step of the queue: what a job may still do stays the same or goes.
<1>q. ASSUME NEW j \in Jobs, NEW s2, \A k \in Jobs : job'[k] = IF k = j THEN s2 ELSE job[k],
             UNCHANGED <<arrived, marks, runs, stalls>>,
             s2 \in BeforeActing => job[j] \in BeforeActing, s2 \notin {"returned", "threw", "marked", "acted"}
      PROVE  RepeatInv'
  <2>1. \A k \in Jobs : MayAct(k)' => MayAct(k)
    BY <1>q DEF MayAct, turnOf
  <2>2. MarkedInv'
    BY <1>q DEF RepeatInv, MarkedInv, turnOf
  <2> QED  BY <1>q, <2>1, <2>2, FewerChances DEF RepeatInv, UnactedInv
<1>1. CASE Arrive
  <2> DEFINE new == <<arrived + 1, 1>>
  <2>1. /\ arrived \in Nat /\ arrived + 1 \in Turns /\ new \in Jobs /\ turnOf(new) = arrived + 1
        /\ arrived' = arrived + 1 /\ UNCHANGED <<marks, runs, stalls>>
        /\ \A j \in Jobs : job'[j] = IF j = new THEN "waiting" ELSE job[j]
    BY <1>1, ConstantsAssumption DEF Arrive, Jobs, Turns, TypeOK, turnOf
  <2>2. ASSUME NEW t \in Turns
        PROVE  runs'[t] + Cardinality(Chances(t)') <= 1 + Cardinality(Recoveries(t)')
    <3>1. Recoveries(t)' = Recoveries(t) /\ runs'[t] = runs[t] /\ runs[t] \in Nat
      BY <2>1 DEF Recoveries, TypeOK
    <3>2. CASE t # arrived + 1
      <4>1. Chances(t)' = Chances(t)
        BY <2>1, <3>2 DEF Chances, MayAct, Jobs, turnOf
      <4> QED  BY <3>1, <4>1 DEF RepeatInv, ChanceInv
    <3>3. CASE t = arrived + 1
      <4>1. runs[t] = 0 /\ \A n \in 1 .. MaxAttempts : job[<<t, n>>] = "absent"
        BY <2>1, <3>3 DEF RepeatInv, UnactedInv, AttemptsInv, Attempted
      <4>2. Chances(t)' \subseteq {1}
        BY <2>1, <4>1 DEF Chances, MayAct, Jobs, BeforeActing
      <4>3. Cardinality(Chances(t)') <= 1 /\ Cardinality(Chances(t)') \in Nat
        <5>1. Chances(t)' \in SUBSET (1 .. MaxAttempts)
          BY DEF Chances
        <5>2. IsFiniteSet({1}) /\ Cardinality({1}) = 1
          BY FS_Singleton
        <5>3. Cardinality(Chances(t)') <= Cardinality({1})
          BY <4>2, <5>2, FS_Subset
        <5> QED  BY <5>1, <5>2, <5>3, FiniteCounts
      <4>4. Cardinality(Recoveries(t)) \in Nat
        <5>1. Recoveries(t) \in SUBSET ((1 .. MaxAttempts) \X (1 .. MaxStalls))
          BY DEF Recoveries
        <5> QED  BY <5>1, FiniteCounts
      <4> QED  BY <3>1, <4>1, <4>3, <4>4
    <3> QED  BY <3>2, <3>3
  <2>3. ChanceInv'
    BY <2>2 DEF ChanceInv, Chances, Recoveries, MayAct
  <2>4. MarkedInv'
    BY <2>1 DEF RepeatInv, MarkedInv, turnOf
  <2>5. UnactedInv'
    BY <2>1 DEF RepeatInv, UnactedInv, Turns
  <2> QED  BY <2>3, <2>4, <2>5 DEF RepeatInv
<1>2. CASE Pick
  <2>1. /\ Head(wait) \in Jobs /\ job[Head(wait)] = "waiting"
        /\ \A k \in Jobs : job'[k] = IF k = Head(wait) THEN "chained" ELSE job[k]
        /\ UNCHANGED <<arrived, marks, runs, stalls>>
    BY <1>2, HeadIsWaiting DEF Pick, TypeOK
  <2>2. "waiting" \in BeforeActing
    BY DEF BeforeActing
  <2> QED  BY <1>q, <2>1, <2>2
<1>3. ASSUME NEW j \in Jobs, Promote(j) \/ Finish(j) \/ Discard(j)
      PROVE  RepeatInv'
  <2>1. CASE Promote(j)
    BY <2>1, <1>q DEF Promote, BeforeActing, TypeOK
  <2>2. CASE Finish(j)
    BY <2>2, <1>q DEF Finish, BeforeActing, TypeOK
  <2>3. CASE Discard(j)
    BY <2>3, <1>q DEF Discard, BeforeActing, TypeOK
  <2> QED  BY <1>3, <2>1, <2>2, <2>3
\* A recovered job may act again, and the recovery is counted.
<1>4. ASSUME NEW j \in Jobs, Recover(j)
      PROVE  RepeatInv'
  <2> DEFINE v == turnOf(j)
             a == attemptOf(j)
  <2>1. /\ job[j] = "stalled" /\ stalls[j] < MaxStalls /\ stalls[j] \in Nat
        /\ \A k \in Jobs : job'[k] = IF k = j THEN "waiting" ELSE job[k]
        /\ \A k \in Jobs : stalls'[k] = IF k = j THEN stalls[j] + 1 ELSE stalls[k]
        /\ UNCHANGED <<arrived, marks, runs>>
    BY <1>4 DEF Recover, TypeOK
  <2>2. v \in Turns /\ a \in 1 .. MaxAttempts /\ j = <<v, a>>
    BY JobsAreNumbered
  <2> HIDE DEF v, a
  <2>3. ASSUME NEW t \in Turns
        PROVE  runs'[t] + Cardinality(Chances(t)') <= 1 + Cardinality(Recoveries(t)')
    <3>1. runs'[t] = runs[t] /\ runs[t] \in Nat
      BY <2>1 DEF TypeOK
    <3>2. CASE t # v
      <4>1. \A n \in 1 .. MaxAttempts : <<t, n>> \in Jobs /\ <<t, n>> # j
        BY <2>2, <3>2 DEF Jobs
      <4>2. Chances(t)' = Chances(t) /\ Recoveries(t)' = Recoveries(t)
        BY <2>1, <4>1 DEF Chances, MayAct, Recoveries, turnOf
      <4> QED  BY <3>1, <4>2 DEF RepeatInv, ChanceInv
    <3>3. CASE t = v
      <4> DEFINE r == <<a, stalls[j] + 1>>
      <4>0. \A n \in 1 .. MaxAttempts : <<t, n>> \in Jobs /\ (<<t, n>> = j <=> n = a)
        BY <2>2, <3>3 DEF Jobs
      <4>1. Chances(t)' \subseteq Chances(t) \cup {a} /\ Chances(t) \in SUBSET (1 .. MaxAttempts)
            /\ Chances(t)' \in SUBSET (1 .. MaxAttempts)
        BY <2>1, <4>0 DEF Chances, MayAct, turnOf
      <4>2. Cardinality(Chances(t)') <= Cardinality(Chances(t)) + 1
            /\ Cardinality(Chances(t)') \in Nat /\ Cardinality(Chances(t)) \in Nat
        <5>1. IsFiniteSet(Chances(t) \cup {a})
              /\ Cardinality(Chances(t) \cup {a}) <= Cardinality(Chances(t)) + 1
          BY <4>1, FiniteCounts, FS_AddElement
        <5>2. Cardinality(Chances(t)') <= Cardinality(Chances(t) \cup {a})
          BY <4>1, <5>1, FS_Subset
        <5> QED  BY <4>1, <5>1, <5>2, FiniteCounts, FS_CardinalityType
      <4>3. r \in (1 .. MaxAttempts) \X (1 .. MaxStalls) /\ r \notin Recoveries(t) /\ r[1] = a /\ r[2] = stalls[j] + 1
        BY <2>1, <2>2, <3>3, ConstantsAssumption DEF Recoveries
      <4>4. Recoveries(t) \cup {r} \subseteq Recoveries(t)'
        <5>1. \A n \in 1 .. MaxAttempts : stalls'[<<t, n>>] \in Nat /\ stalls[<<t, n>>] \in Nat
                                          /\ stalls[<<t, n>>] <= stalls'[<<t, n>>]
          BY SMTT(30), <2>1, <4>0 DEF TypeOK
        <5>2. stalls'[<<t, a>>] = stalls[j] + 1
          BY <2>1, <2>2, <3>3
        <5> HIDE DEF r
        <5> QED  BY <2>1, <4>3, <5>1, <5>2 DEF Recoveries
      <4>5. Recoveries(t) \in SUBSET ((1 .. MaxAttempts) \X (1 .. MaxStalls))
            /\ Recoveries(t)' \in SUBSET ((1 .. MaxAttempts) \X (1 .. MaxStalls))
        BY DEF Recoveries
      <4> HIDE DEF r
      <4>6. Cardinality(Recoveries(t)) + 1 <= Cardinality(Recoveries(t)')
            /\ Cardinality(Recoveries(t)') \in Nat /\ Cardinality(Recoveries(t)) \in Nat
        BY SMTT(30), <4>3, <4>4, <4>5, FiniteCounts, FS_AddElement, FS_Subset
      <4>7. runs[t] + Cardinality(Chances(t)) <= 1 + Cardinality(Recoveries(t))
        BY DEF RepeatInv, ChanceInv
      <4> QED  BY <3>1, <4>2, <4>6, <4>7
    <3> QED  BY <3>2, <3>3
  <2>4. ChanceInv'
    BY <2>3 DEF ChanceInv, Chances, Recoveries, MayAct
  <2>5. MarkedInv'
    BY <2>1 DEF RepeatInv, MarkedInv, turnOf
  <2> QED  BY <2>1, <2>4, <2>5 DEF RepeatInv, UnactedInv
\* The running job acts: its chance is spent.
<1>5. ASSUME NEW c \in Chats, Act(c)
      PROVE  RepeatInv'
  <2> DEFINE h == Head(chain[c])
             v == turnOf(h)
             a == attemptOf(h)
  <2>1. /\ h \in Jobs /\ job[h] = "marked" /\ v = headTurn(c)
        /\ \A j \in Jobs : job'[j] = IF j = h THEN "acted" ELSE job[j]
        /\ runs' = [runs EXCEPT ![v] = @ + 1]
        /\ UNCHANGED <<arrived, marks, stalls>>
    BY <1>5, StepFrame DEF Act, headTurn
  <2>2. v \in Turns /\ a \in 1 .. MaxAttempts /\ h = <<v, a>>
    BY <2>1, JobsAreNumbered
  <2> HIDE DEF h, v, a
  <2>r. \A t \in Turns : runs'[t] = (IF t = v THEN runs[v] + 1 ELSE runs[t]) /\ runs[t] \in Nat
    BY <2>1, <2>2 DEF TypeOK
  <2>3. ASSUME NEW t \in Turns
        PROVE  runs'[t] + Cardinality(Chances(t)') <= 1 + Cardinality(Recoveries(t)')
    <3>1. Recoveries(t)' = Recoveries(t)
      BY <2>1 DEF Recoveries
    <3>2. CASE t # v
      <4>1. \A n \in 1 .. MaxAttempts : <<t, n>> \in Jobs /\ <<t, n>> # h
        BY <2>2, <3>2 DEF Jobs
      <4>2. Chances(t)' = Chances(t)
        BY <2>1, <4>1 DEF Chances, MayAct, turnOf
      <4> QED  BY <2>r, <3>1, <3>2, <4>2 DEF RepeatInv, ChanceInv
    <3>3. CASE t = v
      <4>0. \A n \in 1 .. MaxAttempts : <<t, n>> \in Jobs /\ (<<t, n>> = h <=> n = a)
        BY <2>2, <3>3 DEF Jobs
      <4>1. Chances(t)' \subseteq Chances(t) \ {a} /\ a \in Chances(t)
            /\ Chances(t) \in SUBSET (1 .. MaxAttempts)
        BY <2>1, <2>2, <4>0 DEF Chances, MayAct, turnOf, BeforeActing
      <4>2. Cardinality(Chances(t)') <= Cardinality(Chances(t)) - 1
            /\ Cardinality(Chances(t)') \in Nat /\ Cardinality(Chances(t)) \in Nat
        BY <4>1, FiniteCounts, FS_RemoveElement, FS_Subset, FS_CardinalityType
      <4>3. Cardinality(Recoveries(t)) \in Nat
        <5>1. Recoveries(t) \in SUBSET ((1 .. MaxAttempts) \X (1 .. MaxStalls))
          BY DEF Recoveries
        <5> QED  BY <5>1, FiniteCounts
      <4>4. runs[t] + Cardinality(Chances(t)) <= 1 + Cardinality(Recoveries(t))
        BY DEF RepeatInv, ChanceInv
      <4> QED  BY <2>r, <3>1, <3>3, <4>2, <4>3, <4>4
    <3> QED  BY <3>2, <3>3
  <2>4. ChanceInv'
    BY <2>3 DEF ChanceInv, Chances, Recoveries, MayAct
  <2>5. MarkedInv'
    BY <2>1 DEF RepeatInv, MarkedInv, turnOf
  <2>6. UnactedInv'
    <3>1. v <= arrived
      BY <2>1, <2>2 DEF AttemptsInv, Attempted
    <3> QED  BY <2>1, <2>2, <2>r, <3>1 DEF RepeatInv, UnactedInv, TypeOK, Turns
  <2> QED  BY <2>4, <2>5, <2>6 DEF RepeatInv
<1>6. ASSUME NEW c \in Chats, Run(c)
      PROVE  RepeatInv'
  <2>1. CASE Start(c) \/ Return(c) \/ Throw(c)
    BY <2>1, StepKeepsRepeat DEF Start, Return, Throw, Running, BeforeActing,
             JobStates, Active, InHandler
  <2>2. CASE Mark(c)
    BY <2>2, StepKeepsRepeat DEF Mark, BeforeActing, JobStates, Active, InHandler, Running
  <2> QED  BY <1>5, <1>6, <2>1, <2>2 DEF Run
\* The job leaves the handler, and with it may go the marker.
<1>7. ASSUME NEW c \in Chats, NEW s \in InHandler, Step(c, s, "leaving"),
             UNCHANGED <<arrived, runs, stalls>>,
             marks' = marks \/ marks' = marks \ {headTurn(c)}
      PROVE  RepeatInv'
  <2> DEFINE h == Head(chain[c])
  <2>1. h \in Jobs /\ \A j \in Jobs : job'[j] = IF j = h THEN "leaving" ELSE job[j]
    BY <1>7, StepFrame
  <2>2. \A j \in Jobs : turnOf(j) = headTurn(c) /\ j # h => job[j] \notin InHandler
    BY <1>7, SoleHandler
  <2> HIDE DEF h
  <2>3. "leaving" \notin BeforeActing /\ {"returned", "threw", "marked", "acted"} \subseteq InHandler
    BY DEF BeforeActing, InHandler, Running
  <2>4. ASSUME NEW j \in Jobs, MayAct(j)' PROVE MayAct(j)
    <3>1. j # h /\ job'[j] = job[j]
      BY <2>1, <2>3, <2>4 DEF MayAct
    <3>2. CASE turnOf(j) = headTurn(c)
      BY <2>2, <2>3, <2>4, <3>1, <3>2 DEF MayAct
    <3>3. CASE turnOf(j) # headTurn(c)
      BY <1>7, <2>4, <3>1, <3>3 DEF MayAct, turnOf
    <3> QED  BY <3>2, <3>3
  <2>5. MarkedInv'
    BY <1>7, <2>1, <2>2, <2>3 DEF RepeatInv, MarkedInv, turnOf
  <2> QED  BY <1>7, <2>4, <2>5, FewerChances DEF RepeatInv, UnactedInv
\* The chance passes to the next attempt.
<1>8. ASSUME NEW c \in Chats, ReEnqueue(c)
      PROVE  RepeatInv'
  <2> DEFINE h == Head(chain[c])
             v == turnOf(h)
             a == attemptOf(h)
             next == <<v, a + 1>>
  <2>1. /\ h \in Jobs /\ job[h] = "retrying"
        /\ \/ job' = [job EXCEPT ![h] = "leaving"]
           \/ job[next] = "absent" /\ job' = [[job EXCEPT ![h] = "leaving"] EXCEPT ![next] = "delayed"]
        /\ UNCHANGED <<arrived, marks, runs, stalls>>
    BY <1>8, HeadIsJob DEF ReEnqueue, TypeOK
  <2>2. v \in Turns /\ a \in 1 .. MaxAttempts /\ h = <<v, a>> /\ next # h
    BY <2>1, JobsAreNumbered
  <2>n. \A t \in Turns : \A n \in 1 .. MaxAttempts : <<t, n>> = next => t = v /\ n = a + 1
    OBVIOUS
  <2> HIDE DEF h, v, a, next
  <2>3. \A j \in Jobs : j # h /\ j # next => job'[j] = job[j]
    BY <2>1 DEF TypeOK
  <2>4. job'[h] = "leaving" /\ (next \in Jobs => job'[next] = job[next] \/ job'[next] = "delayed")
    BY <2>1, <2>2 DEF TypeOK
  <2>5. ASSUME NEW t \in Turns
        PROVE  runs'[t] + Cardinality(Chances(t)') <= 1 + Cardinality(Recoveries(t)')
    <3>1. Recoveries(t)' = Recoveries(t) /\ runs'[t] = runs[t] /\ runs[t] \in Nat
      BY <2>1 DEF Recoveries, TypeOK
    <3>2. CASE t # v
      <4>1. \A n \in 1 .. MaxAttempts : <<t, n>> \in Jobs /\ <<t, n>> # h /\ <<t, n>> # next
        BY <2>2, <2>n, <3>2 DEF Jobs
      <4>2. Chances(t)' = Chances(t)
        BY <2>1, <2>3, <4>1 DEF Chances, MayAct, turnOf
      <4> QED  BY <3>1, <4>2 DEF RepeatInv, ChanceInv
    <3>3. CASE t = v
      <4>0. \A n \in 1 .. MaxAttempts : <<t, n>> \in Jobs /\ (<<t, n>> = h <=> n = a)
        BY <2>2, <3>3 DEF Jobs
      <4>1. Chances(t)' \subseteq (Chances(t) \ {a}) \cup {a + 1} /\ a \in Chances(t)
        <5>1. a \in Chances(t)
          BY <2>1, <2>2, <4>0 DEF Chances, MayAct, BeforeActing
        <5>2. ASSUME NEW n \in Chances(t)' PROVE n \in Chances(t) \ {a} \/ n = a + 1
          <6>1. n \in 1 .. MaxAttempts /\ MayAct(<<t, n>>)' /\ <<t, n>> \in Jobs
            BY <4>0 DEF Chances
          <6>2. <<t, n>> # h
            BY <2>4, <6>1 DEF MayAct, BeforeActing
          <6>3. CASE <<t, n>> # next
            BY <2>1, <2>3, <4>0, <6>1, <6>2, <6>3 DEF Chances, MayAct, turnOf
          <6> QED  BY <2>n, <6>1, <6>3
        <5> QED  BY <5>1, <5>2
      <4>2. Chances(t) \in SUBSET (1 .. MaxAttempts) /\ Chances(t)' \in SUBSET (1 .. MaxAttempts)
        BY DEF Chances
      <4>3. Cardinality(Chances(t)') <= Cardinality(Chances(t))
            /\ Cardinality(Chances(t)') \in Nat /\ Cardinality(Chances(t)) \in Nat
        <5>1. IsFiniteSet(Chances(t) \ {a}) /\ Cardinality(Chances(t) \ {a}) = Cardinality(Chances(t)) - 1
          BY <4>1, <4>2, FiniteCounts, FS_RemoveElement
        <5> DEFINE S == Chances(t) \ {a}
        <5> HIDE DEF S
        <5>2. IsFiniteSet(S) /\ Cardinality(S) = Cardinality(Chances(t)) - 1 /\ Cardinality(S) \in Nat
          BY <5>1, FS_CardinalityType DEF S
        <5>3. /\ IsFiniteSet(S \cup {a + 1})
              /\ Cardinality(S \cup {a + 1}) <= Cardinality(S) + 1
          BY <5>2, FS_AddElement
        <5>4. Cardinality(Chances(t)') <= Cardinality(S \cup {a + 1})
          BY <4>1, <5>3, FS_Subset DEF S
        <5>5. Cardinality(Chances(t)') \in Nat /\ Cardinality(Chances(t)) \in Nat
          BY <4>2, FiniteCounts
        <5> QED  BY <5>2, <5>3, <5>4, <5>5, FS_CardinalityType
      <4>4. runs[t] + Cardinality(Chances(t)) <= 1 + Cardinality(Recoveries(t))
        BY DEF RepeatInv, ChanceInv
      <4>5. Cardinality(Recoveries(t)) \in Nat
        <5>1. Recoveries(t) \in SUBSET ((1 .. MaxAttempts) \X (1 .. MaxStalls))
          BY DEF Recoveries
        <5> QED  BY <5>1, FiniteCounts
      <4> QED  BY <3>1, <4>3, <4>4, <4>5
    <3> QED  BY <3>2, <3>3
  <2>6. ChanceInv'
    BY <2>5 DEF ChanceInv, Chances, Recoveries, MayAct
  <2>7. MarkedInv'
    BY <2>1, <2>3, <2>4 DEF RepeatInv, MarkedInv, turnOf
  <2> QED  BY <2>1, <2>6, <2>7 DEF RepeatInv, UnactedInv
<1>9. ASSUME NEW c \in Chats, Policy(c)
      PROVE  RepeatInv'
  <2>1. CASE Settle(c) \/ GiveUp(c)
    BY <2>1, StepKeepsRepeat DEF Settle, GiveUp, BeforeActing, JobStates, Active, InHandler
  <2>2. CASE Clear(c)
    BY <2>2, <1>7 DEF Clear, Leave, InHandler
  <2>3. CASE CheckMarker(c)
    BY <2>3, StepKeepsRepeat DEF CheckMarker, Retriable, BeforeActing, JobStates, Active, InHandler
  <2> QED  BY <1>8, <1>9, <2>1, <2>2, <2>3 DEF Policy
<1>10. ASSUME NEW c \in Chats, Broken(c)
       PROVE  RepeatInv'
  <2>1. CASE MarkFails(c) \/ SettleFails(c) \/ GiveUpFails(c)
    BY <2>1, StepKeepsRepeat DEF MarkFails, SettleFails, GiveUpFails, BeforeActing, JobStates, Active, InHandler
  <2>2. CASE CheckMarkerFails(c)
    BY <2>2, StepKeepsRepeat DEF CheckMarkerFails, Retriable, BeforeActing, JobStates, Active, InHandler
  <2>3. CASE ClearFails(c) \/ ReEnqueueFails(c)
    BY <2>3, <1>7 DEF ClearFails, ReEnqueueFails, Leave, InHandler
  <2> QED  BY <1>10, <2>1, <2>2, <2>3 DEF Broken
<1>11. CASE Crash
  <2>1. \A j \in Jobs : (job'[j] = job[j] /\ job[j] \notin Active) \/ job'[j] = "stalled"
    BY <1>11 DEF Crash
  <2>2. UNCHANGED <<arrived, marks, runs, stalls>>
    BY <1>11 DEF Crash
  <2>3. \A j \in Jobs : MayAct(j)' => MayAct(j)
    BY <2>1, <2>2 DEF MayAct, BeforeActing, turnOf
  <2>4. MarkedInv'
    BY <2>1, <2>2 DEF RepeatInv, MarkedInv, turnOf
  <2> QED  BY <2>2, <2>3, <2>4, FewerChances DEF RepeatInv, UnactedInv
<1>12. CASE UNCHANGED vars
  <2>1. \A j \in Jobs : MayAct(j)' => MayAct(j)
    BY <1>12 DEF vars, MayAct, turnOf
  <2> QED  BY <1>12, <2>1, FewerChances DEF vars, RepeatInv, MarkedInv, UnactedInv, turnOf
<1> QED
  BY <1>1, <1>2, <1>3, <1>4, <1>6, <1>9, <1>10, <1>11, <1>12 DEF Next, Queue

\* A turn acts once and then once more at most for each time BullMQ found a job
\* of it stalled: no failed call, no retry and no re-enqueued twin of a job
\* repeats an action, however often the core crashes.
THEOREM RepeatsOnlyStalledJobsHolds == Spec => []RepeatsOnlyStalledJobs
<1>1. ASSUME TypeOK, RepeatInv PROVE RepeatsOnlyStalledJobs
  <2> SUFFICES ASSUME NEW t \in Turns
               PROVE  runs[t] <= 1 + MaxStalls * Cardinality(RecoveredJobs(t))
    BY DEF RepeatsOnlyStalledJobs
  <2> DEFINE R == RecoveredJobs(t)
             M == 1 .. MaxStalls
  <2>1. R \in SUBSET (1 .. MaxAttempts) /\ IsFiniteSet(R) /\ Cardinality(R) \in Nat
    <3>1. R \in SUBSET (1 .. MaxAttempts)
      BY DEF RecoveredJobs
    <3> QED  BY <3>1, FiniteCounts
  <2>2. IsFiniteSet(M) /\ Cardinality(M) = MaxStalls
    BY ConstantsAssumption, FS_Interval
  <2>3. Recoveries(t) \subseteq R \X M
    <3> SUFFICES ASSUME NEW r \in Recoveries(t) PROVE r[1] \in R /\ r[2] \in M /\ r = <<r[1], r[2]>>
      OBVIOUS
    <3>1. /\ r \in (1 .. MaxAttempts) \X M /\ r[1] \in 1 .. MaxAttempts /\ r[2] \in 1 .. MaxStalls
          /\ r[2] <= stalls[<<t, r[1]>>] /\ stalls[<<t, r[1]>>] \in Nat
      <4>1. /\ r \in (1 .. MaxAttempts) \X (1 .. MaxStalls) /\ r[2] <= stalls[<<t, r[1]>>]
            /\ r[1] \in 1 .. MaxAttempts /\ r[2] \in 1 .. MaxStalls
        BY DEF Recoveries
      <4>2. <<t, r[1]>> \in Jobs
        BY <4>1 DEF Jobs
      <4>3. stalls[<<t, r[1]>>] \in Nat
        BY <1>1, <4>2 DEF TypeOK
      <4> QED  BY <4>1, <4>3
    <3>2. stalls[<<t, r[1]>>] > 0
      BY <3>1, ConstantsAssumption
    <3> QED  BY <3>1, <3>2 DEF RecoveredJobs
  <2> HIDE DEF R, M
  <2>4. IsFiniteSet(R \X M) /\ Cardinality(R \X M) = Cardinality(R) * Cardinality(M)
    BY <2>1, <2>2, FS_Product
  <2>5. Cardinality(Recoveries(t)) <= Cardinality(R \X M) /\ Cardinality(Recoveries(t)) \in Nat
    <3> DEFINE P == R \X M
    <3> HIDE DEF P
    <3>1. Recoveries(t) \in SUBSET P /\ IsFiniteSet(P)
      BY <2>3, <2>4 DEF P
    <3>2. IsFiniteSet(Recoveries(t)) /\ Cardinality(Recoveries(t)) <= Cardinality(P)
      BY <3>1, FS_Subset
    <3> QED  BY <3>2, FS_CardinalityType DEF P
  <2>6. Cardinality(R) * Cardinality(M) = MaxStalls * Cardinality(R)
    <3>1. \A x, y \in Nat : x * y = y * x
      OBVIOUS
    <3> DEFINE p == Cardinality(R)
    <3>2. p \in Nat /\ MaxStalls \in Nat /\ Cardinality(M) = MaxStalls
      BY <2>1, <2>2, ConstantsAssumption
    <3> HIDE DEF p
    <3>3. p * MaxStalls = MaxStalls * p
      BY <3>1, <3>2
    <3> QED  BY <3>2, <3>3 DEF p
  <2>7. Cardinality(Chances(t)) \in Nat /\ runs[t] \in Nat
    <3>1. Chances(t) \in SUBSET (1 .. MaxAttempts)
      BY DEF Chances
    <3> QED  BY <1>1, <3>1, FiniteCounts DEF TypeOK
  <2>8. runs[t] + Cardinality(Chances(t)) <= 1 + Cardinality(Recoveries(t))
    BY <1>1 DEF RepeatInv, ChanceInv
  <2>9. runs[t] <= 1 + Cardinality(R \X M)
    <3>1. Cardinality(R \X M) \in Nat
      BY <2>4, FS_CardinalityType
    <3> QED  BY <2>5, <2>7, <2>8, <3>1
  <2> QED  BY <2>4, <2>6, <2>9 DEF R
<1> QED
  BY <1>1, InitTypes, NextTypes, InitChain, NextChain, InitWait, NextWait, InitEnd, NextEnd,
     InitRepeat, NextRepeat, PTL DEF Spec
=============================================================================
