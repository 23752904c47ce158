---------------------------- MODULE PriorityGate ----------------------------
(***************************************************************************)
(* The gate every request to the shared LLM endpoint goes through:         *)
(* withLlmPriority of core/server/llm/priority.ts.  A call that cannot go  *)
(* waits on a promise; a finished call resolves one, and the woken call    *)
(* checks again some microtasks later, when another may have come first.   *)
(***************************************************************************)
EXTENDS Naturals, Sequences, FiniteSets

CONSTANTS
  Interactive,  \* the interactive calls
  Background,   \* the background calls
  Cap           \* MAX_INTERACTIVE_IN_FLIGHT, 4 in the code

ASSUME GateAssumption ==
  /\ Cap \in Nat \ {0}
  /\ IsFiniteSet(Interactive) /\ IsFiniteSet(Background)
  /\ Interactive \cap Background = {}

Calls == Interactive \cup Background

VARIABLES
  state,               \* "new", "waiting", "woken", "running" or "done"
  interactiveInFlight,
  backgroundBusy,
  waiters,             \* background calls waiting on their promises
  interactiveWaiters   \* interactive ones

vars == <<state, interactiveInFlight, backgroundBusy, waiters, interactiveWaiters>>

GateInit ==
  /\ state = [c \in Calls |-> "new"]
  /\ interactiveInFlight = 0 /\ backgroundBusy = FALSE
  /\ waiters = <<>> /\ interactiveWaiters = <<>>

\* A call checks the gate when it is made and whenever it has been woken.
AtGate(c) == state[c] \in {"new", "woken"}

Full == interactiveInFlight >= Cap

\* Mutation: a background call looks at the interactive calls only.
NotQuietForPeople == interactiveInFlight > 0

\* Mutation: a background call lets those that queued before it go first.
NotQuietBehindOthers == interactiveInFlight > 0 \/ backgroundBusy \/ waiters # <<>>

NotQuiet == interactiveInFlight > 0 \/ backgroundBusy

QueueInteractive(i) ==
  /\ AtGate(i) /\ Full
  /\ state' = [state EXCEPT ![i] = "waiting"]
  /\ interactiveWaiters' = Append(interactiveWaiters, i)
  /\ UNCHANGED <<interactiveInFlight, backgroundBusy, waiters>>

DispatchInteractive(i) ==
  /\ AtGate(i) /\ ~Full
  /\ state' = [state EXCEPT ![i] = "running"]
  /\ interactiveInFlight' = interactiveInFlight + 1
  /\ UNCHANGED <<backgroundBusy, waiters, interactiveWaiters>>

QueueBackground(b) ==
  /\ AtGate(b) /\ NotQuiet
  /\ state' = [state EXCEPT ![b] = "waiting"]
  /\ waiters' = Append(waiters, b)
  /\ UNCHANGED <<interactiveInFlight, backgroundBusy, interactiveWaiters>>

DispatchBackground(b) ==
  /\ AtGate(b) /\ ~NotQuiet
  /\ state' = [state EXCEPT ![b] = "running"]
  /\ backgroundBusy' = TRUE
  /\ UNCHANGED <<interactiveInFlight, waiters, interactiveWaiters>>

\* Mutation: only an interactive call is ever woken by an interactive one.
ReleaseSameKind(c) ==
  IF ~(interactiveInFlight' >= Cap) /\ interactiveWaiters # <<>>
  THEN /\ state' = [state EXCEPT ![c] = "done", ![Head(interactiveWaiters)] = "woken"]
       /\ interactiveWaiters' = Tail(interactiveWaiters)
       /\ UNCHANGED waiters
  ELSE /\ state' = [state EXCEPT ![c] = "done"]
       /\ UNCHANGED <<waiters, interactiveWaiters>>

\* releaseNext, after call `c` left the wire: an interactive call if a slot is
\* free, otherwise a background call once the endpoint is quiet.
ReleaseNext(c) ==
  \/ /\ interactiveInFlight' < Cap /\ interactiveWaiters # <<>>
     /\ state' = [state EXCEPT ![c] = "done", ![Head(interactiveWaiters)] = "woken"]
     /\ interactiveWaiters' = Tail(interactiveWaiters)
     /\ UNCHANGED waiters
  \/ /\ interactiveInFlight' >= Cap \/ interactiveWaiters = <<>>
     /\ interactiveInFlight' = 0 /\ ~backgroundBusy' /\ waiters # <<>>
     /\ state' = [state EXCEPT ![c] = "done", ![Head(waiters)] = "woken"]
     /\ waiters' = Tail(waiters)
     /\ UNCHANGED interactiveWaiters
  \/ /\ interactiveInFlight' >= Cap \/ interactiveWaiters = <<>>
     /\ interactiveInFlight' > 0 \/ backgroundBusy' \/ waiters = <<>>
     /\ state' = [state EXCEPT ![c] = "done"]
     /\ UNCHANGED <<waiters, interactiveWaiters>>

\* The request settles, with an answer or an error.
FinishInteractive(i) ==
  /\ state[i] = "running"
  /\ interactiveInFlight' = interactiveInFlight - 1
  /\ UNCHANGED backgroundBusy
  /\ ReleaseNext(i)

FinishBackground(b) ==
  /\ state[b] = "running"
  /\ backgroundBusy' = FALSE
  /\ UNCHANGED interactiveInFlight
  /\ ReleaseNext(b)

InteractiveStep(i) == QueueInteractive(i) \/ DispatchInteractive(i) \/ FinishInteractive(i)
BackgroundStep(b) == QueueBackground(b) \/ DispatchBackground(b) \/ FinishBackground(b)

GateNext ==
  \/ \E i \in Interactive : InteractiveStep(i)
  \/ \E b \in Background : BackgroundStep(b)

\* The event loop runs every woken call, and every request settles: the HTTP
\* timeout runs from its dispatch.
GateFairness ==
  /\ \A i \in Interactive : WF_vars(InteractiveStep(i))
  /\ \A b \in Background : WF_vars(BackgroundStep(b))

GateSpec == GateInit /\ [][GateNext]_vars /\ GateFairness

(***************************************************************************)
(* Properties.                                                             *)
(***************************************************************************)

States == {"new", "waiting", "woken", "running", "done"}

\* Type correctness: no more than Cap interactive calls are on the wire.
TypeOK ==
  /\ state \in [Calls -> States]
  /\ interactiveInFlight \in 0 .. Cap
  /\ backgroundBusy \in BOOLEAN
  /\ waiters \in Seq(Background)
  /\ interactiveWaiters \in Seq(Interactive)

Woken(kind) == {c \in kind : state[c] = "woken"}

\* The store agrees with the calls: the counter with those on the wire, the flag
\* with the one background call, and each queue with its waiting calls.
StoreAgrees ==
  /\ interactiveInFlight = Cardinality({i \in Interactive : state[i] = "running"})
  /\ \A b, d \in Background : state[b] = "running" /\ state[d] = "running" => b = d
  /\ backgroundBusy <=> \E b \in Background : state[b] = "running"
  /\ \A c \in Calls : state[c] = "waiting" <=>
       \E k \in DOMAIN waiters \cup DOMAIN interactiveWaiters :
         \/ k \in DOMAIN waiters /\ waiters[k] = c
         \/ k \in DOMAIN interactiveWaiters /\ interactiveWaiters[k] = c

\* No wake-up is lost, although a call that comes between a wake-up and the
\* woken call's check may take what it was woken for: an interactive call waits
\* only while the slots are taken or promised, a background call only while
\* something runs or has been woken that will wake the next.
NoLostWakeup ==
  /\ interactiveWaiters # <<>> =>
       interactiveInFlight + Cardinality(Woken(Interactive)) >= Cap
  /\ waiters # <<>> => NotQuiet \/ Woken(Calls) # {}

\* Every call is answered once the calls stop coming: nobody waits for ever.
EveryCallRuns == \A c \in Calls : <>(state[c] = "done")
=============================================================================
