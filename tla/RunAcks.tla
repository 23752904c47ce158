------------------------------ MODULE RunAcks -----------------------------
(***************************************************************************)
(* The "on it" acknowledgement of one agent run                            *)
(* (core/features/agents/server/ack.ts; the turn in core/server/turn/      *)
(* consume.ts, its send in transports/host/outbound.ts and send.ts; the    *)
(* runner in runner.ts).  The turn that enqueued the run sends its reply   *)
(* silently; the port may split it, and returns the id of the first part,  *)
(* the only one the turn registers.  The runner deletes what is registered *)
(* when the run ends.  Either may be first: a run that ends before the     *)
(* registration leaves a marker.                                           *)
(***************************************************************************)
EXTENDS Naturals, FiniteSets

CONSTANTS
  Chunks        \* a range 1 .. n: the most messages a turn sends

VARIABLES
  saying,       \* what the turn sends: its "answer", an error "notice", or it is "over"
  reply,        \* messages sent so far
  open,         \* the first message of the send under way, 0 for none
  run,          \* "on" until the outcome is delivered, then "over" and "taken"
  entry,        \* the entry of the run: "none", "ids", "settled"
  ids,          \* the messages an entry of ids names
  deleting,     \* messages the runner or the turn is deleting
  standing,     \* messages in the chat
  \* history
  named,        \* messages the turn learned the id of
  refused,      \* deletions the platform refused
  excused       \* no LLM, a restart, or an hour between the two halves

runVars == <<run, entry, ids, deleting>>
ackVars == <<saying, reply, open, runVars, standing, named, refused, excused>>

Init ==
  /\ saying = "answer" /\ reply = 0 /\ open = 0
  /\ run = "on" /\ entry = "none" /\ ids = {} /\ deleting = {}
  /\ standing = {} /\ named = {} /\ refused = {} /\ excused = FALSE

\* sendChatMessage: the next part of the text is in the chat; the id of the first is kept.
Send ==
  /\ saying # "over" /\ reply + 1 \in Chunks
  /\ reply' = reply + 1 /\ standing' = standing \cup {reply'}
  /\ open' = IF open = 0 THEN reply' ELSE open
  /\ UNCHANGED <<saying, runVars, named, refused, excused>>

\* A part is refused: the send throws, what went out stays, and no id comes back.  The
\* answer is followed by a notice of the error; the notice by nothing.
SendFails ==
  /\ saying # "over"
  /\ saying' = IF saying = "answer" THEN "notice" ELSE "over"
  /\ open' = 0
  /\ UNCHANGED <<reply, runVars, standing, named, refused, excused>>

\* sendVoice: a bubble, or the text its port falls back to; nobody registers its id.
Speak ==
  /\ saying = "answer" /\ reply = 0 /\ 1 \in Chunks
  /\ reply' = 1 /\ standing' = {1} /\ saying' = "over"
  /\ UNCHANGED <<open, runVars, named, refused, excused>>

\* Mutation: registered whatever the entry says.
RegisterAlways ==
  /\ open # 0
  /\ entry' = "ids" /\ ids' = ids \cup {open}
  /\ named' = named \cup {open} /\ open' = 0 /\ saying' = "over"
  /\ UNCHANGED <<reply, run, deleting, standing, refused, excused>>

\* The send is done: registerAgentRunAck with its first id.  One that is late the turn
\* deletes itself.
Register ==
  /\ open # 0
  /\ IF entry = "settled"
     THEN deleting' = deleting \cup {open} /\ UNCHANGED <<entry, ids>>
     ELSE entry' = "ids" /\ ids' = ids \cup {open} /\ UNCHANGED deleting
  /\ named' = named \cup {open} /\ open' = 0 /\ saying' = "over"
  /\ UNCHANGED <<reply, run, standing, refused, excused>>

\* A turn of a task says nothing itself.
SaysNothing ==
  /\ saying = "answer" /\ reply = 0
  /\ saying' = "over"
  /\ UNCHANGED <<reply, open, runVars, standing, named, refused, excused>>

\* The run has reported, or apologised.
RunReports ==
  /\ run = "on" /\ run' = "over"
  /\ UNCHANGED <<saying, reply, open, entry, ids, deleting, standing, named, refused, excused>>

\* No LLM: the run ends and leaves the entry alone.
RunBails ==
  /\ run = "on" /\ run' = "taken" /\ excused' = TRUE
  /\ UNCHANGED <<saying, reply, open, entry, ids, deleting, standing, named, refused>>

\* takeRunAck: the entry goes, or a marker stays.
Take ==
  /\ run = "over" /\ run' = "taken"
  /\ IF ids # {}
     THEN entry' = "none" /\ deleting' = deleting \cup ids
     ELSE entry' = "settled" /\ UNCHANGED deleting
  /\ ids' = {}
  /\ UNCHANGED <<saying, reply, open, standing, named, refused, excused>>

\* deleteMessage: done, or refused (too old) and left.
Delete(c) ==
  /\ c \in deleting /\ deleting' = deleting \ {c}
  /\ \/ standing' = standing \ {c} /\ UNCHANGED refused
     \/ refused' = refused \cup {c} /\ UNCHANGED standing
  /\ UNCHANGED <<saying, reply, open, run, entry, ids, named, excused>>

\* sweep: a marker is dropped after an hour.
Sweep ==
  /\ entry = "settled" /\ entry' = "none" /\ excused' = TRUE
  /\ UNCHANGED <<saying, reply, open, run, ids, deleting, standing, named, refused>>

\* The store is in memory.
Restart ==
  /\ run # "taken" \/ saying # "over"
  /\ run' = "taken" /\ saying' = "over" /\ open' = 0 /\ entry' = "none" /\ ids' = {}
  /\ deleting' = {} /\ excused' = TRUE
  /\ UNCHANGED <<reply, standing, named, refused>>

Next ==
  \/ Send \/ SendFails \/ Speak \/ Register \/ SaysNothing
  \/ RunReports \/ RunBails \/ Take
  \/ \E c \in Chunks : Delete(c)
  \/ Sweep \/ Restart

-----------------------------------------------------------------------------
AckTypeOK ==
  /\ saying \in {"answer", "notice", "over"}
  /\ reply \in Chunks \cup {0} /\ open \in 0 .. reply
  /\ run \in {"on", "over", "taken"} /\ entry \in {"none", "ids", "settled"}
  /\ (entry = "ids") = (ids # {})
  /\ deleting \cup ids \subseteq standing
  /\ ids \cap deleting = {}

\* When the turn and the run are over no acknowledgement stands that the turn learned
\* the id of, whichever was first ("an acknowledgement that arrives after the run
\* finished is deleted at registration instead of surviving forever"), unless a deletion
\* was refused, the core restarted, there was no LLM, or an hour went by; and none goes
\* while the run is on.  The later parts of a split text, those of a send that threw and
\* a voice bubble have no id the turn knows: the code leaves them.
NoAckStands ==
  ~excused =>
    /\ saying = "over" /\ run = "taken" /\ deleting = {} => standing \cap named \subseteq refused
    /\ run # "taken" => deleting = {} /\ named \subseteq standing
=============================================================================
