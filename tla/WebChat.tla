------------------------------- MODULE WebChat -------------------------------
(***************************************************************************)
(* One thread of the web chat (core/features/web-chat/server): the posts   *)
(* that store a message and open a turn, the turns with their progress and *)
(* their detached delivery, the name a thread gets, its deletion, and a    *)
(* browser tab that shows it (components/chat/ThreadsPage.tsx), told by    *)
(* pings to read it again.                                                 *)
(***************************************************************************)
EXTENDS Naturals, Sequences, FiniteSets, SequencesExt

CONSTANTS
  Posts,        \* the messages that are posted
  MaxNews,      \* bound on progress events, acknowledgements, renames and days, together
  MaxDrops,     \* bound on the losses of the stream, failed calls and restarts, together
  MaxLoads      \* how many reads the tab may have under way, 0 for no tab

VARIABLES
  name,       \* the thread's: "placeholder", "generated", "chosen", or "gone"
  rows,       \* its transcript, of [post, kind, live]
  aged,       \* how many of them, from the first, are older than HISTORY_WINDOW_MS
  deleting,   \* deleteChatThread is about to delete the row
  post,       \* [post |-> where its handler is]
  asked,      \* the posts that read the name as provisional
  since,      \* [post |-> aged, when it came]
  window,     \* [post |-> the rows it was given as its history]
  queue,      \* the turns that wait, in order
  turn,       \* the turn that runs, and where it is
  reply,      \* [post |-> where the delivery of its answer is]
  active,     \* ThreadTurns: the post being answered as far as the thread knows
  \* The tab.
  connected, timer,
  loads,      \* its reads, in the order they were started
  shown,      \* what it shows
  news, drops,
  \* What the properties remember.
  chosen,     \* a person gave the name
  overlapped, \* the posts that were handled while another was
  again,      \* the posts whose turn a restart cut off, and is run again
  behind,     \* why the tab may not have been told of the last change
  overtaken   \* an older read was shown over a newer one

store == <<name, rows, aged, deleting>>
handling == <<post, asked, since, window>>
answering == <<queue, turn, reply>>
tab == <<loads, shown, overtaken>>
chatVars == <<store, handling, answering, active, connected, timer, tab, news, drops,
              chosen, overlapped, again, behind>>

None == 0
NoTurn == [post |-> None, at |-> "none"]
Nothing == [rows |-> {}, turn |-> None, name |-> "none"]
InHandler == {p \in Posts : post[p] \in {"append", "window", "enqueue"}}
Live == {i \in DOMAIN rows : rows[i].live}
Exists == name # "gone"

\* createChatThread, without a name, and a tab that is about to read it.
Init ==
  /\ name = "placeholder" /\ rows = <<>> /\ aged = 0 /\ deleting = FALSE
  /\ post = [p \in Posts |-> "none"] /\ asked = {}
  /\ since = [p \in Posts |-> 0] /\ window = [p \in Posts |-> {}]
  /\ queue = <<>> /\ turn = NoTurn /\ reply = [p \in Posts |-> "none"]
  /\ active = None
  /\ connected = TRUE /\ timer = TRUE
  /\ loads = <<>> /\ shown = Nothing
  /\ news = 0 /\ drops = 0
  /\ chosen = FALSE /\ overlapped = {} /\ again = {} /\ behind = {} /\ overtaken = FALSE

\* pingThreads: the event arms the tab's debounce timer, if its stream is open.
Ping ==
  /\ timer' = (timer \/ connected)
  /\ behind' = IF connected THEN {} ELSE behind \cup {"lost"}
Quietly == UNCHANGED <<timer, behind>>

Line(p, kind) == rows' = Append(rows, [post |-> p, kind |-> kind, live |-> TRUE])

-----------------------------------------------------------------------------
\* postChatMessage: the thread is read ...
Post(p) ==
  /\ post[p] = "none" /\ Exists
  /\ post' = [post EXCEPT ![p] = "append"]
  /\ asked' = IF name = "placeholder" THEN asked \cup {p} ELSE asked
  /\ since' = [since EXCEPT ![p] = aged]
  /\ overlapped' = IF InHandler = {} THEN overlapped ELSE overlapped \cup InHandler \cup {p}
  /\ UNCHANGED <<store, window, answering, active, connected, tab, news, drops, chosen, again>>
  /\ Quietly

\* ... the message is stored, unless the thread is gone by then ...
AppendPost(p) ==
  /\ post[p] = "append"
  /\ \/ Exists /\ Line(p, "user") /\ post' = [post EXCEPT ![p] = "window"]
     \/ ~Exists /\ post' = [post EXCEPT ![p] = "failed"] /\ UNCHANGED rows
  /\ UNCHANGED <<name, aged, deleting, asked, since, window, answering, active, connected, tab, news,
                 drops, chosen, overlapped, again>>
  /\ Quietly

\* ... its attachment is kept or not, and the history of the last day is read, without
\* the message ...
BuildWindow(p) ==
  /\ post[p] = "window"
  /\ window' = [window EXCEPT ![p] =
                  {i \in Live : i > since[p] /\ (rows[i].post # p \/ rows[i].kind # "user")}]
  /\ post' = [post EXCEPT ![p] = "enqueue"]
  /\ UNCHANGED <<store, asked, since, answering, active, connected, tab, news, drops, chosen,
                 overlapped, again>>
  /\ Quietly

\* ... and the turn is queued.
Enqueue(p) ==
  /\ post[p] = "enqueue"
  /\ queue' = Append(queue, p)
  /\ post' = [post EXCEPT ![p] = "queued"]
  /\ Ping
  /\ UNCHANGED <<store, asked, since, window, turn, reply, active, connected, tab, news, drops,
                 chosen, overlapped, again>>

\* When the queue does not take it, the message stays behind and nobody is told.
EnqueueFails(p) ==
  /\ post[p] = "enqueue"
  /\ post' = [post EXCEPT ![p] = "failed"]
  /\ behind' = behind \cup {"unpinged"}
  /\ UNCHANGED <<store, asked, since, window, answering, active, connected, timer, tab, news, drops,
                 chosen, overlapped, again>>

\* A day goes by.
DayPasses ==
  /\ aged < Len(rows) /\ news < MaxNews /\ news' = news + 1
  /\ aged' = Len(rows)
  /\ UNCHANGED <<name, rows, deleting, handling, answering, active, connected, tab, drops,
                 chosen, overlapped, again>>
  /\ Quietly

-----------------------------------------------------------------------------
\* The turns of a thread run one after the other.
StartTurn ==
  /\ turn = NoTurn /\ queue # <<>>
  /\ turn' = [post |-> Head(queue), at |-> "start"] /\ queue' = Tail(queue)
  /\ UNCHANGED <<store, handling, reply, active, connected, tab, news, drops, chosen,
                 overlapped, again>>
  /\ Quietly

\* ThreadTurns.apply for accepted and progress: the last event is the thread's state.
Accepted ==
  /\ turn.at = "start"
  /\ turn' = [turn EXCEPT !.at = "run"]
  /\ active' = turn.post
  /\ Ping
  /\ UNCHANGED <<store, handling, queue, reply, connected, tab, news, drops, chosen, overlapped, again>>

Progress ==
  /\ turn.at = "run" /\ news < MaxNews /\ news' = news + 1
  /\ active' = turn.post
  /\ Ping
  /\ UNCHANGED <<store, handling, answering, connected, tab, drops, chosen, overlapped, again>>

\* sendMessage of the outbound port, for an acknowledgement, and deleteMessage for it.
Acknowledge ==
  /\ turn.at = "run" /\ Exists /\ news < MaxNews /\ news' = news + 1
  /\ Line(turn.post, "ack")
  /\ Ping
  /\ UNCHANGED <<name, aged, deleting, handling, answering, active, connected, tab, drops, chosen,
                 overlapped, again>>

Retract(i) ==
  /\ turn.at = "run" /\ rows[i].live /\ rows[i] = [post |-> turn.post, kind |-> "ack", live |-> TRUE]
  /\ rows' = [rows EXCEPT ![i].live = FALSE]
  /\ Ping
  /\ UNCHANGED <<name, aged, deleting, handling, answering, active, connected, tab, news, drops,
                 chosen, overlapped, again>>

\* publishTurnEvent: the delivery is detached and the turn goes on.  A thread that
\* asked for a name and had no history is named after its first answer.
HandOver ==
  /\ turn.at = "run"
  /\ reply' = [reply EXCEPT ![turn.post] = "handed"]
  /\ turn' = [turn EXCEPT !.at = IF turn.post \in asked /\ window[turn.post] = {}
                                 THEN "name" ELSE "settle"]
  /\ UNCHANGED <<store, handling, queue, active, connected, tab, news, drops, chosen, overlapped, again>>
  /\ Quietly

\* A turn may also end without an answer.
NoAnswer ==
  /\ turn.at \in {"start", "run"}
  /\ turn' = [turn EXCEPT !.at = "settle"]
  /\ UNCHANGED <<store, handling, queue, reply, active, connected, tab, news, drops, chosen,
                 overlapped, again>>
  /\ Quietly

\* Mutation: a generated title is stored over any name.
TitleOverAny == name' = IF Exists THEN "generated" ELSE name

\* setGeneratedTitle: only over the placeholder.
SetGeneratedTitle == name' = IF name = "placeholder" THEN "generated" ELSE name

\* nameConversation: the title is set, or there is none.
NameThread ==
  /\ turn.at = "name"
  /\ turn' = [turn EXCEPT !.at = "settle"]
  /\ \/ SetGeneratedTitle /\ (IF name' # name THEN Ping ELSE Quietly)
     \/ UNCHANGED name /\ Quietly
  /\ UNCHANGED <<rows, aged, deleting, handling, queue, reply, active, connected, tab, news, drops,
                 chosen, overlapped, again>>

Settle ==
  /\ turn.at = "settle"
  /\ turn' = NoTurn /\ active' = None
  /\ Ping
  /\ UNCHANGED <<store, handling, queue, reply, connected, tab, news, drops, chosen, overlapped, again>>

\* handleChatReplyDelivery: the thread is looked for, then the reply is stored, which
\* fails when the thread went in between.
Look(p) ==
  /\ reply[p] = "handed"
  /\ reply' = [reply EXCEPT ![p] = IF Exists THEN "found" ELSE "dropped"]
  /\ UNCHANGED <<store, handling, queue, turn, active, connected, tab, news, drops, chosen,
                 overlapped, again>>
  /\ Quietly

StoreReply(p) ==
  /\ reply[p] = "found"
  /\ \/ Exists /\ Line(p, "reply") /\ Ping /\ reply' = [reply EXCEPT ![p] = "stored"]
     \/ ~Exists /\ UNCHANGED rows /\ Quietly /\ reply' = [reply EXCEPT ![p] = "dropped"]
  /\ UNCHANGED <<name, aged, deleting, handling, queue, turn, active, connected, tab, news, drops,
                 chosen, overlapped, again>>

Mishap == drops < MaxDrops /\ drops' = drops + 1

\* Either call throws: the error is the deliver trace's, the turn has gone on.
DeliveryFails(p) ==
  /\ reply[p] \in {"handed", "found"} /\ Mishap
  /\ reply' = [reply EXCEPT ![p] = "lost"]
  /\ UNCHANGED <<store, handling, queue, turn, active, connected, tab, news, chosen,
                 overlapped, again>>
  /\ Quietly

-----------------------------------------------------------------------------
\* renameChatThread.
Rename ==
  /\ Exists /\ news < MaxNews /\ news' = news + 1
  /\ name' = "chosen" /\ chosen' = TRUE
  /\ Ping
  /\ UNCHANGED <<rows, aged, deleting, handling, answering, active, connected, tab, drops, overlapped, again>>

\* deleteChatThread: the turn is forgotten, then the row goes with the transcript.
Delete ==
  /\ Exists /\ ~deleting
  /\ deleting' = TRUE /\ active' = None
  /\ UNCHANGED <<name, rows, aged, handling, answering, connected, tab, news, drops, chosen, overlapped, again>>
  /\ Quietly

DeleteRow ==
  /\ deleting
  /\ deleting' = FALSE /\ name' = "gone" /\ rows' = <<>> /\ aged' = 0
  /\ Ping
  /\ UNCHANGED <<handling, answering, active, connected, tab, news, drops, chosen, overlapped, again>>

-----------------------------------------------------------------------------
\* The event stream is lost, and comes back without what was published meanwhile.
Drop ==
  /\ connected /\ Mishap
  /\ connected' = FALSE
  /\ UNCHANGED <<store, handling, answering, active, tab, news, chosen, overlapped, again>>
  /\ Quietly

Reconnect ==
  /\ ~connected /\ connected' = TRUE
  /\ UNCHANGED <<store, handling, answering, active, tab, news, drops, chosen, overlapped, again>>
  /\ Quietly

StartLoad == loads' = Append(loads, [at |-> "rows", was |-> Nothing, old |-> FALSE])

\* The debounce runs out: load().
TimerFires ==
  /\ timer /\ timer' = FALSE /\ Len(loads) < MaxLoads
  /\ StartLoad
  /\ UNCHANGED <<store, handling, answering, active, connected, shown, overtaken, news, drops,
                 chosen, overlapped, again, behind>>

\* getChatThread: the transcript, then the turn.
ReadRows(l) ==
  /\ loads[l].at = "rows"
  /\ loads' = [loads EXCEPT ![l].at = IF Exists THEN "turn" ELSE "answer",
                            ![l].was = [rows |-> Live, turn |-> None, name |-> name]]
  /\ UNCHANGED <<store, handling, answering, active, connected, shown, overtaken, news, drops,
                 chosen, overlapped, again>>
  /\ Quietly

ReadTurn(l) ==
  /\ loads[l].at = "turn"
  /\ loads' = [loads EXCEPT ![l].at = "answer", ![l].was.turn = active]
  /\ UNCHANGED <<store, handling, answering, active, connected, shown, overtaken, news, drops,
                 chosen, overlapped, again>>
  /\ Quietly

\* The answer is shown, whatever was shown since the read was started.
Show(l) ==
  /\ loads[l].at = "answer"
  /\ shown' = loads[l].was
  /\ overtaken' = loads[l].old
  /\ loads' = RemoveAt([i \in DOMAIN loads |->
                          IF i < l THEN [loads[i] EXCEPT !.old = TRUE] ELSE loads[i]], l)
  /\ UNCHANGED <<store, handling, answering, active, connected, news, drops, chosen, overlapped, again>>
  /\ Quietly

\* It fails: the tab stays as it was, and is behind if no other read is to come.
LoadFails(l) ==
  /\ Mishap
  /\ loads' = RemoveAt(loads, l)
  /\ behind' = IF timer \/ l < Len(loads) THEN behind ELSE behind \cup {"unread"}
  /\ UNCHANGED <<store, handling, answering, active, connected, timer, shown, overtaken, news,
                 chosen, overlapped, again>>

\* The core restarts: handlers, deliveries, reads and the stream are cut, the threads'
\* progress is forgotten, and the turn that ran is run again, at once or after those
\* that wait, or it is not (TurnConsumer).
RunAgain(p) ==
  /\ \/ turn' = [turn EXCEPT !.at = "start"] /\ UNCHANGED queue
     \/ turn' = NoTurn /\ queue' = Append(queue, p)
  /\ again' = again \cup {p}

CutReplies ==
  [p \in Posts |-> IF reply[p] \in {"handed", "found"} THEN "lost" ELSE reply[p]]

Restart ==
  /\ Mishap
  /\ post' = [p \in Posts |-> IF p \in InHandler THEN "failed" ELSE post[p]]
  /\ \/ /\ turn # NoTurn /\ RunAgain(turn.post)
        /\ reply' = [CutReplies EXCEPT ![turn.post] = "none"]
     \/ turn' = NoTurn /\ reply' = CutReplies /\ UNCHANGED <<queue, again>>
  /\ deleting' = FALSE /\ active' = None /\ loads' = <<>>
  /\ connected' = FALSE /\ behind' = behind \cup {"lost"}
  /\ UNCHANGED <<name, rows, aged, asked, since, window, timer, shown, overtaken, news, chosen,
                 overlapped>>

Next ==
  \/ \E p \in Posts :
       \/ Post(p) \/ AppendPost(p) \/ BuildWindow(p) \/ Enqueue(p) \/ EnqueueFails(p)
       \/ Look(p) \/ StoreReply(p) \/ DeliveryFails(p)
  \/ StartTurn \/ Accepted \/ Progress \/ Acknowledge \/ HandOver \/ NoAnswer \/ NameThread
  \/ Settle
  \/ \E i \in DOMAIN rows : Retract(i)
  \/ Rename \/ Delete \/ DeleteRow \/ DayPasses \/ Restart
  \/ Drop \/ Reconnect \/ TimerFires
  \/ \E l \in DOMAIN loads : ReadRows(l) \/ ReadTurn(l) \/ Show(l) \/ LoadFails(l)

-----------------------------------------------------------------------------
ChatTypeOK ==
  /\ name \in {"placeholder", "generated", "chosen", "gone"}
  /\ ToSet(queue) \subseteq Posts /\ active \in Posts \cup {None}
  /\ asked \subseteq Posts /\ Len(loads) <= MaxLoads
  /\ \A i \in DOMAIN rows : rows[i].post \in Posts /\ rows[i].kind \in {"user", "ack", "reply"}

\* When nothing is on its way to the tab, it shows the thread as it is stored, unless
\* its stream lost the last ping, an older read was shown over a newer one, the last
\* read failed, or a message was stored whose turn was not queued.
Settled == ~timer /\ loads = <<>> /\ InHandler = {} /\ ~deleting
ShownIsStored ==
  Settled /\ behind = {} /\ ~overtaken =>
    /\ shown.name = name
    /\ Exists => shown.rows = Live /\ shown.turn = active

\* "Thinking" is shown for the turn that runs: a settled one is not left standing, and
\* neither the turn after it nor a deletion in between is taken for it.
ThinkingIsRunning == active # None => turn.post = active

\* A name a person chose stays, whichever title comes late.
ChosenNameStays == chosen => name \in {"chosen", "gone"}

\* Posts that did not overlap are answered in the order of the transcript, a turn that
\* is run again aside, and with every line of the last day before their own that was not
\* retracted, and no message after it.
RowOf(p) == CHOOSE i \in DOMAIN rows : rows[i].post = p /\ rows[i].kind = "user"
PostsInOrder ==
  Exists =>
    /\ \A i, j \in DOMAIN queue :
         i < j /\ queue[i] \notin overlapped /\ queue[j] \notin again =>
           RowOf(queue[i]) < RowOf(queue[j])
    /\ \A p \in Posts \ overlapped : post[p] = "queued" =>
         /\ \A i \in Live : since[p] < i /\ i < RowOf(p) => i \in window[p]
         /\ \A i \in window[p] : rows[i].kind = "user" => i < RowOf(p)

\* An answer that was handed over is in the thread, or its delivery failed (a restart
\* included), or the thread is gone; and it is there once, unless its turn was run again.
RepliesOf(p) == {i \in Live : rows[i].post = p /\ rows[i].kind = "reply"}
RepliesLand ==
  \A p \in Posts :
    /\ reply[p] = "stored" /\ Exists => RepliesOf(p) # {}
    /\ p \notin again => Cardinality(RepliesOf(p)) <= 1
    /\ p \notin again /\ reply[p] # "stored" => RepliesOf(p) = {}
    /\ reply[p] = "dropped" => ~Exists
=============================================================================
