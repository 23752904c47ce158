------------------------------ MODULE Feedback ------------------------------
(***************************************************************************)
(* What a reaction to a reply teaches (core/features/self-improvement/     *)
(* server, rows in core/server/source-store/feedbacks.ts): a reaction opens*)
(* a row, or opens it again, and posts a menu; a press or a free text      *)
(* answers it; the answer is reflected on, and folded once a day into the  *)
(* person's preferences and into the corrections.  Reactions and texts come*)
(* through the chain of their chat, presses straight from the platform, the*)
(* learning is detached, the fold is a daily job: each reads a row, awaits,*)
(* and writes by the id of the row.                                        *)
(*                                                                         *)
(* One chat and one person.  Deduplicated receipts of a reaction do not    *)
(* come here; one that the cache has forgotten is a reaction like any.     *)
(***************************************************************************)
EXTENDS Naturals, FiniteSets, Sequences

CONSTANTS
  Replies,       \* the messages of the assistant that are rated
  AtOnce,        \* presses under way together
  MaxReactions,  \* bound
  MaxAnswers,    \* bound on presses and texts
  MaxRuns,       \* bound on runs of the daily job
  MaxMishaps     \* bound on crashes, failed sends, edits, folds and stamps, lost events

Slots == 1..AtOnce
Menus == 1..MaxReactions
Answers == 1..MaxAnswers
Folds == {"prefs", "corrections"}
NoRow == [status |-> "none"]
NoPress == [at |-> "idle"]

VARIABLES
  row,        \* [reply |-> its feedback, or NoRow]
  menus,      \* the menus in the chat: [id, of, sign, keys]
  chain,      \* the reaction or text the chat's chain handles
  press,      \* [slot |-> the press it handles]
  learner,    \* [answer |-> where its feedback.recorded is handled]
  run,        \* the daily job
  reactions, pressed, runs, mishaps,
  \* What the properties remember.
  answers,    \* the answers that were stored, of [of, topic, sign]
  given,      \* [reply |-> the answers since it was opened]
  folded,     \* [fold |-> [answer |-> the versions it went into]]
  crossed,    \* replies whose row a handler wrote that another one had read
  stale,      \* replies whose row changed under a reflection or a fold
  astray,     \* replies whose reaction got no menu the row knows
  cutShort    \* answers whose version was written and their stamp was not

counters == <<reactions, pressed, runs, mishaps>>
memory == <<answers, given, folded, crossed, stale, astray, cutShort>>
feedbackVars ==
  <<row, menus, chain, press, learner, run, counters, memory>>

NoRun == [at |-> "idle", bare |-> {}, prefs |-> {}, corrections |-> {}, todo |-> {}]

Init ==
  /\ row = [f \in Replies |-> NoRow] /\ menus = {} /\ chain = NoPress
  /\ press = [p \in Slots |-> NoPress]
  /\ learner = [n \in Answers |-> [at |-> "none"]] /\ run = NoRun
  /\ reactions = 0 /\ pressed = 0 /\ runs = 0 /\ mishaps = 0
  /\ answers = <<>>
  /\ given = [f \in Replies |-> {}]
  /\ folded = [k \in Folds |-> [n \in Answers |-> 0]]
  /\ crossed = {} /\ stale = {} /\ astray = {} /\ cutShort = {}

Opened == {f \in Replies : row[f] # NoRow}
Stored == DOMAIN answers
Mishap == mishaps < MaxMishaps /\ mishaps' = mishaps + 1

\* Who has read row f and will write it, or what it read of it.
Handlers(f) ==
  {p \in Slots : press[p].at = "write" /\ press[p].of = f}
  \cup {0 : c \in {c \in {chain} : c.at = "write" /\ c.of = f}}
Copies(f) ==
  \/ \E n \in Stored : learner[n].at = "reflecting" /\ answers[n].of = f
  \/ \E c \in run.bare \cup run.prefs \cup run.corrections \cup run.todo : c.of = f

\* Handler h (0 for the chain) writes row f.
Writes(h, f) ==
  /\ crossed' = IF Handlers(f) \subseteq {h} THEN crossed ELSE crossed \cup {f}
  /\ stale' = IF Copies(f) THEN stale \cup {f} ELSE stale

-----------------------------------------------------------------------------
\* Mutation: a row that is opened again keeps its stamps and its reflection.
Reopened(f, sign) ==
  IF row[f] = NoRow
  THEN [status |-> "pending", sign |-> sign, topic |-> "quality", answer |-> 0, menu |-> 0,
        reflection |-> 0, stamped |-> {}]
  ELSE [row[f] EXCEPT !.status = "pending", !.sign = sign, !.answer = 0, !.menu = 0]

\* upsertSourceFeedback: the row is new, or as good as new.
Upserted(f, sign) ==
  [status |-> "pending", sign |-> sign, topic |-> "quality", answer |-> 0, menu |-> 0,
   reflection |-> 0, stamped |-> {}]

\* processReactionUpdate, up to the menu.
React(f, sign) ==
  /\ chain.at = "idle" /\ reactions < MaxReactions /\ reactions' = reactions + 1
  /\ row' = [row EXCEPT ![f] = Upserted(f, sign)]
  /\ chain' = [at |-> "menu", of |-> f, id |-> reactions', sign |-> sign]
  /\ given' = [given EXCEPT ![f] = {}]
  /\ crossed' = IF Handlers(f) = {} THEN crossed \ {f} ELSE crossed \cup {f}
  /\ stale' = IF Copies(f) THEN stale \cup {f} ELSE stale \ {f}
  /\ astray' = astray \ {f}
  /\ UNCHANGED <<menus, press, learner, run, pressed, runs, mishaps, answers, folded,
                 cutShort>>

\* The menu is in the chat and can be pressed before the row knows it.
SendMenu ==
  /\ chain.at = "menu"
  /\ menus' = menus \cup {[id |-> chain.id, of |-> chain.of, sign |-> chain.sign, keys |-> TRUE]}
  /\ chain' = [chain EXCEPT !.at = "set"]
  /\ UNCHANGED <<row, press, learner, run, counters, memory>>

SendMenuFails ==
  /\ chain.at = "menu" /\ Mishap
  /\ chain' = NoPress /\ astray' = astray \cup {chain.of}
  /\ UNCHANGED <<row, menus, press, learner, run, reactions, pressed, runs, answers, given,
                 folded, crossed, stale, cutShort>>

\* setSourceFeedbackMenuMessage
SetMenu ==
  /\ chain.at = "set"
  /\ row' = [row EXCEPT ![chain.of].menu = chain.id]
  /\ chain' = NoPress
  /\ UNCHANGED <<menus, press, learner, run, counters, memory>>

\* completeSourceFeedback, by handler h: answer n, whatever became of the row.
Complete(h, f, topic, sign) ==
  LET n == Len(answers) + 1 IN
  /\ row' = [row EXCEPT ![f].status = "completed", ![f].topic = topic, ![f].answer = n]
  /\ answers' = Append(answers, [of |-> f, topic |-> topic, sign |-> sign])
  /\ given' = [given EXCEPT ![f] = @ \cup {n}]
  /\ Writes(h, f)
  /\ UNCHANGED <<folded, astray, cutShort>>

\* The menu goes, unless the platform refuses.
DeleteMenu(id) == \E m \in {{}, {id}} : menus' = {x \in menus : x.id \notin m}

\* publishRecorded: the learning starts, or the event is lost.
Tell(n) ==
  \/ learner' = [learner EXCEPT ![n].at = "recorded"] /\ UNCHANGED mishaps
  \/ Mishap /\ UNCHANGED learner

\* captureFeedbackReply: a text that answers the menu of a row that awaits one.
Text(m) ==
  /\ chain.at = "idle" /\ pressed < MaxAnswers /\ m \in menus
  /\ row[m.of].status = "awaiting_text" /\ row[m.of].menu = m.id
  /\ pressed' = pressed + 1
  /\ chain' = [at |-> "write", of |-> m.of, id |-> m.id]
  /\ UNCHANGED <<row, menus, press, learner, run, reactions, runs, mishaps, memory>>

TextStored ==
  /\ chain.at = "write"
  /\ Complete(0, chain.of, "quality", "any")
  /\ chain' = [at |-> "tell", id |-> chain.id, n |-> Len(answers) + 1]
  /\ UNCHANGED <<menus, press, learner, run, counters>>

TextTold ==
  /\ chain.at = "tell"
  /\ DeleteMenu(chain.id) /\ Tell(chain.n)
  /\ chain' = NoPress
  /\ UNCHANGED <<row, press, run, reactions, pressed, runs, memory>>
-----------------------------------------------------------------------------
\* Mutation: a completed row takes another answer.
AnyRow(f) == TRUE

\* handleMenuPress takes a press for a row that is not completed.
Takes(f) == row[f].status # "completed"

\* handleMenuPress reads the row.  A button is an option both signs have, the last
\* of the dislikes, or "other"; what it stands for is read off the row's sign.
Press(p, m, button) ==
  /\ press[p].at = "idle" /\ pressed < MaxAnswers
  /\ m \in menus /\ m.keys /\ Takes(m.of)
  /\ button = "last" => m.sign = "down" /\ row[m.of].sign = "down"
  /\ pressed' = pressed + 1
  /\ press' = [press EXCEPT ![p] =
       [at |-> "write", of |-> m.of, id |-> m.id, button |-> button, sign |-> row[m.of].sign]]
  /\ UNCHANGED <<row, menus, chain, learner, run, reactions, runs, mishaps, memory>>

\* A predefined option is the answer; topicForAnswer reads its topic off the text.
OptionStored(p) ==
  /\ press[p].at = "write" /\ press[p].button # "other"
  /\ Complete(p, press[p].of, IF press[p].button = "last" THEN "addressing" ELSE "quality",
              press[p].sign)
  /\ press' = [press EXCEPT ![p] = [at |-> "tell", id |-> press[p].id,
                                    n |-> Len(answers) + 1]]
  /\ UNCHANGED <<menus, chain, learner, run, counters>>

OptionTold(p) ==
  /\ press[p].at = "tell"
  /\ DeleteMenu(press[p].id) /\ Tell(press[p].n)
  /\ press' = [press EXCEPT ![p] = NoPress]
  /\ UNCHANGED <<row, chain, run, reactions, pressed, runs, memory>>

\* markSourceFeedbackAwaitingText, whatever became of the row.
OtherStored(p) ==
  /\ press[p].at = "write" /\ press[p].button = "other"
  /\ row' = [row EXCEPT ![press[p].of].status = "awaiting_text"]
  /\ Writes(p, press[p].of)
  /\ press' = [press EXCEPT ![p] = [at |-> "edit", id |-> press[p].id]]
  /\ UNCHANGED <<menus, chain, learner, run, counters, answers, given, folded, astray, cutShort>>

\* editMenu: the menu that was pressed asks for a text.
OtherAsked(p) ==
  /\ press[p].at = "edit"
  /\ menus' = {IF m.id = press[p].id THEN [m EXCEPT !.keys = FALSE] ELSE m : m \in menus}
  /\ press' = [press EXCEPT ![p] = NoPress]
  /\ UNCHANGED <<row, chain, learner, run, counters, memory>>

OtherNotAsked(p) ==
  /\ press[p].at = "edit" /\ Mishap
  /\ press' = [press EXCEPT ![p] = NoPress]
  /\ UNCHANGED <<row, menus, chain, learner, run, reactions, pressed, runs, memory>>
-----------------------------------------------------------------------------
\* handleFeedbackRecorded reads the row: a report about addressing is filed, an
\* answer is reflected on, a row without one is left alone.
Learn(n) ==
  /\ learner[n].at = "recorded"
  /\ LET r == row[answers[n].of] IN
       learner' = [learner EXCEPT ![n] =
         IF r.topic = "addressing" THEN [at |-> "filed", n |-> r.answer]
         ELSE IF r.status = "completed" THEN [at |-> "reflecting", n |-> r.answer]
         ELSE [at |-> "done"]]
  /\ UNCHANGED <<row, menus, chain, press, run, counters, memory>>

\* reflectOnFeedback: the reflection lands on the row, or there is none.
Reflected(n) ==
  /\ learner[n].at = "reflecting"
  /\ \/ row' = [row EXCEPT ![answers[n].of].reflection = learner[n].n]
     \/ UNCHANGED row
  /\ learner' = [learner EXCEPT ![n] = [at |-> "done"]]
  /\ UNCHANGED <<menus, chain, press, run, counters, memory>>
-----------------------------------------------------------------------------
\* listUnincorporatedSourceFeedbacks
Backlog(k) ==
  {[of |-> f, n |-> row[f].answer] :
     f \in {f \in Opened : row[f].status = "completed" /\ row[f].topic = "quality"
                           /\ k \notin row[f].stamped}}

\* runSelfImprovement: both backlogs, and those among them without a reflection.
RunStarts ==
  /\ run.at = "idle" /\ runs < MaxRuns /\ runs' = runs + 1
  /\ Backlog("prefs") \cup Backlog("corrections") # {}
  /\ run' = [at |-> "prefs", prefs |-> Backlog("prefs"), corrections |-> Backlog("corrections"),
             bare |-> {c \in Backlog("prefs") \cup Backlog("corrections") :
                         row[c.of].reflection = 0},
             todo |-> {}]
  /\ UNCHANGED <<row, menus, chain, press, learner, reactions, pressed, mishaps, memory>>

\* Pass 0: the missing reflections.
Backfill(c) ==
  /\ c \in run.bare
  /\ run' = [run EXCEPT !.bare = @ \ {c}]
  /\ \/ row' = [row EXCEPT ![c.of].reflection = c.n]
     \/ UNCHANGED row
  /\ UNCHANGED <<menus, chain, press, learner, counters, memory>>

\* Passes 1 and 2: a call for each; those that came back are in the new version.
Fold(k) ==
  /\ run.at = k /\ run.bare = {} /\ run.todo = {} /\ run[k] # {}
  /\ \E done \in SUBSET run[k] :
       /\ IF done = run[k] THEN UNCHANGED mishaps ELSE Mishap
       /\ run' = [run EXCEPT ![k] = {}, !.todo = done]
       /\ folded' = [folded EXCEPT ![k] =
            [n \in Answers |-> IF \E c \in done : c.n = n THEN @[n] + 1 ELSE @[n]]]
  /\ UNCHANGED <<row, menus, chain, press, learner, reactions, pressed, runs, answers, given,
                 crossed, stale, astray, cutShort>>

\* Mutation: the stamp of the other fold.
StampPrefs(k) == "prefs"

\* The stamp of a fold.
StampOf(k) == k

\* stampVersions: one row at a time.
Stamp(c) ==
  /\ c \in run.todo
  /\ run' = [run EXCEPT !.todo = @ \ {c}]
  /\ row' = [row EXCEPT ![c.of].stamped = @ \cup {StampOf(run.at)}]
  /\ UNCHANGED <<menus, chain, press, learner, counters, memory>>

NextPass ==
  /\ run.at \in Folds /\ run.bare = {} /\ run.todo = {} /\ run[run.at] = {}
  /\ run' = IF run.at = "prefs" THEN [run EXCEPT !.at = "corrections"] ELSE NoRun
  /\ UNCHANGED <<row, menus, chain, press, learner, counters, memory>>

\* A write of the run fails, and the run with it.
RunFails ==
  /\ run.at # "idle" /\ Mishap
  /\ run' = NoRun /\ cutShort' = cutShort \cup {c.n : c \in run.todo}
  /\ UNCHANGED <<row, menus, chain, press, learner, reactions, pressed, runs, answers, given,
                 folded, crossed, stale, astray>>

\* Everything under way is in memory.
Crash ==
  /\ Mishap
  /\ chain # NoPress \/ run # NoRun \/ \E p \in Slots : press[p] # NoPress
       \/ \E n \in Answers : learner[n].at \in {"recorded", "reflecting"}
  /\ chain' = NoPress /\ press' = [p \in Slots |-> NoPress] /\ run' = NoRun
  /\ learner' = [n \in Answers |-> IF learner[n].at = "filed" THEN learner[n] ELSE [at |-> "none"]]
  /\ astray' = IF chain.at \in {"menu", "set"} THEN astray \cup {chain.of} ELSE astray
  /\ cutShort' = cutShort \cup {c.n : c \in run.todo}
  /\ UNCHANGED <<row, menus, reactions, pressed, runs, answers, given, folded, crossed, stale>>

Next ==
  \/ \E f \in Replies, sign \in {"up", "down"} : React(f, sign)
  \/ SendMenu \/ SendMenuFails \/ SetMenu
  \/ \E m \in menus : Text(m)
  \/ TextStored \/ TextTold
  \/ \E p \in Slots :
       \/ \E m \in menus, button \in {"option", "last", "other"} : Press(p, m, button)
       \/ OptionStored(p) \/ OptionTold(p) \/ OtherStored(p) \/ OtherAsked(p) \/ OtherNotAsked(p)
  \/ \E n \in Answers : Learn(n) \/ Reflected(n)
  \/ RunStarts \/ NextPass \/ RunFails \/ Crash
  \/ \E c \in run.bare : Backfill(c)
  \/ \E k \in Folds : Fold(k)
  \/ \E c \in run.todo : Stamp(c)

-----------------------------------------------------------------------------
FeedbackTypeOK ==
  /\ \A f \in Opened :
       /\ row[f].status \in {"pending", "awaiting_text", "completed"}
       /\ row[f].sign \in {"up", "down"} /\ row[f].topic \in {"quality", "addressing"}
       /\ row[f].answer \in Stored \cup {0} /\ row[f].menu \in Menus \cup {0}
       /\ row[f].reflection \in Stored \cup {0} /\ row[f].stamped \subseteq Folds
  /\ \A m \in menus : m.of \in Opened /\ m.id \in Menus /\ m.keys \in BOOLEAN
  /\ \A n \in Answers : learner[n].at # "none" => n \in Stored

\* An answer stands: the row has it, it is the only one since the reaction, and its
\* text is one of the reaction the row shows, unless two handlers crossed.
AnswerStands ==
  \A f \in Opened \ crossed :
    /\ given[f] # {} <=> row[f].status = "completed"
    /\ given[f] = {row[f].answer} \ {0}
    /\ \A n \in given[f] : answers[n].sign \in {"any", row[f].sign}

\* A row that still asks can be answered: by a button, or by a text that answers the
\* menu it knows, or the reaction's menu is on its way.
StillAnswerable ==
  \A f \in Opened \ (crossed \cup astray) :
    row[f].status = "awaiting_text" =>
      \/ chain.at \in {"menu", "set"} /\ chain.of = f
      \/ \E m \in menus : m.of = f /\ (m.keys \/ m.id = row[f].menu)

\* "the fresh answer is reflected on and picked up by the next incorporation run": a
\* stamp and a reflection on a row are about the answer it has, unless the row
\* changed under the fold or the reflection.
LearntIsSaid ==
  \A f \in Opened \ (stale \cup crossed) :
    /\ \A k \in row[f].stamped : row[f].answer # 0 /\ folded[k][row[f].answer] > 0
    /\ row[f].reflection \in {0, row[f].answer}

\* An answer goes into one version of each fold, unless the stamp failed after it, and
\* a report about addressing into none: only that one becomes an exclusion.
FoldedOnce ==
  \A n \in Stored :
    /\ \A k \in Folds : n \notin cutShort => folded[k][n] <= 1
    /\ answers[n].topic = "addressing" => \A k \in Folds : folded[k][n] = 0
    /\ learner[n].at = "filed" => answers[learner[n].n].topic = "addressing"

FeedbackKept == AnswerStands /\ StillAnswerable /\ LearntIsSaid /\ FoldedOnce
=============================================================================
