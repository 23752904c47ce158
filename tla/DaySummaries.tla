---------------------------- MODULE DaySummaries ---------------------------
(***************************************************************************)
(* The nightly summaries of a chat's days (core/features/history/server/   *)
(* summarize.ts, summaries-repository.ts, source-store/content.ts).  A     *)
(* finished day is due when the number of messages it holds is not the     *)
(* number its marker recorded; a run asks again after every page until     *)
(* nothing new is due.  Topics and marker live in two stores and are       *)
(* written one after the other.  Passive extraction (features/memory/      *)
(* server/extract.ts) is a deliberate twin of this scan.                   *)
(***************************************************************************)
EXTENDS Naturals, FiniteSets

CONSTANTS
  NDays,     \* days of one chat, oldest first; the last is still running
  PageSize,  \* days fetched per scan (25 in the code)
  MaxDays,   \* days taken up in one run (2000 in the code)
  Busy,      \* bound: the days whose messages change
  MaxCount   \* bound: messages a day ever holds

Days == 1 .. NDays
NoMarker == MaxCount + 1
NoDay == 0

VARIABLES
  \* the stores
  count,     \* the visible messages of a day
  grown,     \* bound: messages a day has ever received
  topics,    \* how many messages the day's topics were built from (0: no topics)
  marker,    \* the count its marker recorded, or NoMarker
  today,     \* the day that is still running
  \* the run
  at,        \* where the run is
  page,      \* the days of the page still to be taken up
  day,       \* the day it is at
  read,      \* the count of the transcript it loaded
  done,      \* days summarized in this run
  bad,       \* days that failed in this run
  \* history
  torn       \* days whose topics were replaced and whose marker was not written

stores == <<count, grown, topics, marker, today>>
sweep == <<at, page, day, read, done, bad>>
dayVars == <<stores, sweep, torn>>

Init ==
  /\ count = [d \in Days |-> IF d = NDays THEN 0 ELSE 1]
  /\ grown = count
  /\ topics = [d \in Days |-> 0]
  /\ marker = [d \in Days |-> NoMarker]
  /\ today = NDays
  /\ at = "off" /\ page = {} /\ day = NoDay /\ read = 0 /\ done = 0 /\ bad = {}
  /\ torn = {}

-----------------------------------------------------------------------------
\* listDaysNeedingSummary, the oldest days first.
Due(d) == d < today /\ count[d] > 0 /\ marker[d] # count[d]
dueDays == {d \in Days : Due(d)}
listDue == {d \in dueDays : Cardinality({k \in dueDays : k < d}) < PageSize}

\* A message is mirrored: today, or into an older day by an import.
Arrive(d) ==
  /\ d \in Busy /\ d <= today /\ grown[d] < MaxCount
  /\ count' = [count EXCEPT ![d] = @ + 1]
  /\ grown' = [grown EXCEPT ![d] = @ + 1]
  /\ UNCHANGED <<topics, marker, today, sweep, torn>>

\* A message is deleted; the due-scan and the transcript leave it out.
Delete(d) ==
  /\ d \in Busy /\ count[d] > 0
  /\ count' = [count EXCEPT ![d] = @ - 1]
  /\ UNCHANGED <<grown, topics, marker, today, sweep, torn>>

Midnight ==
  /\ today = NDays
  /\ today' = today + 1
  /\ UNCHANGED <<count, grown, topics, marker, sweep, torn>>

StartRun ==
  /\ at = "off"
  /\ at' = "scanning"
  /\ UNCHANGED <<stores, page, day, read, done, bad, torn>>

\* The run is over: what it remembered goes with it.
Rest == at' = "off" /\ page' = {} /\ done' = 0 /\ bad' = {}

\* Days that failed still match the scan and are left out.
Scan ==
  /\ at = "scanning"
  /\ LET next == listDue \ bad
     IN IF done + Cardinality(bad) < MaxDays /\ next # {}
        THEN at' = "page" /\ page' = next /\ UNCHANGED <<done, bad>>
        ELSE Rest
  /\ UNCHANGED <<stores, day, read, torn>>

\* loadChatDayTranscript: the transcript and its count are one read.
Load ==
  /\ at = "page"
  /\ IF page = {}
     THEN at' = "scanning" /\ UNCHANGED <<page, day, read>>
     ELSE \E d \in page :
            /\ \A k \in page : d <= k
            /\ day' = d /\ read' = count[d] /\ page' = page \ {d}
            /\ at' = "loaded"
  /\ UNCHANGED <<stores, done, bad, torn>>

\* The passes answered (a day with nothing readable needs none): the topics of
\* the day are replaced.
ReplaceTopics ==
  /\ at = "loaded"
  /\ topics' = [topics EXCEPT ![day] = read]
  /\ torn' = torn \cup {day}
  /\ at' = "replaced"
  /\ UNCHANGED <<count, grown, marker, today, page, day, read, done, bad>>

\* Mutation: the marker records the count the day has by now.
StampCurrent ==
  /\ at = "replaced"
  /\ marker' = [marker EXCEPT ![day] = count[day]]
  /\ torn' = torn \ {day}
  /\ done' = done + 1
  /\ at' = "page" /\ day' = NoDay /\ read' = 0
  /\ UNCHANGED <<count, grown, topics, today, page, bad>>

\* The marker records the count of the transcript.
Stamp ==
  /\ at = "replaced"
  /\ marker' = [marker EXCEPT ![day] = read]
  /\ torn' = torn \ {day}
  /\ done' = done + 1
  /\ at' = "page" /\ day' = NoDay /\ read' = 0
  /\ UNCHANGED <<count, grown, topics, today, page, bad>>

\* A pass, the replace or the stamp throws.
DayFails ==
  /\ at \in {"loaded", "replaced"}
  /\ bad' = bad \cup {day}
  /\ at' = "page" /\ day' = NoDay /\ read' = 0
  /\ UNCHANGED <<stores, page, done, torn>>

\* The core restarts in the middle of a run (between two scans it is as if it
\* had at the end of the page).
Crash ==
  /\ at \in {"page", "loaded", "replaced"}
  /\ Rest /\ day' = NoDay /\ read' = 0
  /\ UNCHANGED <<stores, torn>>

RunStep == Scan \/ Load \/ ReplaceTopics \/ Stamp \/ DayFails

Next ==
  \/ \E d \in Days : Arrive(d) \/ Delete(d)
  \/ Midnight \/ StartRun \/ Crash \/ RunStep

\* Every await of a run settles.
Fairness == WF_dayVars(RunStep)

Spec == Init /\ [][Next]_dayVars /\ Fairness

-----------------------------------------------------------------------------
SummariesTypeOK ==
  /\ {count, grown, topics} \subseteq [Days -> 0 .. MaxCount]
  /\ marker \in [Days -> 0 .. NoMarker]
  /\ today \in {NDays, NDays + 1}
  /\ at \in {"off", "scanning", "page", "loaded", "replaced"}
  /\ page \subseteq Days /\ bad \subseteq Days /\ torn \subseteq Days
  /\ day \in Days \cup {NoDay} /\ (day # NoDay) = (at \in {"loaded", "replaced"})
  /\ read \in 0 .. MaxCount
  /\ done + Cardinality(bad) <= MaxDays + PageSize

\* A day that is not due has topics built from as many messages as it holds, so
\* messages that arrive while the model reads the day make it due again.  Not so
\* when its topics were replaced and its marker was lost on the way.
CountedDaysCovered ==
  \A d \in Days :
    d < today /\ count[d] > 0 /\ ~Due(d) => topics[d] = count[d] \/ d \in torn

\* A run that ends by itself leaves no due day but the ones that failed, as long
\* as fewer than a page of them did ("one bad day does not block the rest").
BadDayBlocksNone ==
  [][at = "scanning" /\ at' = "off"
     /\ Cardinality(bad) < PageSize /\ done + Cardinality(bad) < MaxDays
     => dueDays \subseteq bad]_dayVars

\* A run ends, whatever fails and whatever arrives meanwhile.
SweepEnds == at # "off" ~> at = "off"
=============================================================================
