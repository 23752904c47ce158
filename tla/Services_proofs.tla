--------------------------- MODULE Services_proofs ---------------------------
(***************************************************************************)
(* Theorems about the services around the turns: the memory, the insights, *)
(* the identity links with their codes and accounts, the model roles, the  *)
(* feedback on replies, and the web chat, whose invariant is here.         *)
(***************************************************************************)
EXTENDS Services, ServiceRecords_proofs, SequenceTheorems

-----------------------------------------------------------------------------
\* The web chat.

\* The names a thread has, the lines, the turns, what is shown and the reads.
ThreadNames == {"placeholder", "generated", "chosen", "gone"}
LineSet == [post : Posts, kind : {"user", "ack", "reply"}, live : BOOLEAN]
TurnSet == {CH!NoTurn} \cup [post : Posts, at : {"start", "run", "name", "settle"}]
ViewSet == [rows : SUBSET Nat, turn : Posts \cup {CH!None}, name : ThreadNames \cup {"none"}]
LoadSet == [at : {"rows", "turn", "answer"}, was : ViewSet, old : BOOLEAN]

ChatTypes ==
  /\ name \in ThreadNames /\ rows \in Seq(LineSet) /\ deleting \in BOOLEAN
  /\ post \in [Posts -> {"none", "append", "window", "enqueue", "queued", "failed"}]
  /\ asked \subseteq Posts /\ since \in [Posts -> Nat] /\ window \in [Posts -> SUBSET Nat]
  /\ aged \in Nat
  /\ queue \in Seq(Posts) /\ turn \in TurnSet
  /\ reply \in [Posts -> {"none", "handed", "found", "stored", "dropped", "lost"}]
  /\ active \in Posts \cup {CH!None}
  /\ connected \in BOOLEAN /\ timer \in BOOLEAN
  /\ loads \in Seq(LoadSet) /\ Len(loads) <= MaxLoads /\ shown \in ViewSet
  /\ overtaken \in BOOLEAN /\ chosen \in BOOLEAN
  /\ overlapped \subseteq Posts /\ again \subseteq Posts

\* A post is queued once, and answered by one turn.
PostTurns ==
  /\ \A i \in DOMAIN queue : post[queue[i]] = "queued" /\ reply[queue[i]] = "none"
  /\ \A i, j \in DOMAIN queue : queue[i] = queue[j] => i = j
  /\ turn.post # CH!None =>
       /\ post[turn.post] = "queued" /\ \A i \in DOMAIN queue : queue[i] # turn.post
       /\ turn.at \in {"start", "run"} => reply[turn.post] = "none"
  /\ \A p \in Posts : post[p] # "queued" => reply[p] = "none"

\* Each message is in the transcript once, and each answer of a turn not run again.
IsLine(i, p, kind) == i \in DOMAIN rows /\ rows[i].post = p /\ rows[i].kind = kind
Transcript ==
  /\ \A p \in Posts, kind \in {"user", "reply"} :
          kind = "user" \/ p \notin again => \A i, j \in DOMAIN rows :
       IsLine(i, p, kind) /\ IsLine(j, p, kind) => i = j
  /\ \A p \in Posts : \A i \in DOMAIN rows :
       /\ IsLine(i, p, "user") => post[p] \in {"window", "enqueue", "queued", "failed"}
       /\ IsLine(i, p, "reply") => (reply[p] = "stored" \/ p \in again) /\ rows[i].live
  /\ CH!Exists => \A p \in Posts :
       /\ post[p] \in {"window", "enqueue", "queued"} => \E i \in DOMAIN rows : IsLine(i, p, "user")
       /\ reply[p] = "stored" => \E i \in DOMAIN rows : IsLine(i, p, "reply")
       /\ reply[p] # "dropped"
  /\ ~CH!Exists => rows = <<>>

\* A handler nobody overlapped is alone.
HandlersAlone == \A p, q \in CH!InHandler : p \notin overlapped => p = q

\* Its message is the last until its turn is queued, and what its window has.
Before(p, q) ==
  \A i, j \in DOMAIN rows : IsLine(i, p, "user") /\ IsLine(j, q, "user") => i < j
HasWindow(p) ==
  /\ window[p] \subseteq DOMAIN rows
  /\ \A i, j \in DOMAIN rows : IsLine(i, p, "user") =>
       /\ rows[j].live /\ since[p] < j /\ j < i => j \in window[p]
       /\ j \in window[p] /\ rows[j].kind = "user" => j < i
InOrder ==
  CH!Exists =>
    /\ \A i, j \in DOMAIN queue :
         i < j /\ queue[i] \notin overlapped /\ queue[j] \notin again => Before(queue[i], queue[j])
    /\ \A p, q \in Posts :
         post[p] = "queued" /\ p \notin overlapped /\ post[q] \in {"window", "enqueue"} => Before(p, q)
    /\ \A p \in Posts \ overlapped : post[p] = "window" =>
         \A i, j \in DOMAIN rows : IsLine(i, p, "user") /\ rows[j].kind = "user" => j <= i
    /\ \A p \in Posts \ overlapped : post[p] \in {"enqueue", "queued"} => HasWindow(p)

\* A read that was overtaken is older than all that were not.
OldReads == \A i, j \in DOMAIN loads : i < j /\ loads[j].old => loads[i].old

\* What the last read has, or what is shown, is what is stored, as long as no ping
\* came since and none is owed.
Owed == deleting \/ \E p \in Posts : post[p] \in {"window", "enqueue"}
Tells(view) ==
  ~Owed => view.name = name /\ (CH!Exists => view.rows = CH!Live /\ view.turn = active)
ToTell(load) ==
  /\ load.at = "turn" /\ ~Owed => load.was.name = name /\ (CH!Exists => load.was.rows = CH!Live)
  /\ load.at = "answer" => Tells(load.was)
ViewTells ==
  ~timer /\ behind = {} =>
    /\ loads = <<>> /\ ~overtaken => Tells(shown)
    /\ loads # <<>> /\ ~loads[Len(loads)].old => ToTell(loads[Len(loads)])

ChatInv ==
  /\ ChatTypes /\ PostTurns /\ Transcript /\ HandlersAlone /\ InOrder /\ OldReads /\ ViewTells
  /\ CH!ThinkingIsRunning /\ CH!ChosenNameStays

\* A line is appended to the transcript.
LEMMA LineAppended ==
  ASSUME NEW S, rows \in Seq(S), NEW line \in S, rows' = Append(rows, line)
  PROVE  /\ rows' \in Seq(S) /\ DOMAIN rows = 1..Len(rows) /\ Len(rows) \in Nat
         /\ DOMAIN rows' = DOMAIN rows \cup {Len(rows) + 1} /\ Len(rows) + 1 \notin DOMAIN rows
         /\ rows'[Len(rows) + 1] = line /\ \A i \in DOMAIN rows : rows'[i] = rows[i]
         /\ \A i \in DOMAIN rows : i \in Nat /\ i < Len(rows) + 1
<1>1. /\ rows' \in Seq(S) /\ Len(rows') = Len(rows) + 1 /\ rows'[Len(rows) + 1] = line
      /\ \A i \in 1..Len(rows) : rows'[i] = rows[i]
  BY AppendProperties
<1>2. DOMAIN rows = 1..Len(rows) /\ Len(rows) \in Nat /\ DOMAIN rows' = 1..Len(rows')
  BY <1>1, LenProperties
<1> QED  BY <1>1, <1>2

\* A turn is queued.
LEMMA TurnQueued ==
  ASSUME NEW p \in Posts, queue \in Seq(Posts), queue' = Append(queue, p)
  PROVE  /\ queue' \in Seq(Posts) /\ DOMAIN queue = 1..Len(queue) /\ Len(queue) \in Nat
         /\ DOMAIN queue' = DOMAIN queue \cup {Len(queue) + 1}
         /\ queue'[Len(queue) + 1] = p /\ \A i \in DOMAIN queue : queue'[i] = queue[i]
<1>1. /\ queue' \in Seq(Posts) /\ Len(queue') = Len(queue) + 1 /\ queue'[Len(queue) + 1] = p
      /\ \A i \in 1..Len(queue) : queue'[i] = queue[i]
  BY AppendProperties
<1>2. DOMAIN queue = 1..Len(queue) /\ Len(queue) \in Nat /\ DOMAIN queue' = 1..Len(queue')
  BY <1>1, LenProperties
<1> QED  BY <1>1, <1>2

\* The first is taken.
LEMMA TurnTaken ==
  ASSUME queue \in Seq(Posts), queue # <<>>, queue' = Tail(queue)
  PROVE  /\ queue' \in Seq(Posts) /\ 1 \in DOMAIN queue /\ Head(queue) = queue[1]
         /\ DOMAIN queue \subseteq Nat /\ DOMAIN queue' \subseteq Nat
         /\ \A i \in DOMAIN queue' : i + 1 \in DOMAIN queue /\ i + 1 > 1 /\ queue'[i] = queue[i + 1]
<1>1. /\ queue' \in Seq(Posts) /\ Len(queue') = Len(queue) - 1
      /\ \A i \in 1..Len(queue') : queue'[i] = queue[i + 1]
  BY HeadTailProperties
<1>2. DOMAIN queue = 1..Len(queue) /\ Len(queue) \in Nat /\ DOMAIN queue' = 1..Len(queue')
  BY <1>1, LenProperties
<1>3. Len(queue) # 0
  BY EmptySeq
<1>4. Head(queue) = queue[1]
  BY <1>3 DEF Head
<1> QED  BY <1>1, <1>2, <1>3, <1>4

\* A read is started.
LEMMA ReadStarted ==
  ASSUME loads \in Seq(LoadSet), NEW load \in LoadSet, loads' = Append(loads, load)
  PROVE  /\ loads' \in Seq(LoadSet) /\ Len(loads') = Len(loads) + 1 /\ Len(loads) \in Nat
         /\ DOMAIN loads = 1..Len(loads) /\ DOMAIN loads' = 1..(Len(loads) + 1)
         /\ loads'[Len(loads) + 1] = load /\ \A i \in DOMAIN loads : loads'[i] = loads[i]
<1>1. /\ loads' \in Seq(LoadSet) /\ Len(loads') = Len(loads) + 1 /\ loads'[Len(loads) + 1] = load
      /\ \A i \in 1..Len(loads) : loads'[i] = loads[i]
  BY AppendProperties
<1>2. DOMAIN loads = 1..Len(loads) /\ Len(loads) \in Nat /\ DOMAIN loads' = 1..Len(loads')
  BY <1>1, LenProperties
<1> QED  BY <1>1, <1>2

\* The reads are numbered.
LEMMA LoadFacts ==
  ASSUME ChatTypes
  PROVE  /\ DOMAIN loads = 1..Len(loads) /\ Len(loads) \in Nat
         /\ \A l \in DOMAIN loads : loads[l] \in LoadSet
         /\ loads # <<>> <=> Len(loads) \in DOMAIN loads
<1>1. DOMAIN loads = 1..Len(loads) /\ Len(loads) \in Nat /\ loads \in Seq(LoadSet)
  BY LenProperties DEF ChatTypes
<1>2. loads = <<>> <=> Len(loads) = 0
  BY <1>1, EmptySeq
<1>3. \A l \in DOMAIN loads : loads[l] \in LoadSet
  BY <1>1, ElementOfSeq
<1> QED  BY <1>1, <1>2, <1>3

\* So are the lines.
LEMMA LineFacts ==
  ASSUME ChatTypes
  PROVE  /\ DOMAIN rows = 1..Len(rows) /\ Len(rows) \in Nat
         /\ \A i \in DOMAIN rows : rows[i] \in LineSet /\ i \in Nat
         /\ CH!Live \in SUBSET Nat
<1>1. DOMAIN rows = 1..Len(rows) /\ Len(rows) \in Nat /\ rows \in Seq(LineSet)
  BY LenProperties DEF ChatTypes
<1>2. \A i \in DOMAIN rows : rows[i] \in LineSet
  BY <1>1, ElementOfSeq
<1> QED  BY <1>1, <1>2 DEF CH!Live

\* A read is over, and the others move up.
LEMMA ReadOver ==
  ASSUME NEW s \in Seq(LoadSet), NEW l \in 1..Len(s), loads' = CH!RemoveAt(s, l)
  PROVE  /\ loads' \in Seq(LoadSet) /\ Len(loads') = Len(s) - 1
         /\ DOMAIN loads' = 1..(Len(s) - 1)
         /\ \A i \in 1..(Len(s) - 1) : loads'[i] = IF i < l THEN s[i] ELSE s[i + 1]
<1> DEFINE n == Len(s)
           a == SubSeq(s, 1, l - 1)
           b == SubSeq(s, l + 1, n)
<1>1. n \in Nat /\ l \in 1..n
  BY LenProperties
<1>2. loads' = a \o b
  BY DEF CH!RemoveAt
<1>7. a \in Seq(LoadSet) /\ Len(a) = l - 1 /\ \A i \in 1..(l - 1) : a[i] = s[i]
  BY <1>1, SubSeqProperties
<1>8. b \in Seq(LoadSet) /\ Len(b) = n - l /\ \A i \in 1..(n - l) : b[i] = s[l + i]
  BY <1>1, SubSeqProperties
<1> HIDE DEF a, b
<1>9. /\ loads' \in Seq(LoadSet) /\ Len(loads') = n - 1
      /\ \A i \in 1..(n - 1) : loads'[i] = IF i <= l - 1 THEN a[i] ELSE b[i - (l - 1)]
  <2>1. /\ a \o b \in Seq(LoadSet) /\ Len(a \o b) = Len(a) + Len(b)
        /\ \A i \in 1..(Len(a) + Len(b)) : (a \o b)[i] = IF i <= Len(a) THEN a[i] ELSE b[i - Len(a)]
    BY <1>7, <1>8, ConcatProperties
  <2>2. (l - 1) + (n - l) = n - 1
    BY <1>1
  <2> QED  BY <2>1, <2>2, <1>2, <1>7, <1>8
<1>10. DOMAIN loads' = 1..(n - 1)
  BY <1>9, LenProperties
<1>11. ASSUME NEW i \in 1..(n - 1)
       PROVE  loads'[i] = IF i < l THEN s[i] ELSE s[i + 1]
  <2>1. CASE i < l
    <3>1. i \in 1..(l - 1) /\ i <= l - 1
      BY <2>1, <1>1
    <3> QED  BY <3>1, <1>7, <1>9, <2>1
  <2>2. CASE ~(i < l)
    <3>1. i - (l - 1) \in 1..(n - l) /\ ~(i <= l - 1) /\ l + (i - (l - 1)) = i + 1
      BY <2>2, <1>1
    <3> QED  BY <3>1, <1>8, <1>9, <2>2
  <2> QED  BY <2>1, <2>2
<1> QED  BY <1>9, <1>10, <1>11

\* An answer is taken from the reads.
LEMMA ReadAnswered ==
  ASSUME ChatTypes, NEW l \in DOMAIN loads,
         loads' = CH!RemoveAt([i \in DOMAIN loads |->
                              IF i < l THEN [loads[i] EXCEPT !.old = TRUE] ELSE loads[i]], l)
  PROVE  /\ loads' \in Seq(LoadSet) /\ Len(loads') = Len(loads) - 1
         /\ DOMAIN loads' = 1..(Len(loads) - 1) /\ Len(loads) \in Nat /\ l \in 1..Len(loads)
         /\ \A i \in 1..(Len(loads) - 1) :
              loads'[i] = IF i < l THEN [loads[i] EXCEPT !.old = TRUE] ELSE loads[i + 1]
<1> DEFINE s == [i \in DOMAIN loads |-> IF i < l THEN [loads[i] EXCEPT !.old = TRUE] ELSE loads[i]]
           n == Len(loads)
<1>1. n \in Nat /\ DOMAIN loads = 1..n /\ l \in 1..n /\ \A i \in 1..n : loads[i] \in LoadSet
  BY LoadFacts
<1>2. \A i \in 1..n : [loads[i] EXCEPT !.old = TRUE] \in LoadSet
  BY <1>1 DEF LoadSet
<1>3. \A i \in 1..n : s[i] \in LoadSet
  BY <1>1, <1>2
<1>4. s \in Seq(LoadSet) /\ Len(s) = n
  <2>1. s = [i \in 1..n |-> s[i]]
    BY <1>1
  <2> HIDE DEF s
  <2>2. s \in [1..n -> LoadSet]
    BY <2>1, <1>3
  <2>3. s \in Seq(LoadSet)
    BY <2>2, <1>1, SeqDef
  <2> QED  BY <2>1, <2>2, <2>3, <1>1, LenProperties
<1>5. loads' = CH!RemoveAt(s, l)
  OBVIOUS
<1>6. \A i \in 1..n : s[i] = IF i < l THEN [loads[i] EXCEPT !.old = TRUE] ELSE loads[i]
  BY <1>1
<1> HIDE DEF s
<1>7. /\ loads' \in Seq(LoadSet) /\ Len(loads') = n - 1 /\ DOMAIN loads' = 1..(n - 1)
      /\ \A i \in 1..(n - 1) : loads'[i] = IF i < l THEN s[i] ELSE s[i + 1]
  BY <1>1, <1>4, <1>5, ReadOver
<1>8. \A i \in 1..(n - 1) : i \in 1..n /\ i + 1 \in 1..n /\ (~(i < l) => ~(i + 1 < l))
  BY <1>1
<1> QED  BY <1>1, <1>6, <1>7, <1>8

\* One fails.
LEMMA ReadGone ==
  ASSUME ChatTypes, NEW l \in DOMAIN loads, loads' = CH!RemoveAt(loads, l)
  PROVE  /\ loads' \in Seq(LoadSet) /\ Len(loads') = Len(loads) - 1
         /\ DOMAIN loads' = 1..(Len(loads) - 1) /\ Len(loads) \in Nat /\ l \in 1..Len(loads)
         /\ \A i \in 1..(Len(loads) - 1) : loads'[i] = IF i < l THEN loads[i] ELSE loads[i + 1]
<1>1. loads \in Seq(LoadSet) /\ l \in 1..Len(loads) /\ Len(loads) \in Nat
  BY LoadFacts DEF ChatTypes
<1> QED  BY <1>1, ReadOver

\* One handler goes on.
LEMMA PostSetAt ==
  ASSUME ChatTypes, NEW p \in Posts, NEW v \in {"none", "append", "window", "enqueue", "queued", "failed"},
         post' = [post EXCEPT ![p] = v]
  PROVE  /\ post' \in [Posts -> {"none", "append", "window", "enqueue", "queued", "failed"}]
         /\ post'[p] = v /\ \A q \in Posts \ {p} : post'[q] = post[q]
BY DEF ChatTypes

\* One delivery goes on.
LEMMA ReplySetAt ==
  ASSUME ChatTypes, NEW p \in Posts, NEW v \in {"none", "handed", "found", "stored", "dropped", "lost"},
         reply' = [reply EXCEPT ![p] = v]
  PROVE  /\ reply' \in [Posts -> {"none", "handed", "found", "stored", "dropped", "lost"}]
         /\ reply'[p] = v /\ \A q \in Posts \ {p} : reply'[q] = reply[q]
BY DEF ChatTypes

\* The turn is of a post, or there is none.
LEMMA ChatTurnFacts ==
  ASSUME ChatTypes
  PROVE  /\ turn.post \in Posts \cup {CH!None} /\ turn.at \in {"none", "start", "run", "name", "settle"}
         /\ turn.at # "none" => turn \in [post : Posts, at : {"start", "run", "name", "settle"}]
         /\ turn.at # "none" <=> turn.post # CH!None
BY ChatAssumption DEF ChatTypes, TurnSet, CH!NoTurn, CH!None

\* The turn goes on.
LEMMA TurnAt ==
  ASSUME ChatTypes, turn.at # "none", NEW v \in {"start", "run", "name", "settle"},
         turn' = [turn EXCEPT !.at = v]
  PROVE  turn' \in TurnSet /\ turn'.post = turn.post /\ turn'.at = v /\ turn.post \in Posts
BY ChatTurnFacts DEF TurnSet

\* What a read has.
LEMMA ViewIn ==
  ASSUME NEW V \in SUBSET Nat, NEW t \in Posts \cup {CH!None}, NEW n \in ThreadNames \cup {"none"}
  PROVE  [rows |-> V, turn |-> t, name |-> n] \in ViewSet
BY DEF ViewSet

\* After a ping nothing is said of the view: a read will come, or the ping was lost.
LEMMA ViewPinged ==
  ASSUME ChatTypes, CH!Ping
  PROVE  ViewTells' /\ timer' \in BOOLEAN
<1>1. timer' \in BOOLEAN
  BY DEF ChatTypes, CH!Ping
<1>2. ~(~timer' /\ behind' = {})
  BY DEF ChatTypes, CH!Ping
<1> QED  BY <1>1, <1>2 DEF ViewTells

\* A view tells what it told as long as what is stored stays, or a ping is owed.
LEMMA ViewOwed ==
  ASSUME NEW v, ~Owed' => ~Owed /\ UNCHANGED <<name, rows, active>>
  PROVE  /\ Tells(v) => Tells(v)'
         /\ ToTell(v) => ToTell(v)'
<1>1. Tells(v) => Tells(v)'
  <2> SUFFICES ASSUME ~Owed', Tells(v)
               PROVE  Tells(v)'
    BY DEF Tells
  <2>1. ~Owed /\ name' = name /\ rows' = rows /\ active' = active
    OBVIOUS
  <2> QED  BY <2>1 DEF Tells, CH!Exists, CH!Live
<1>2. ToTell(v) => ToTell(v)'
  <2> SUFFICES ASSUME ToTell(v)
               PROVE  ToTell(v)'
    OBVIOUS
  <2>1. v.at = "answer" => Tells(v.was)'
    <3>1. Tells(v.was) => Tells(v.was)'
      <4> SUFFICES ASSUME ~Owed', Tells(v.was)
                   PROVE  Tells(v.was)'
        BY DEF Tells
      <4>1. ~Owed /\ name' = name /\ rows' = rows /\ active' = active
        OBVIOUS
      <4> QED  BY <4>1 DEF Tells, CH!Exists, CH!Live
    <3> QED  BY <3>1 DEF ToTell
  <2>2. v.at = "turn" /\ ~Owed' => v.was.name = name' /\ (CH!Exists' => v.was.rows = CH!Live')
    <3> SUFFICES ASSUME v.at = "turn", ~Owed'
                 PROVE  v.was.name = name' /\ (CH!Exists' => v.was.rows = CH!Live')
      OBVIOUS
    <3>1. ~Owed /\ name' = name /\ rows' = rows
      OBVIOUS
    <3> QED  BY <3>1 DEF ToTell, CH!Exists, CH!Live
  <2> QED  BY <2>1, <2>2 DEF ToTell
<1> QED  BY <1>1, <1>2

\* The views stay.
LEMMA ViewQuiet ==
  ASSUME ViewTells, CH!Quietly, UNCHANGED CH!tab,
         ~Owed' => ~Owed /\ UNCHANGED <<name, rows, active>>
  PROVE  ViewTells'
<1>1. /\ timer' = timer /\ behind' = behind
      /\ loads' = loads /\ shown' = shown /\ overtaken' = overtaken
  BY DEF CH!Quietly, CH!tab
<1>2. Tells(shown) => Tells(shown)'
  <2>1. \A v : Tells(v) => Tells(v)'
    BY ViewOwed
  <2> QED  BY <2>1, <1>1 DEF Tells
<1>3. ToTell(loads[Len(loads)]) => ToTell(loads[Len(loads)])'
  <2>1. \A v : ToTell(v) => ToTell(v)'
    BY ViewOwed
  <2> QED  BY <2>1, <1>1 DEF ToTell, Tells
<1> QED  BY <1>1, <1>2, <1>3 DEF ViewTells

\* The transcript, as long as nobody writes it.
LEMMA TranscriptStays ==
  ASSUME Transcript, UNCHANGED <<name, rows>>, again \subseteq again',
         \A p \in Posts :
           /\ post[p] \in {"window", "enqueue", "queued", "failed"} =>
                post'[p] \in {"window", "enqueue", "queued", "failed"}
           /\ post'[p] \in {"window", "enqueue", "queued"} =>
                post[p] \in {"window", "enqueue", "queued"}
           /\ reply'[p] = "stored" => reply[p] = "stored"
           /\ reply[p] = "stored" => reply'[p] = "stored" \/ p \in again'
           /\ CH!Exists => reply'[p] # "dropped"
  PROVE  Transcript'
<1>1. CH!Exists' = CH!Exists /\ name' = name /\ rows' = rows
  BY DEF CH!Exists
<1>2. \A p \in Posts, kind \in {"user", "reply"} :
       kind = "user" \/ p \notin again' => \A i, j \in DOMAIN rows :
       IsLine(i, p, kind) /\ IsLine(j, p, kind) => i = j
  BY DEF Transcript
<1>3. \A p \in Posts : \A i \in DOMAIN rows :
        /\ IsLine(i, p, "user") => post'[p] \in {"window", "enqueue", "queued", "failed"}
        /\ IsLine(i, p, "reply") => (reply'[p] = "stored" \/ p \in again') /\ rows[i].live
  BY DEF Transcript
<1>4. CH!Exists => \A p \in Posts :
       /\ post'[p] \in {"window", "enqueue", "queued"} => \E i \in DOMAIN rows : IsLine(i, p, "user")
       /\ reply'[p] = "stored" => \E i \in DOMAIN rows : IsLine(i, p, "reply")
       /\ reply'[p] # "dropped"
  BY DEF Transcript
<1>5. ~CH!Exists => rows = <<>>
  BY DEF Transcript
<1>6. \A i, p, kind : IsLine(i, p, kind)' <=> IsLine(i, p, kind)
  BY <1>1 DEF IsLine
<1> QED  BY <1>1, <1>2, <1>3, <1>4, <1>5, <1>6 DEF Transcript

\* The order stays.
LEMMA OrderStays ==
  ASSUME InOrder, HandlersAlone, UNCHANGED <<name, rows, queue, since, window, post, again>>,
         overlapped' = overlapped
  PROVE  InOrder' /\ HandlersAlone'
<1>1. \A i, p, kind : IsLine(i, p, kind)' <=> IsLine(i, p, kind)
  BY DEF IsLine
<1>2. \A p, q : Before(p, q)' <=> Before(p, q)
  BY <1>1 DEF Before
<1>3. \A p : HasWindow(p)' <=> HasWindow(p)
  BY <1>1 DEF HasWindow
<1>4. CH!Exists' = CH!Exists
  BY DEF CH!Exists
<1>5. InOrder'
  BY <1>1, <1>2, <1>3, <1>4 DEF InOrder
<1>6. HandlersAlone'
  BY DEF HandlersAlone, CH!InHandler
<1> QED  BY <1>5, <1>6

\* What is said of the turns does not read the rest.
LEMMA TurnsStay ==
  ASSUME PostTurns, UNCHANGED <<queue, turn, post, reply>>
  PROVE  PostTurns'
BY DEF PostTurns

\* The reads stay.
LEMMA LoadsStay ==
  ASSUME OldReads, UNCHANGED CH!tab
  PROVE  OldReads'
BY DEF OldReads, CH!tab

\* A line of some kind is appended.
LEMMA Lined ==
  ASSUME ChatTypes, NEW p \in Posts, NEW kind \in {"user", "ack", "reply"}, CH!Line(p, kind)
  PROVE  /\ rows' \in Seq(LineSet) /\ DOMAIN rows' = DOMAIN rows \cup {Len(rows) + 1}
         /\ Len(rows) + 1 \in Nat /\ Len(rows) + 1 \notin DOMAIN rows
         /\ rows'[Len(rows) + 1].post = p /\ rows'[Len(rows) + 1].kind = kind
         /\ rows'[Len(rows) + 1].live = TRUE
         /\ \A i \in DOMAIN rows : i \in Nat /\ rows'[i] = rows[i] /\ i < Len(rows) + 1
         /\ CH!Live' = CH!Live \cup {Len(rows) + 1}
         /\ \A i, q, k : IsLine(i, q, k)' <=>
              IsLine(i, q, k) \/ (i = Len(rows) + 1 /\ q = p /\ k = kind)
<1> DEFINE line == [post |-> p, kind |-> kind, live |-> TRUE]
           n == Len(rows) + 1
<1>1. line \in LineSet /\ line.post = p /\ line.kind = kind /\ line.live = TRUE
  BY DEF LineSet
<1>2. rows \in Seq(LineSet) /\ rows' = Append(rows, line)
  BY DEF ChatTypes, CH!Line
<1> HIDE DEF line
<1>3. /\ rows' \in Seq(LineSet) /\ DOMAIN rows' = DOMAIN rows \cup {n} /\ n \notin DOMAIN rows
      /\ n \in Nat /\ rows'[n] = line
      /\ \A i \in DOMAIN rows : i \in Nat /\ rows'[i] = rows[i] /\ i < n
  BY <1>1, <1>2, LineAppended
<1> HIDE DEF n
<1>4. CH!Live' = CH!Live \cup {n}
  BY <1>1, <1>3 DEF CH!Live
<1>5. \A i, q, k : IsLine(i, q, k)' <=> IsLine(i, q, k) \/ (i = n /\ q = p /\ k = kind)
  BY <1>1, <1>3 DEF IsLine
<1> QED  BY <1>1, <1>3, <1>4, <1>5 DEF n

\* The order stays while no handler goes on and more of them overlap.
LEMMA OrderNarrows ==
  ASSUME InOrder, UNCHANGED <<name, rows, window>>, overlapped \subseteq overlapped',
         \A q \in Posts : post'[q] \in {"window", "enqueue", "queued"} =>
           post'[q] = post[q] /\ since'[q] = since[q],
         \A i, j \in DOMAIN queue' : i < j /\ queue'[j] \notin again' =>
           /\ i \in DOMAIN queue /\ j \in DOMAIN queue /\ queue[j] \notin again
           /\ queue'[i] = queue[i] /\ queue'[j] = queue[j]
  PROVE  InOrder'
<1>1. \A i, p, kind : IsLine(i, p, kind)' <=> IsLine(i, p, kind)
  BY DEF IsLine
<1>2. \A p, q : Before(p, q)' <=> Before(p, q)
  BY <1>1 DEF Before
<1>3. \A p : since'[p] = since[p] => (HasWindow(p)' <=> HasWindow(p))
  BY <1>1 DEF HasWindow
<1> SUFFICES ASSUME CH!Exists, name # "gone"
             PROVE  InOrder'
  BY DEF InOrder, CH!Exists
<1>4. \A i, j \in DOMAIN queue' : i < j /\ queue'[i] \notin overlapped' /\ queue'[j] \notin again' =>
        Before(queue'[i], queue'[j])
  BY DEF InOrder
<1>5. \A p, q \in Posts :
        post'[p] = "queued" /\ p \notin overlapped' /\ post'[q] \in {"window", "enqueue"} => Before(p, q)
  BY DEF InOrder
<1>6. \A p \in Posts \ overlapped' : post'[p] = "window" =>
        \A i, j \in DOMAIN rows : IsLine(i, p, "user") /\ rows[j].kind = "user" => j <= i
  BY DEF InOrder
<1>7. \A p \in Posts \ overlapped' : post'[p] \in {"enqueue", "queued"} =>
        HasWindow(p) /\ since'[p] = since[p]
  BY DEF InOrder
<1> QED  BY <1>1, <1>2, <1>3, <1>4, <1>5, <1>6, <1>7 DEF InOrder

\* A post begins: who is in a handler overlaps with it.
LEMMA PostKeeps ==
  ASSUME ChatInv, NEW p \in Posts, CH!Post(p)
  PROVE  ChatInv'
<1>0. /\ ChatTypes /\ PostTurns /\ Transcript /\ HandlersAlone /\ InOrder /\ OldReads /\ ViewTells
      /\ CH!ThinkingIsRunning /\ CH!ChosenNameStays
  BY DEF ChatInv
<1>1. /\ post[p] = "none" /\ CH!Exists /\ post' = [post EXCEPT ![p] = "append"]
      /\ asked' \in {asked, asked \cup {p}}
      /\ overlapped' = IF CH!InHandler = {} THEN overlapped ELSE overlapped \cup CH!InHandler \cup {p}
      /\ since' = [since EXCEPT ![p] = aged]
      /\ UNCHANGED <<name, rows, aged, deleting, window, queue, turn, reply, active,
                     connected, CH!tab, chosen, again>>
      /\ CH!Quietly
  BY DEF CH!Post, CH!store, CH!answering
<1>s. since' \in [Posts -> Nat] /\ \A q \in Posts \ {p} : since'[q] = since[q]
  BY <1>0, <1>1 DEF ChatTypes
<1>2. /\ post' \in [Posts -> {"none", "append", "window", "enqueue", "queued", "failed"}]
      /\ post'[p] = "append" /\ \A q \in Posts \ {p} : post'[q] = post[q]
  BY <1>0, <1>1, PostSetAt
<1>3. ChatTypes'
  <2>1. overlapped' \subseteq Posts /\ asked' \subseteq Posts
    BY <1>0, <1>1 DEF ChatTypes, CH!InHandler
  <2> QED  BY <2>1, <1>0, <1>1, <1>2, <1>s DEF ChatTypes, CH!Quietly, CH!tab
<1>4. PostTurns'
  <2>1. \A i \in DOMAIN queue : queue[i] # p
    BY <1>0, <1>1 DEF PostTurns
  <2>2. turn.post # p \/ turn.post = CH!None
    BY <1>0, <1>1 DEF PostTurns
  <2>3. \A i \in DOMAIN queue : queue[i] \in Posts
    BY <1>0 DEF ChatTypes
  <2>4. turn.post # CH!None => turn.post \in Posts
    BY <1>0, ChatTurnFacts
  <2> QED  BY <2>1, <2>2, <2>3, <2>4, <1>0, <1>1, <1>2 DEF PostTurns
<1>5. Transcript'
  <2>1. CH!Exists => reply[p] # "dropped"
    BY <1>0 DEF Transcript
  <2>2. \A q \in Posts :
          /\ post[q] \in {"window", "enqueue", "queued", "failed"} =>
               post'[q] \in {"window", "enqueue", "queued", "failed"}
          /\ post'[q] \in {"window", "enqueue", "queued"} => post[q] \in {"window", "enqueue", "queued"}
          /\ reply'[q] = "stored" <=> reply[q] = "stored"
          /\ CH!Exists => reply'[q] # "dropped"
    BY <1>0, <1>1, <1>2 DEF Transcript
  <2> QED  BY <2>2, <1>0, <1>1, TranscriptStays
<1>6. HandlersAlone'
  <2>1. CH!InHandler' = CH!InHandler \cup {p}
    BY <1>2 DEF CH!InHandler
  <2>2. CH!InHandler \subseteq Posts
    BY DEF CH!InHandler
  <2>3. CASE CH!InHandler = {}
    BY <2>1, <2>3 DEF HandlersAlone
  <2>4. CASE CH!InHandler # {}
    BY <2>1, <2>4, <1>1 DEF HandlersAlone
  <2> QED  BY <2>3, <2>4
<1>7. InOrder'
  <2>1. \A q \in Posts : post'[q] \in {"window", "enqueue", "queued"} =>
          post'[q] = post[q] /\ since'[q] = since[q]
    BY <1>2, <1>s
  <2>2. overlapped \subseteq overlapped'
    BY <1>1
  <2> QED  BY <2>1, <2>2, <1>0, <1>1, OrderNarrows
<1>8. OldReads'
  BY <1>0, <1>1, LoadsStay
<1>9. ViewTells'
  <2>1. Owed' <=> Owed
    BY <1>1, <1>2 DEF Owed
  <2> QED  BY <2>1, <1>0, <1>1, ViewQuiet
<1>10. CH!ThinkingIsRunning' /\ CH!ChosenNameStays'
  BY <1>0, <1>1 DEF CH!ThinkingIsRunning, CH!ChosenNameStays
<1> QED  BY <1>3, <1>4, <1>5, <1>6, <1>7, <1>8, <1>9, <1>10 DEF ChatInv

\* Its message is stored, as the last line.
LEMMA PostStoredKeeps ==
  ASSUME ChatInv, NEW p \in Posts, post[p] = "append", CH!Exists, CH!Line(p, "user"),
         post' = [post EXCEPT ![p] = "window"], CH!Quietly,
         UNCHANGED <<name, aged, deleting, asked, since, window, queue, turn, reply, active,
                     connected, CH!tab, chosen, overlapped, again>>
  PROVE  ChatInv'
<1>0. /\ ChatTypes /\ PostTurns /\ Transcript /\ HandlersAlone /\ InOrder /\ OldReads /\ ViewTells
      /\ CH!ThinkingIsRunning /\ CH!ChosenNameStays
  BY DEF ChatInv
<1> DEFINE n == Len(rows) + 1
<1>1. /\ rows' \in Seq(LineSet) /\ DOMAIN rows' = DOMAIN rows \cup {n}
      /\ n \in Nat /\ n \notin DOMAIN rows
      /\ rows'[n].post = p /\ rows'[n].kind = "user" /\ rows'[n].live = TRUE
      /\ \A i \in DOMAIN rows : i \in Nat /\ rows'[i] = rows[i] /\ i < n
      /\ CH!Live' = CH!Live \cup {n}
      /\ \A i, q, k : IsLine(i, q, k)' <=> IsLine(i, q, k) \/ (i = n /\ q = p /\ k = "user")
  BY <1>0, Lined
<1> HIDE DEF n
<1>2. /\ post' \in [Posts -> {"none", "append", "window", "enqueue", "queued", "failed"}]
      /\ post'[p] = "window" /\ \A q \in Posts \ {p} : post'[q] = post[q]
  BY <1>0, PostSetAt
<1>e. CH!Exists' /\ p \in CH!InHandler
  BY DEF CH!Exists, CH!InHandler
<1>3. ChatTypes'
  BY <1>0, <1>1, <1>2 DEF ChatTypes, CH!Quietly, CH!tab
<1>4. PostTurns'
  <2>1. \A i \in DOMAIN queue : queue[i] # p /\ queue[i] \in Posts
    BY <1>0 DEF PostTurns, ChatTypes
  <2>2. turn.post # CH!None => turn.post # p /\ turn.post \in Posts
    BY <1>0, ChatTurnFacts DEF PostTurns
  <2> QED  BY <2>1, <2>2, <1>0, <1>2 DEF PostTurns
<1>5. Transcript'
  <2>1. \A i \in DOMAIN rows : ~IsLine(i, p, "user")
    BY <1>0 DEF Transcript
  <2>2. \A q \in Posts, kind \in {"user", "reply"} :
          kind = "user" \/ q \notin again => \A i, j \in DOMAIN rows' :
          IsLine(i, q, kind)' /\ IsLine(j, q, kind)' => i = j
    BY <2>1, <1>0, <1>1 DEF Transcript, IsLine
  <2>3. \A q \in Posts : \A i \in DOMAIN rows' :
          /\ IsLine(i, q, "user")' => post'[q] \in {"window", "enqueue", "queued", "failed"}
          /\ IsLine(i, q, "reply")' => (reply'[q] = "stored" \/ q \in again) /\ rows'[i].live
    BY <1>0, <1>1, <1>2 DEF Transcript, IsLine
  <2>4. \A q \in Posts :
          /\ post'[q] \in {"window", "enqueue", "queued"} => \E i \in DOMAIN rows' : IsLine(i, q, "user")'
          /\ reply'[q] = "stored" => \E i \in DOMAIN rows' : IsLine(i, q, "reply")'
          /\ reply'[q] # "dropped"
    BY <1>0, <1>1, <1>2 DEF Transcript
  <2> QED  BY <2>2, <2>3, <2>4, <1>e DEF Transcript
<1>6. HandlersAlone'
  <2>1. CH!InHandler' = CH!InHandler
    BY <1>2, <1>e DEF CH!InHandler
  <2> QED  BY <2>1, <1>0 DEF HandlersAlone
<1>7. InOrder'
  <2>1. \A q \in Posts : post'[q] = "queued" => q # p /\ post[q] = "queued"
    BY <1>2
  <2>2. \A q, r \in Posts : q # p => (Before(q, r) => Before(q, r)')
    BY <1>1 DEF Before, IsLine
  <2>3. \A i \in DOMAIN queue : queue[i] # p /\ queue[i] \in Posts
    BY <1>0 DEF PostTurns, ChatTypes
  <2>4. \A i, j \in DOMAIN queue :
          i < j /\ queue[i] \notin overlapped /\ queue[j] \notin again => Before(queue[i], queue[j])'
    BY <2>2, <2>3, <1>0 DEF InOrder
  <2>5. \A q, r \in Posts :
          post'[q] = "queued" /\ q \notin overlapped /\ post'[r] \in {"window", "enqueue"} => Before(q, r)'
    <3> SUFFICES ASSUME NEW q \in Posts, NEW r \in Posts, post'[q] = "queued", q \notin overlapped,
                        post'[r] \in {"window", "enqueue"}
                 PROVE  Before(q, r)'
      OBVIOUS
    <3>1. CASE r = p
      <4>1. \A i \in DOMAIN rows : ~IsLine(i, p, "user")
        BY <1>0 DEF Transcript
      <4> QED  BY <4>1, <3>1, <2>1, <1>1 DEF Before, IsLine
    <3>2. CASE r # p
      BY <3>2, <2>1, <2>2, <1>0, <1>2 DEF InOrder
    <3> QED  BY <3>1, <3>2
  <2>6. \A q \in Posts \ overlapped : post'[q] = "window" =>
          \A i, j \in DOMAIN rows' : IsLine(i, q, "user")' /\ rows'[j].kind = "user" => j <= i
    <3> SUFFICES ASSUME NEW q \in Posts \ overlapped, post'[q] = "window"
                 PROVE  \A i, j \in DOMAIN rows' : IsLine(i, q, "user")' /\ rows'[j].kind = "user" => j <= i
      OBVIOUS
    <3>1. q = p
      BY <1>0, <1>2, <1>e DEF HandlersAlone, CH!InHandler
    <3>2. \A i \in DOMAIN rows : ~IsLine(i, p, "user")
      BY <1>0 DEF Transcript
    <3>3. \A i : IsLine(i, q, "user")' => i = n
      BY <3>1, <3>2, <1>1 DEF IsLine
    <3> QED  BY <3>3, <1>1
  <2>7. \A q \in Posts \ overlapped : post'[q] \in {"enqueue", "queued"} => HasWindow(q)'
    <3> SUFFICES ASSUME NEW q \in Posts \ overlapped, post'[q] \in {"enqueue", "queued"}
                 PROVE  HasWindow(q)'
      OBVIOUS
    <3>1. q # p /\ HasWindow(q)
      BY <1>0, <1>2 DEF InOrder
    <3>2. window[q] \subseteq DOMAIN rows
      BY <3>1 DEF HasWindow
    <3>3. \A i \in DOMAIN rows' : IsLine(i, q, "user")' => i \in DOMAIN rows /\ IsLine(i, q, "user")
      BY <3>1, <1>1 DEF IsLine
    <3>4. \A i, j \in DOMAIN rows' : IsLine(i, q, "user")' =>
            /\ rows'[j].live /\ since[q] < j /\ j < i => j \in window[q]
            /\ j \in window[q] /\ rows'[j].kind = "user" => j < i
      <4> SUFFICES ASSUME NEW i \in DOMAIN rows, NEW j \in DOMAIN rows', IsLine(i, q, "user")
                   PROVE  /\ rows'[j].live /\ since[q] < j /\ j < i => j \in window[q]
                          /\ j \in window[q] /\ rows'[j].kind = "user" => j < i
        BY <3>3
      <4>1. CASE j = n
        BY <4>1, <3>2, <1>1
      <4>2. CASE j \in DOMAIN rows
        BY <4>2, <3>1, <1>1 DEF HasWindow
      <4> QED  BY <4>1, <4>2, <1>1
    <3> QED  BY <3>2, <3>4, <1>1 DEF HasWindow
  <2> QED  BY <2>4, <2>5, <2>6, <2>7 DEF InOrder
<1>8. OldReads'
  BY <1>0, LoadsStay
<1>9. ViewTells'
  <2>1. Owed'
    BY <1>2 DEF Owed
  <2> QED  BY <2>1, <1>0, ViewQuiet
<1>10. CH!ThinkingIsRunning' /\ CH!ChosenNameStays'
  BY <1>0 DEF CH!ThinkingIsRunning, CH!ChosenNameStays
<1> QED  BY <1>3, <1>4, <1>5, <1>6, <1>7, <1>8, <1>9, <1>10 DEF ChatInv

\* A post fails.
LEMMA PostFailsKeeps ==
  ASSUME ChatInv, NEW p \in Posts, post[p] \in {"append", "enqueue"}, ViewTells',
         post' = [post EXCEPT ![p] = "failed"],
         UNCHANGED <<name, rows, aged, deleting, asked, since, window, queue, turn, reply, active,
                     connected, timer, CH!tab, chosen, overlapped, again>>
  PROVE  ChatInv'
<1>0. /\ ChatTypes /\ PostTurns /\ Transcript /\ HandlersAlone /\ InOrder /\ OldReads
      /\ CH!ThinkingIsRunning /\ CH!ChosenNameStays
  BY DEF ChatInv
<1>2. /\ post' \in [Posts -> {"none", "append", "window", "enqueue", "queued", "failed"}]
      /\ post'[p] = "failed" /\ \A q \in Posts \ {p} : post'[q] = post[q]
  BY <1>0, PostSetAt
<1>3. ChatTypes'
  BY <1>0, <1>2 DEF ChatTypes, CH!tab
<1>4. PostTurns'
  <2>1. \A i \in DOMAIN queue : queue[i] # p /\ queue[i] \in Posts
    BY <1>0 DEF PostTurns, ChatTypes
  <2>2. turn.post # CH!None => turn.post # p /\ turn.post \in Posts
    BY <1>0, ChatTurnFacts DEF PostTurns
  <2> QED  BY <2>1, <2>2, <1>0, <1>2 DEF PostTurns
<1>5. Transcript'
  <2>2. \A q \in Posts :
          /\ post[q] \in {"window", "enqueue", "queued", "failed"} =>
               post'[q] \in {"window", "enqueue", "queued", "failed"}
          /\ post'[q] \in {"window", "enqueue", "queued"} => post[q] \in {"window", "enqueue", "queued"}
          /\ reply'[q] = "stored" <=> reply[q] = "stored"
          /\ CH!Exists => reply'[q] # "dropped"
    BY <1>0, <1>2 DEF Transcript
  <2> QED  BY <2>2, <1>0, TranscriptStays
<1>6. HandlersAlone'
  <2>1. CH!InHandler' \subseteq CH!InHandler
    BY <1>2 DEF CH!InHandler
  <2> QED  BY <2>1, <1>0 DEF HandlersAlone
<1>7. InOrder'
  <2>1. \A q \in Posts : post'[q] \in {"window", "enqueue", "queued"} => post'[q] = post[q]
    BY <1>2
  <2> QED  BY <2>1, <1>0, OrderNarrows
<1>8. OldReads'
  BY <1>0, LoadsStay
<1>10. CH!ThinkingIsRunning' /\ CH!ChosenNameStays'
  BY <1>0 DEF CH!ThinkingIsRunning, CH!ChosenNameStays
<1> QED  BY <1>3, <1>4, <1>5, <1>6, <1>7, <1>8, <1>10 DEF ChatInv

\* The window is every line before the message.
LEMMA BuildWindowKeeps ==
  ASSUME ChatInv, NEW p \in Posts, CH!BuildWindow(p)
  PROVE  ChatInv'
<1> DEFINE w == {i \in CH!Live : i > since[p] /\ (rows[i].post # p \/ rows[i].kind # "user")}
<1>0. /\ ChatTypes /\ PostTurns /\ Transcript /\ HandlersAlone /\ InOrder /\ OldReads /\ ViewTells
      /\ CH!ThinkingIsRunning /\ CH!ChosenNameStays
  BY DEF ChatInv
<1>1. /\ post[p] = "window" /\ post' = [post EXCEPT ![p] = "enqueue"]
      /\ window' = [window EXCEPT ![p] = w]
      /\ UNCHANGED <<name, rows, aged, deleting, asked, since, queue, turn, reply, active, connected,
                     CH!tab, chosen, overlapped, again>>
      /\ CH!Quietly
  BY DEF CH!BuildWindow, CH!store, CH!answering
<1>2. /\ post' \in [Posts -> {"none", "append", "window", "enqueue", "queued", "failed"}]
      /\ post'[p] = "enqueue" /\ \A q \in Posts \ {p} : post'[q] = post[q]
  BY <1>0, <1>1, PostSetAt
<1>w. /\ w \subseteq DOMAIN rows
      /\ \A i \in DOMAIN rows : i \in w <=> rows[i].live /\ i > since[p] /\ ~IsLine(i, p, "user")
  BY DEF CH!Live, IsLine
<1>v. w \in SUBSET Nat
  BY <1>0, <1>w, LineFacts
<1> HIDE DEF w
<1>u. /\ window' \in [Posts -> SUBSET Nat] /\ window'[p] = w
      /\ \A q \in Posts \ {p} : window'[q] = window[q]
  BY <1>0, <1>1, <1>v DEF ChatTypes
<1>3. ChatTypes'
  BY <1>0, <1>1, <1>2, <1>u DEF ChatTypes, CH!Quietly, CH!tab
<1>4. PostTurns'
  <2>1. \A i \in DOMAIN queue : queue[i] # p /\ queue[i] \in Posts
    BY <1>0, <1>1 DEF PostTurns, ChatTypes
  <2>2. turn.post # CH!None => turn.post # p /\ turn.post \in Posts
    BY <1>0, <1>1, ChatTurnFacts DEF PostTurns
  <2> QED  BY <2>1, <2>2, <1>0, <1>1, <1>2 DEF PostTurns
<1>5. Transcript'
  <2>2. \A q \in Posts :
          /\ post[q] \in {"window", "enqueue", "queued", "failed"} =>
               post'[q] \in {"window", "enqueue", "queued", "failed"}
          /\ post'[q] \in {"window", "enqueue", "queued"} => post[q] \in {"window", "enqueue", "queued"}
          /\ reply'[q] = "stored" <=> reply[q] = "stored"
          /\ CH!Exists => reply'[q] # "dropped"
    BY <1>0, <1>1, <1>2 DEF Transcript
  <2> QED  BY <2>2, <1>0, <1>1, TranscriptStays
<1>6. HandlersAlone'
  <2>1. CH!InHandler' \subseteq CH!InHandler
    BY <1>1, <1>2 DEF CH!InHandler
  <2> QED  BY <2>1, <1>0, <1>1 DEF HandlersAlone
<1>7. InOrder'
  <2> SUFFICES ASSUME CH!Exists
               PROVE  InOrder'
    BY <1>1 DEF InOrder, CH!Exists
  <2>1. \A i, q, kind : IsLine(i, q, kind)' <=> IsLine(i, q, kind)
    BY <1>1 DEF IsLine
  <2>2. \A q, r : Before(q, r)' <=> Before(q, r)
    BY <2>1, <1>1 DEF Before
  <2>3. \A i, j \in DOMAIN queue : i < j /\ queue[i] \notin overlapped /\ queue[j] \notin again =>
          Before(queue[i], queue[j])
    BY <1>0 DEF InOrder
  <2>4. \A q, r \in Posts :
          post'[q] = "queued" /\ q \notin overlapped /\ post'[r] \in {"window", "enqueue"} => Before(q, r)
    <3> SUFFICES ASSUME NEW q \in Posts, NEW r \in Posts, post'[q] = "queued", q \notin overlapped,
                        post'[r] \in {"window", "enqueue"}
                 PROVE  Before(q, r)
      OBVIOUS
    <3>1. post[q] = "queued" /\ post[r] \in {"window", "enqueue"}
      BY <1>1, <1>2
    <3> QED  BY <3>1, <1>0 DEF InOrder
  <2>5. \A q \in Posts \ overlapped : post'[q] = "window" =>
          \A i, j \in DOMAIN rows : IsLine(i, q, "user") /\ rows[j].kind = "user" => j <= i
    BY <1>0, <1>2 DEF InOrder
  <2>6. \A q \in Posts \ overlapped : post'[q] \in {"enqueue", "queued"} => HasWindow(q)'
    <3> SUFFICES ASSUME NEW q \in Posts \ overlapped, post'[q] \in {"enqueue", "queued"}
                 PROVE  HasWindow(q)'
      OBVIOUS
    <3>1. CASE q # p
      <4>1. HasWindow(q)
        BY <3>1, <1>0, <1>2 DEF InOrder
      <4>2. window'[q] = window[q] /\ rows' = rows /\ since' = since
        BY <3>1, <1>1, <1>u
      <4> QED  BY <4>1, <4>2, <2>1 DEF HasWindow
    <3>2. CASE q = p
      <4>1. \A i, j \in DOMAIN rows : IsLine(i, p, "user") /\ rows[j].kind = "user" => j <= i
        BY <3>2, <1>0, <1>1 DEF InOrder
      <4>2. \A i, j \in DOMAIN rows : IsLine(i, p, "user") =>
              /\ rows[j].live /\ since[p] < j /\ j < i => j \in w
              /\ j \in w /\ rows[j].kind = "user" => j < i
        <5> SUFFICES ASSUME NEW i \in DOMAIN rows, NEW j \in DOMAIN rows, IsLine(i, p, "user")
                     PROVE  /\ rows[j].live /\ since[p] < j /\ j < i => j \in w
                            /\ j \in w /\ rows[j].kind = "user" => j < i
          OBVIOUS
        <5>1. i \in Nat /\ j \in Nat /\ since[p] \in Nat
          BY <1>0, LineFacts DEF ChatTypes
        <5>2. IsLine(j, p, "user") => i = j
          BY <1>0 DEF Transcript
        <5>3. rows[j].kind = "user" => j <= i
          BY <4>1
        <5> QED  BY <5>1, <5>2, <5>3, <1>w
      <4>3. window'[q] = w /\ rows' = rows /\ since' = since
        BY <3>2, <1>1, <1>u
      <4> QED  BY <4>2, <4>3, <3>2, <2>1, <1>w DEF HasWindow
    <3> QED  BY <3>1, <3>2
  <2>7. queue' = queue /\ rows' = rows /\ overlapped' = overlapped /\ again' = again
    BY <1>1
  <2> QED  BY <2>1, <2>2, <2>3, <2>4, <2>5, <2>6, <2>7 DEF InOrder
<1>8. OldReads'
  BY <1>0, <1>1, LoadsStay
<1>9. ViewTells'
  <2>1. Owed'
    BY <1>2 DEF Owed
  <2> QED  BY <2>1, <1>0, <1>1, ViewQuiet
<1>10. CH!ThinkingIsRunning' /\ CH!ChosenNameStays'
  BY <1>0, <1>1 DEF CH!ThinkingIsRunning, CH!ChosenNameStays
<1> QED  BY <1>3, <1>4, <1>5, <1>6, <1>7, <1>8, <1>9, <1>10 DEF ChatInv

\* The turn is queued behind those whose messages are before.
LEMMA EnqueueKeeps ==
  ASSUME ChatInv, NEW p \in Posts, CH!Enqueue(p)
  PROVE  ChatInv'
<1>0. /\ ChatTypes /\ PostTurns /\ Transcript /\ HandlersAlone /\ InOrder /\ OldReads /\ ViewTells
      /\ CH!ThinkingIsRunning /\ CH!ChosenNameStays
  BY DEF ChatInv
<1>1. /\ post[p] = "enqueue" /\ queue' = Append(queue, p) /\ post' = [post EXCEPT ![p] = "queued"]
      /\ CH!Ping
      /\ UNCHANGED <<name, rows, aged, deleting, asked, since, window, turn, reply, active,
                     connected, CH!tab, chosen, overlapped, again>>
  BY DEF CH!Enqueue, CH!store
<1> DEFINE n == Len(queue) + 1
<1>2. /\ post' \in [Posts -> {"none", "append", "window", "enqueue", "queued", "failed"}]
      /\ post'[p] = "queued" /\ \A q \in Posts \ {p} : post'[q] = post[q]
  BY <1>0, <1>1, PostSetAt
<1>q. /\ queue' \in Seq(Posts) /\ DOMAIN queue = 1..Len(queue) /\ Len(queue) \in Nat
      /\ DOMAIN queue' = DOMAIN queue \cup {n}
      /\ queue'[n] = p /\ \A i \in DOMAIN queue : queue'[i] = queue[i]
  BY <1>0, <1>1, TurnQueued DEF ChatTypes
<1>r. n \notin DOMAIN queue /\ \A i \in DOMAIN queue : i \in Nat /\ ~(n < i)
  BY <1>q
<1>d. DOMAIN queue \subseteq Nat /\ n \in Nat
  BY <1>q
<1> HIDE DEF n
<1>m. \A i \in DOMAIN queue : queue[i] # p /\ queue[i] \in Posts /\ post[queue[i]] = "queued"
  BY <1>0, <1>1 DEF PostTurns, ChatTypes
<1>t. turn.post # CH!None => turn.post # p /\ turn.post \in Posts
  BY <1>0, <1>1, ChatTurnFacts DEF PostTurns
<1>9. ViewTells' /\ timer' \in BOOLEAN
  BY <1>0, <1>1, ViewPinged
<1>3. ChatTypes'
  BY <1>0, <1>1, <1>2, <1>q, <1>9 DEF ChatTypes, CH!tab
<1>4. PostTurns'
  <2>1. \A i \in DOMAIN queue' : post'[queue'[i]] = "queued" /\ reply[queue'[i]] = "none"
    <3> SUFFICES ASSUME NEW i \in DOMAIN queue'
                 PROVE  post'[queue'[i]] = "queued" /\ reply[queue'[i]] = "none"
      OBVIOUS
    <3>1. CASE i = n
      BY <3>1, <1>0, <1>1, <1>2, <1>q DEF PostTurns
    <3>2. CASE i \in DOMAIN queue
      BY <3>2, <1>0, <1>2, <1>q, <1>m DEF PostTurns
    <3> QED  BY <3>1, <3>2, <1>q
  <2>2. \A i, j \in DOMAIN queue' : queue'[i] = queue'[j] => i = j
    BY <1>0, <1>q, <1>m DEF PostTurns
  <2>3. turn.post # CH!None =>
          /\ post'[turn.post] = "queued" /\ \A i \in DOMAIN queue' : queue'[i] # turn.post
          /\ turn.at \in {"start", "run"} => reply[turn.post] = "none"
    BY <1>0, <1>2, <1>q, <1>t DEF PostTurns
  <2>4. \A q \in Posts : post'[q] # "queued" => reply[q] = "none"
    BY <1>0, <1>2 DEF PostTurns
  <2> QED  BY <2>1, <2>2, <2>3, <2>4, <1>1 DEF PostTurns
<1>5. Transcript'
  <2>2. \A q \in Posts :
          /\ post[q] \in {"window", "enqueue", "queued", "failed"} =>
               post'[q] \in {"window", "enqueue", "queued", "failed"}
          /\ post'[q] \in {"window", "enqueue", "queued"} => post[q] \in {"window", "enqueue", "queued"}
          /\ reply'[q] = "stored" <=> reply[q] = "stored"
          /\ CH!Exists => reply'[q] # "dropped"
    BY <1>0, <1>1, <1>2 DEF Transcript
  <2> QED  BY <2>2, <1>0, <1>1, TranscriptStays
<1>6. HandlersAlone'
  <2>1. CH!InHandler' \subseteq CH!InHandler
    BY <1>2 DEF CH!InHandler
  <2> QED  BY <2>1, <1>0, <1>1 DEF HandlersAlone
<1>7. InOrder'
  <2> SUFFICES ASSUME CH!Exists
               PROVE  InOrder'
    BY <1>1 DEF InOrder, CH!Exists
  <2>1. \A i, q, kind : IsLine(i, q, kind)' <=> IsLine(i, q, kind)
    BY <1>1 DEF IsLine
  <2>2. \A q, r : Before(q, r)' <=> Before(q, r)
    BY <2>1, <1>1 DEF Before
  <2>3. \A i, j \in DOMAIN queue' : i < j /\ queue'[i] \notin overlapped /\ queue'[j] \notin again =>
          Before(queue'[i], queue'[j])
    <3> SUFFICES ASSUME NEW i \in DOMAIN queue', NEW j \in DOMAIN queue', i < j,
                        queue'[i] \notin overlapped, queue'[j] \notin again
                 PROVE  Before(queue'[i], queue'[j])
      OBVIOUS
    <3>1. i \in DOMAIN queue /\ queue'[i] = queue[i]
      <4>1. i = n => j \in DOMAIN queue
        BY <1>q, <1>d
      <4> QED  BY <4>1, <1>q, <1>r
    <3>2. CASE j \in DOMAIN queue
      BY <3>1, <3>2, <1>0, <1>q DEF InOrder
    <3>3. CASE j = n
      BY <3>1, <3>3, <1>0, <1>1, <1>q, <1>m DEF InOrder
    <3> QED  BY <3>2, <3>3, <1>q
  <2>4. \A q, r \in Posts :
          post'[q] = "queued" /\ q \notin overlapped /\ post'[r] \in {"window", "enqueue"} => Before(q, r)
    <3> SUFFICES ASSUME NEW q \in Posts, NEW r \in Posts, post'[q] = "queued", q \notin overlapped,
                        post'[r] \in {"window", "enqueue"}
                 PROVE  Before(q, r)
      OBVIOUS
    <3>1. r # p /\ post[r] \in {"window", "enqueue"}
      BY <1>2
    <3>2. q # p
      BY <3>1, <1>0, <1>1 DEF HandlersAlone, CH!InHandler
    <3> QED  BY <3>1, <3>2, <1>0, <1>2 DEF InOrder
  <2>5. \A q \in Posts \ overlapped : post'[q] = "window" =>
          \A i, j \in DOMAIN rows : IsLine(i, q, "user") /\ rows[j].kind = "user" => j <= i
    BY <1>0, <1>2 DEF InOrder
  <2>6. \A q \in Posts \ overlapped : post'[q] \in {"enqueue", "queued"} => HasWindow(q)'
    <3> SUFFICES ASSUME NEW q \in Posts \ overlapped, post'[q] \in {"enqueue", "queued"}
                 PROVE  HasWindow(q)'
      OBVIOUS
    <3>1. HasWindow(q)
      BY <1>0, <1>1, <1>2 DEF InOrder
    <3>2. window' = window /\ rows' = rows /\ since' = since
      BY <1>1
    <3> QED  BY <3>1, <3>2, <2>1 DEF HasWindow
  <2>7. rows' = rows /\ overlapped' = overlapped /\ again' = again
    BY <1>1
  <2> QED  BY <2>1, <2>2, <2>3, <2>4, <2>5, <2>6, <2>7 DEF InOrder
<1>8. OldReads'
  BY <1>0, <1>1, LoadsStay
<1>10. CH!ThinkingIsRunning' /\ CH!ChosenNameStays'
  BY <1>0, <1>1 DEF CH!ThinkingIsRunning, CH!ChosenNameStays
<1> QED  BY <1>3, <1>4, <1>5, <1>6, <1>7, <1>8, <1>9, <1>10 DEF ChatInv

\* A turn starts.
LEMMA StartTurnKeeps ==
  ASSUME ChatInv, CH!StartTurn
  PROVE  ChatInv'
<1>0. /\ ChatTypes /\ PostTurns /\ Transcript /\ HandlersAlone /\ InOrder /\ OldReads /\ ViewTells
      /\ CH!ThinkingIsRunning /\ CH!ChosenNameStays
  BY DEF ChatInv
<1>1. /\ turn = CH!NoTurn /\ queue # <<>>
      /\ turn' = [post |-> Head(queue), at |-> "start"] /\ queue' = Tail(queue)
      /\ UNCHANGED <<name, rows, aged, deleting, post, asked, since, window, reply, active,
                     connected, CH!tab, chosen, overlapped, again>>
      /\ CH!Quietly
  BY DEF CH!StartTurn, CH!store, CH!handling
<1>2. /\ queue' \in Seq(Posts) /\ 1 \in DOMAIN queue /\ Head(queue) = queue[1]
      /\ DOMAIN queue \subseteq Nat /\ DOMAIN queue' \subseteq Nat
      /\ \A i \in DOMAIN queue' : i + 1 \in DOMAIN queue /\ i + 1 > 1 /\ queue'[i] = queue[i + 1]
  BY <1>0, <1>1, TurnTaken DEF ChatTypes
<1>a. queue[1] \in Posts /\ turn'.post = queue[1] /\ turn'.at = "start" /\ turn' \in TurnSet
  <2>1. queue[1] \in Posts
    BY <1>0, <1>2 DEF ChatTypes
  <2> QED  BY <2>1, <1>1, <1>2 DEF TurnSet
<1>3. ChatTypes'
  BY <1>0, <1>1, <1>2, <1>a DEF ChatTypes, CH!Quietly, CH!tab
<1>4. PostTurns'
  <2>1. \A i \in DOMAIN queue' : post[queue'[i]] = "queued" /\ reply[queue'[i]] = "none"
    BY <1>0, <1>2 DEF PostTurns
  <2>2. \A i, j \in DOMAIN queue' : queue'[i] = queue'[j] => i = j
    <3> SUFFICES ASSUME NEW i \in DOMAIN queue', NEW j \in DOMAIN queue', queue'[i] = queue'[j]
                 PROVE  i = j
      OBVIOUS
    <3>1. i + 1 = j + 1
      BY <1>0, <1>2 DEF PostTurns
    <3> QED  BY <3>1, <1>2
  <2>3. \A i \in DOMAIN queue' : queue'[i] # queue[1]
    <3> SUFFICES ASSUME NEW i \in DOMAIN queue', queue'[i] = queue[1]
                 PROVE  FALSE
      OBVIOUS
    <3>1. i + 1 = 1
      BY <1>0, <1>2 DEF PostTurns
    <3> QED  BY <3>1, <1>2
  <2>4. post[queue[1]] = "queued" /\ reply[queue[1]] = "none"
    BY <1>0, <1>2 DEF PostTurns
  <2>5. \A p \in Posts : post[p] # "queued" => reply[p] = "none"
    BY <1>0 DEF PostTurns
  <2> QED  BY <2>1, <2>2, <2>3, <2>4, <2>5, <1>1, <1>a DEF PostTurns
<1>5. Transcript'
  <2>2. \A q \in Posts :
          /\ post[q] \in {"window", "enqueue", "queued", "failed"} =>
               post'[q] \in {"window", "enqueue", "queued", "failed"}
          /\ post'[q] \in {"window", "enqueue", "queued"} => post[q] \in {"window", "enqueue", "queued"}
          /\ reply'[q] = "stored" <=> reply[q] = "stored"
          /\ CH!Exists => reply'[q] # "dropped"
    BY <1>0, <1>1 DEF Transcript
  <2> QED  BY <2>2, <1>0, <1>1, TranscriptStays
<1>6. HandlersAlone'
  <2>1. CH!InHandler' = CH!InHandler
    BY <1>1 DEF CH!InHandler
  <2> QED  BY <2>1, <1>0, <1>1 DEF HandlersAlone
<1>7. InOrder'
  <2> SUFFICES ASSUME CH!Exists
               PROVE  InOrder'
    BY <1>1 DEF InOrder, CH!Exists
  <2>1. \A i, q, kind : IsLine(i, q, kind)' <=> IsLine(i, q, kind)
    BY <1>1 DEF IsLine
  <2>2. \A q, r : Before(q, r)' <=> Before(q, r)
    BY <2>1, <1>1 DEF Before
  <2>3. \A q : HasWindow(q)' <=> HasWindow(q)
    BY <2>1, <1>1 DEF HasWindow
  <2>4. \A i, j \in DOMAIN queue' : i < j /\ queue'[i] \notin overlapped /\ queue'[j] \notin again =>
          Before(queue'[i], queue'[j])
    <3> SUFFICES ASSUME NEW i \in DOMAIN queue', NEW j \in DOMAIN queue', i < j,
                        queue'[i] \notin overlapped, queue'[j] \notin again
                 PROVE  Before(queue'[i], queue'[j])
      OBVIOUS
    <3>1. i + 1 < j + 1
      BY <1>2
    <3>2. i + 1 \in DOMAIN queue /\ j + 1 \in DOMAIN queue
      BY <1>2
    <3> QED  BY <3>1, <3>2, <1>0, <1>2 DEF InOrder
  <2>5. /\ \A p, q \in Posts :
             post[p] = "queued" /\ p \notin overlapped /\ post[q] \in {"window", "enqueue"} => Before(p, q)
        /\ \A p \in Posts \ overlapped : post[p] = "window" =>
             \A i, j \in DOMAIN rows : IsLine(i, p, "user") /\ rows[j].kind = "user" => j <= i
        /\ \A p \in Posts \ overlapped : post[p] \in {"enqueue", "queued"} => HasWindow(p)
    BY <1>0 DEF InOrder
  <2>6. rows' = rows /\ overlapped' = overlapped /\ again' = again /\ post' = post
    BY <1>1
  <2> QED  BY <2>1, <2>2, <2>3, <2>4, <2>5, <2>6 DEF InOrder
<1>8. OldReads'
  BY <1>0, <1>1, LoadsStay
<1>9. ViewTells'
  <2>1. Owed' <=> Owed
    BY <1>1 DEF Owed
  <2> QED  BY <2>1, <1>0, <1>1, ViewQuiet
<1>10. CH!ThinkingIsRunning' /\ CH!ChosenNameStays'
  <2>1. active = CH!None
    BY <1>0, <1>1 DEF CH!ThinkingIsRunning, CH!NoTurn
  <2> QED  BY <2>1, <1>0, <1>1 DEF CH!ThinkingIsRunning, CH!ChosenNameStays
<1> QED  BY <1>3, <1>4, <1>5, <1>6, <1>7, <1>8, <1>9, <1>10 DEF ChatInv

\* The turn goes on.
LEMMA TurnGoesOn ==
  ASSUME ChatTypes, PostTurns, turn.at # "none", NEW v \in {"start", "run", "name", "settle"},
         v \in {"start", "run"} => turn.at \in {"start", "run"},
         turn' = [turn EXCEPT !.at = v], UNCHANGED <<queue, post, reply>>
  PROVE  PostTurns' /\ turn' \in TurnSet /\ turn'.post = turn.post
<1>1. turn' \in TurnSet /\ turn'.post = turn.post /\ turn'.at = v
  BY TurnAt
<1> QED  BY <1>1 DEF PostTurns

\* The thread learns of it.
LEMMA AcceptedKeeps ==
  ASSUME ChatInv, CH!Accepted
  PROVE  ChatInv'
<1>0. /\ ChatTypes /\ PostTurns /\ Transcript /\ HandlersAlone /\ InOrder /\ OldReads /\ ViewTells
      /\ CH!ThinkingIsRunning /\ CH!ChosenNameStays
  BY DEF ChatInv
<1>1. /\ turn.at = "start" /\ turn' = [turn EXCEPT !.at = "run"] /\ active' = turn.post /\ CH!Ping
      /\ UNCHANGED <<name, rows, aged, deleting, post, asked, since, window, queue, reply,
                     connected, CH!tab, chosen, overlapped, again>>
  BY DEF CH!Accepted, CH!store, CH!handling
<1>2. PostTurns' /\ turn' \in TurnSet /\ turn'.post = turn.post
  BY <1>0, <1>1, TurnGoesOn
<1>a. turn.post \in Posts \cup {CH!None}
  BY <1>0, ChatTurnFacts
<1>3. ViewTells' /\ timer' \in BOOLEAN
  BY <1>0, <1>1, ViewPinged
<1>4. ChatTypes'
  BY <1>0, <1>1, <1>2, <1>a, <1>3 DEF ChatTypes, CH!tab
<1>5. Transcript'
  <2>1. \A p \in Posts : CH!Exists => reply[p] # "dropped"
    BY <1>0 DEF Transcript
  <2> QED  BY <2>1, <1>0, <1>1, TranscriptStays
<1>6. InOrder' /\ HandlersAlone'
  BY <1>0, <1>1, OrderStays
<1>7. OldReads'
  BY <1>0, <1>1, LoadsStay
<1>8. CH!ThinkingIsRunning' /\ CH!ChosenNameStays'
  BY <1>0, <1>1, <1>2 DEF CH!ThinkingIsRunning, CH!ChosenNameStays
<1> QED  BY <1>2, <1>3, <1>4, <1>5, <1>6, <1>7, <1>8 DEF ChatInv

\* And of its progress.
LEMMA ProgressKeeps ==
  ASSUME ChatInv, CH!Progress
  PROVE  ChatInv'
<1>0. /\ ChatTypes /\ PostTurns /\ Transcript /\ HandlersAlone /\ InOrder /\ OldReads /\ ViewTells
      /\ CH!ThinkingIsRunning /\ CH!ChosenNameStays
  BY DEF ChatInv
<1>1. /\ active' = turn.post /\ CH!Ping
      /\ UNCHANGED <<name, rows, aged, deleting, post, asked, since, window, queue, turn, reply,
                     connected, CH!tab, chosen, overlapped, again>>
  BY DEF CH!Progress, CH!store, CH!handling, CH!answering
<1>a. turn.post \in Posts \cup {CH!None}
  BY <1>0, ChatTurnFacts
<1>3. ViewTells' /\ timer' \in BOOLEAN
  BY <1>0, <1>1, ViewPinged
<1>4. ChatTypes'
  BY <1>0, <1>1, <1>a, <1>3 DEF ChatTypes, CH!tab
<1>5. Transcript'
  <2>1. \A p \in Posts : CH!Exists => reply[p] # "dropped"
    BY <1>0 DEF Transcript
  <2> QED  BY <2>1, <1>0, <1>1, TranscriptStays
<1>6. InOrder' /\ HandlersAlone'
  BY <1>0, <1>1, OrderStays
<1>7. OldReads' /\ PostTurns'
  BY <1>0, <1>1, LoadsStay, TurnsStay
<1>8. CH!ThinkingIsRunning' /\ CH!ChosenNameStays'
  BY <1>0, <1>1 DEF CH!ThinkingIsRunning, CH!ChosenNameStays
<1> QED  BY <1>3, <1>4, <1>5, <1>6, <1>7, <1>8 DEF ChatInv

\* The turn is over.
LEMMA SettleKeeps ==
  ASSUME ChatInv, CH!Settle
  PROVE  ChatInv'
<1>0. /\ ChatTypes /\ PostTurns /\ Transcript /\ HandlersAlone /\ InOrder /\ OldReads /\ ViewTells
      /\ CH!ThinkingIsRunning /\ CH!ChosenNameStays
  BY DEF ChatInv
<1>1. /\ turn' = CH!NoTurn /\ active' = CH!None /\ CH!Ping
      /\ UNCHANGED <<name, rows, aged, deleting, post, asked, since, window, queue, reply,
                     connected, CH!tab, chosen, overlapped, again>>
  BY DEF CH!Settle, CH!store, CH!handling
<1>3. ViewTells' /\ timer' \in BOOLEAN
  BY <1>0, <1>1, ViewPinged
<1>4. ChatTypes'
  BY <1>0, <1>1, <1>3 DEF ChatTypes, CH!tab, TurnSet
<1>5. Transcript'
  <2>1. \A p \in Posts : CH!Exists => reply[p] # "dropped"
    BY <1>0 DEF Transcript
  <2> QED  BY <2>1, <1>0, <1>1, TranscriptStays
<1>6. InOrder' /\ HandlersAlone'
  BY <1>0, <1>1, OrderStays
<1>7. OldReads'
  BY <1>0, <1>1, LoadsStay
<1>8. PostTurns'
  <2>1. turn'.post = CH!None
    BY <1>1 DEF CH!NoTurn
  <2> QED  BY <2>1, <1>0, <1>1 DEF PostTurns
<1>9. CH!ThinkingIsRunning' /\ CH!ChosenNameStays'
  BY <1>0, <1>1 DEF CH!ThinkingIsRunning, CH!ChosenNameStays
<1> QED  BY <1>3, <1>4, <1>5, <1>6, <1>7, <1>8, <1>9 DEF ChatInv

\* It has no answer.
LEMMA NoAnswerKeeps ==
  ASSUME ChatInv, CH!NoAnswer
  PROVE  ChatInv'
<1>0. /\ ChatTypes /\ PostTurns /\ Transcript /\ HandlersAlone /\ InOrder /\ OldReads /\ ViewTells
      /\ CH!ThinkingIsRunning /\ CH!ChosenNameStays
  BY DEF ChatInv
<1>1. /\ turn.at \in {"start", "run"} /\ turn' = [turn EXCEPT !.at = "settle"] /\ CH!Quietly
      /\ UNCHANGED <<name, rows, aged, deleting, post, asked, since, window, queue, reply, active,
                     connected, CH!tab, chosen, overlapped, again>>
  BY DEF CH!NoAnswer, CH!store, CH!handling
<1>2. PostTurns' /\ turn' \in TurnSet /\ turn'.post = turn.post
  BY <1>0, <1>1, TurnGoesOn
<1>3. ViewTells'
  <2>1. Owed' <=> Owed
    BY <1>1 DEF Owed
  <2> QED  BY <2>1, <1>0, <1>1, ViewQuiet
<1>4. ChatTypes'
  BY <1>0, <1>1, <1>2 DEF ChatTypes, CH!tab, CH!Quietly
<1>5. Transcript'
  <2>1. \A p \in Posts : CH!Exists => reply[p] # "dropped"
    BY <1>0 DEF Transcript
  <2> QED  BY <2>1, <1>0, <1>1, TranscriptStays
<1>6. InOrder' /\ HandlersAlone'
  BY <1>0, <1>1, OrderStays
<1>7. OldReads'
  BY <1>0, <1>1, LoadsStay
<1>8. CH!ThinkingIsRunning' /\ CH!ChosenNameStays'
  BY <1>0, <1>1, <1>2 DEF CH!ThinkingIsRunning, CH!ChosenNameStays
<1> QED  BY <1>2, <1>3, <1>4, <1>5, <1>6, <1>7, <1>8 DEF ChatInv

\* It has one, which is handed over.
LEMMA HandOverKeeps ==
  ASSUME ChatInv, CH!HandOver
  PROVE  ChatInv'
<1>0. /\ ChatTypes /\ PostTurns /\ Transcript /\ HandlersAlone /\ InOrder /\ OldReads /\ ViewTells
      /\ CH!ThinkingIsRunning /\ CH!ChosenNameStays
  BY DEF ChatInv
<1> DEFINE p == turn.post
           v == IF turn.post \in asked /\ window[turn.post] = {} THEN "name" ELSE "settle"
<1>1. /\ turn.at = "run" /\ reply' = [reply EXCEPT ![p] = "handed"]
      /\ turn' = [turn EXCEPT !.at = v] /\ CH!Quietly
      /\ UNCHANGED <<name, rows, aged, deleting, post, asked, since, window, queue, active,
                     connected, CH!tab, chosen, overlapped, again>>
  BY DEF CH!HandOver, CH!store, CH!handling
<1>2. p \in Posts /\ p # CH!None /\ v \in {"name", "settle"}
  BY <1>0, <1>1, TurnAt, ChatTurnFacts, ChatAssumption DEF CH!None
<1>t. turn' \in TurnSet /\ turn'.post = p /\ turn'.at = v
  BY <1>0, <1>1, <1>2, TurnAt
<1>r. /\ reply' \in [Posts -> {"none", "handed", "found", "stored", "dropped", "lost"}]
      /\ reply'[p] = "handed" /\ \A q \in Posts \ {p} : reply'[q] = reply[q]
  BY <1>0, <1>1, <1>2, ReplySetAt
<1>q. reply[p] = "none" /\ post[p] = "queued" /\ \A i \in DOMAIN queue : queue[i] # p
  BY <1>0, <1>1, <1>2 DEF PostTurns
<1> HIDE DEF p, v
<1>3. ViewTells'
  <2>1. Owed' <=> Owed
    BY <1>1 DEF Owed
  <2> QED  BY <2>1, <1>0, <1>1, ViewQuiet
<1>4. ChatTypes'
  BY <1>0, <1>1, <1>t, <1>r DEF ChatTypes, CH!tab, CH!Quietly
<1>5. Transcript'
  <2>1. \A q \in Posts :
          (reply'[q] = "stored" <=> reply[q] = "stored") /\ (CH!Exists => reply'[q] # "dropped")
    BY <1>0, <1>q, <1>r DEF Transcript
  <2> QED  BY <2>1, <1>0, <1>1, TranscriptStays
<1>6. InOrder' /\ HandlersAlone'
  BY <1>0, <1>1, OrderStays
<1>7. OldReads'
  BY <1>0, <1>1, LoadsStay
<1>8. PostTurns'
  <2>1. \A i \in DOMAIN queue : queue[i] \in Posts \ {p}
    BY <1>0, <1>q DEF ChatTypes
  <2>2. \A i \in DOMAIN queue : post[queue[i]] = "queued" /\ reply'[queue[i]] = "none"
    BY <2>1, <1>0, <1>r DEF PostTurns
  <2>3. \A i, j \in DOMAIN queue : queue[i] = queue[j] => i = j
    BY <1>0 DEF PostTurns
  <2>4. \A q \in Posts : post[q] # "queued" => reply'[q] = "none"
    BY <1>0, <1>q, <1>r DEF PostTurns
  <2> QED  BY <2>2, <2>3, <2>4, <1>1, <1>2, <1>q, <1>t DEF PostTurns
<1>9. CH!ThinkingIsRunning' /\ CH!ChosenNameStays'
  <2>1. turn'.post = turn.post
    BY <1>t DEF p
  <2> QED  BY <2>1, <1>0, <1>1 DEF CH!ThinkingIsRunning, CH!ChosenNameStays
<1> QED  BY <1>3, <1>4, <1>5, <1>6, <1>7, <1>8, <1>9 DEF ChatInv

\* A line that is no message.
LEMMA OrderLined ==
  ASSUME ChatTypes, InOrder, HandlersAlone, Transcript, NEW p \in Posts, NEW kind \in {"ack", "reply"},
         CH!Line(p, kind), UNCHANGED <<name, queue, since, window, post, overlapped, again>>
  PROVE  InOrder' /\ HandlersAlone'
<1> DEFINE n == Len(rows) + 1
<1>1. /\ DOMAIN rows' = DOMAIN rows \cup {n} /\ n \in Nat /\ n \notin DOMAIN rows
      /\ rows'[n].kind = kind
      /\ \A i \in DOMAIN rows : i \in Nat /\ rows'[i] = rows[i] /\ i < n
      /\ \A i, q, k : IsLine(i, q, k)' <=> IsLine(i, q, k) \/ (i = n /\ q = p /\ k = kind)
  <2>1. kind \in {"user", "ack", "reply"}
    OBVIOUS
  <2> QED  BY <2>1, Lined
<1> HIDE DEF n
<1>2. \A i, q : IsLine(i, q, "user")' <=> IsLine(i, q, "user")
  BY <1>1
<1>2a. \A i, q : IsLine(i, q, "user") => i \in DOMAIN rows
  BY DEF IsLine
<1>3. \A q, r : Before(q, r) => Before(q, r)'
  BY <1>2, <1>2a DEF Before
<1>4. \A q : HasWindow(q) => HasWindow(q)'
  <2> SUFFICES ASSUME NEW q, HasWindow(q)
               PROVE  HasWindow(q)'
    OBVIOUS
  <2>1. window[q] \subseteq DOMAIN rows
    BY DEF HasWindow
  <2>2. \A i, j \in DOMAIN rows' : IsLine(i, q, "user") =>
          /\ rows'[j].live /\ since[q] < j /\ j < i => j \in window[q]
          /\ j \in window[q] /\ rows'[j].kind = "user" => j < i
    <3> SUFFICES ASSUME NEW i \in DOMAIN rows, NEW j \in DOMAIN rows', IsLine(i, q, "user")
                 PROVE  /\ rows'[j].live /\ since[q] < j /\ j < i => j \in window[q]
                        /\ j \in window[q] /\ rows'[j].kind = "user" => j < i
      BY <1>2a
    <3>1. CASE j = n
      BY <3>1, <2>1, <1>1
    <3>2. CASE j \in DOMAIN rows
      BY <3>2, <1>1 DEF HasWindow
    <3> QED  BY <3>1, <3>2, <1>1
  <2> QED  BY <2>1, <2>2, <1>1, <1>2 DEF HasWindow
<1>5. InOrder'
  <2> SUFFICES ASSUME CH!Exists
               PROVE  InOrder'
    BY DEF InOrder, CH!Exists
  <2>1. /\ \A i, j \in DOMAIN queue :
             i < j /\ queue[i] \notin overlapped /\ queue[j] \notin again => Before(queue[i], queue[j])'
        /\ \A q, r \in Posts :
             post[q] = "queued" /\ q \notin overlapped /\ post[r] \in {"window", "enqueue"} => Before(q, r)'
        /\ \A q \in Posts \ overlapped : post[q] \in {"enqueue", "queued"} => HasWindow(q)'
    BY <1>3, <1>4 DEF InOrder
  <2>2. \A q \in Posts \ overlapped : post[q] = "window" =>
          \A i, j \in DOMAIN rows' : IsLine(i, q, "user")' /\ rows'[j].kind = "user" => j <= i
    <3>1. \A q \in Posts \ overlapped : post[q] = "window" =>
            \A i, j \in DOMAIN rows : IsLine(i, q, "user") /\ rows[j].kind = "user" => j <= i
      BY DEF InOrder
    <3> QED  BY <3>1, <1>1, <1>2, <1>2a
  <2> QED  BY <2>1, <2>2 DEF InOrder
<1>6. HandlersAlone'
  BY DEF HandlersAlone, CH!InHandler
<1> QED  BY <1>5, <1>6

\* An acknowledgement.
LEMMA AcknowledgeKeeps ==
  ASSUME ChatInv, CH!Acknowledge
  PROVE  ChatInv'
<1>0. /\ ChatTypes /\ PostTurns /\ Transcript /\ HandlersAlone /\ InOrder /\ OldReads /\ ViewTells
      /\ CH!ThinkingIsRunning /\ CH!ChosenNameStays
  BY DEF ChatInv
<1> DEFINE n == Len(rows) + 1
<1>1. /\ turn.at = "run" /\ CH!Exists /\ CH!Line(turn.post, "ack") /\ CH!Ping
      /\ UNCHANGED <<name, aged, deleting, post, asked, since, window, queue, turn, reply, active,
                     connected, CH!tab, chosen, overlapped, again>>
  BY DEF CH!Acknowledge, CH!store, CH!handling, CH!answering
<1>2. turn.post \in Posts
  BY <1>0, <1>1, ChatTurnFacts
<1>r. /\ rows' \in Seq(LineSet) /\ DOMAIN rows' = DOMAIN rows \cup {n} /\ rows'[n].kind = "ack"
      /\ \A i \in DOMAIN rows : rows'[i] = rows[i]
      /\ \A i, q, k : IsLine(i, q, k)' <=> IsLine(i, q, k) \/ (i = n /\ q = turn.post /\ k = "ack")
  BY <1>0, <1>1, <1>2, Lined
<1> HIDE DEF n
<1>3. ViewTells' /\ timer' \in BOOLEAN
  BY <1>0, <1>1, ViewPinged
<1>4. ChatTypes'
  BY <1>0, <1>1, <1>r, <1>3 DEF ChatTypes, CH!tab
<1>5. Transcript'
  <2>1. \A i, q, k : k \in {"user", "reply"} =>
          (IsLine(i, q, k)' <=> IsLine(i, q, k)) /\ (IsLine(i, q, k) => i \in DOMAIN rows)
    BY <1>r DEF IsLine
  <2>2. \A q \in Posts, kind \in {"user", "reply"} :
          kind = "user" \/ q \notin again => \A i, j \in DOMAIN rows' :
          IsLine(i, q, kind)' /\ IsLine(j, q, kind)' => i = j
    BY <2>1, <1>0 DEF Transcript
  <2>3. \A q \in Posts : \A i \in DOMAIN rows' :
          /\ IsLine(i, q, "user")' => post[q] \in {"window", "enqueue", "queued", "failed"}
          /\ IsLine(i, q, "reply")' => (reply[q] = "stored" \/ q \in again) /\ rows'[i].live
    BY <2>1, <1>0, <1>r DEF Transcript
  <2>4. \A q \in Posts :
          /\ post[q] \in {"window", "enqueue", "queued"} => \E i \in DOMAIN rows' : IsLine(i, q, "user")'
          /\ reply[q] = "stored" => \E i \in DOMAIN rows' : IsLine(i, q, "reply")'
          /\ reply[q] # "dropped"
    BY <2>1, <1>0, <1>1, <1>r DEF Transcript
  <2>5. CH!Exists' /\ post' = post /\ reply' = reply /\ again' = again
    BY <1>1 DEF CH!Exists
  <2> QED  BY <2>2, <2>3, <2>4, <2>5 DEF Transcript
<1>6. InOrder' /\ HandlersAlone'
  BY <1>0, <1>1, <1>2, OrderLined
<1>7. OldReads' /\ PostTurns'
  BY <1>0, <1>1, LoadsStay, TurnsStay
<1>8. CH!ThinkingIsRunning' /\ CH!ChosenNameStays'
  BY <1>0, <1>1 DEF CH!ThinkingIsRunning, CH!ChosenNameStays
<1> QED  BY <1>3, <1>4, <1>5, <1>6, <1>7, <1>8 DEF ChatInv

\* It is retracted: no window loses what counts.
LEMMA RetractKeeps ==
  ASSUME ChatInv, NEW i \in DOMAIN rows, CH!Retract(i)
  PROVE  ChatInv'
<1>0. /\ ChatTypes /\ PostTurns /\ Transcript /\ HandlersAlone /\ InOrder /\ OldReads /\ ViewTells
      /\ CH!ThinkingIsRunning /\ CH!ChosenNameStays
  BY DEF ChatInv
<1>1. /\ rows[i] = [post |-> turn.post, kind |-> "ack", live |-> TRUE]
      /\ rows' = [rows EXCEPT ![i].live = FALSE] /\ CH!Ping
      /\ UNCHANGED <<name, aged, deleting, post, asked, since, window, queue, turn, reply, active,
                     connected, CH!tab, chosen, overlapped, again>>
  BY DEF CH!Retract, CH!handling, CH!answering
<1>2. rows[i] \in LineSet /\ rows[i].kind = "ack" /\ rows \in [1..Len(rows) -> LineSet] /\ Len(rows) \in Nat
  <2>1. rows[i].kind = "ack"
    BY <1>1
  <2>2. rows \in Seq(LineSet)
    BY <1>0 DEF ChatTypes
  <2> QED  BY <2>1, <2>2, <1>0, LineFacts, LenProperties
<1> DEFINE r == [rows[i] EXCEPT !.live = FALSE]
<1>3. r \in LineSet /\ r.post = rows[i].post /\ r.kind = "ack"
  BY <1>2 DEF LineSet
<1>4. rows' = [rows EXCEPT ![i] = r]
  BY <1>1
<1> HIDE DEF r
<1>5. /\ rows' \in Seq(LineSet) /\ DOMAIN rows' = DOMAIN rows
      /\ rows'[i] = r /\ \A j \in DOMAIN rows \ {i} : rows'[j] = rows[j]
  <2>1. rows' \in [1..Len(rows) -> LineSet]
    BY <1>2, <1>3, <1>4
  <2>2. rows' \in Seq(LineSet)
    BY <2>1, <1>2, SeqDef
  <2> QED  BY <2>2, <1>2, <1>4
<1>6. /\ \A j, q, k : IsLine(j, q, k)' <=> IsLine(j, q, k)
      /\ \A j \in DOMAIN rows : /\ rows'[j].kind = rows[j].kind
                                /\ rows'[j].live => j # i
                                /\ j # i => rows'[j] = rows[j]
  <2>1. rows'[i].live = FALSE
    BY <1>2, <1>5 DEF r, LineSet
  <2> QED  BY <2>1, <1>2, <1>3, <1>5 DEF IsLine
<1>7. ViewTells' /\ timer' \in BOOLEAN
  BY <1>0, <1>1, ViewPinged
<1>8. ChatTypes'
  BY <1>0, <1>1, <1>5, <1>7 DEF ChatTypes, CH!tab
<1>9. Transcript'
  <2>1. \A q \in Posts, kind \in {"user", "reply"} :
          kind = "user" \/ q \notin again => \A j, k \in DOMAIN rows :
          IsLine(j, q, kind) /\ IsLine(k, q, kind) => j = k
    BY <1>0 DEF Transcript
  <2>2. \A q \in Posts : \A j \in DOMAIN rows :
          /\ IsLine(j, q, "user") => post[q] \in {"window", "enqueue", "queued", "failed"}
          /\ IsLine(j, q, "reply") => (reply[q] = "stored" \/ q \in again) /\ rows'[j].live
    <3> SUFFICES ASSUME NEW q \in Posts, NEW j \in DOMAIN rows
                 PROVE  /\ IsLine(j, q, "user") => post[q] \in {"window", "enqueue", "queued", "failed"}
                        /\ IsLine(j, q, "reply") => (reply[q] = "stored" \/ q \in again) /\ rows'[j].live
      OBVIOUS
    <3>1. IsLine(j, q, "reply") => j # i
      BY <1>2 DEF IsLine
    <3> QED  BY <3>1, <1>0, <1>6 DEF Transcript
  <2>3. CH!Exists => \A q \in Posts :
          /\ post[q] \in {"window", "enqueue", "queued"} => \E j \in DOMAIN rows : IsLine(j, q, "user")
          /\ reply[q] = "stored" => \E j \in DOMAIN rows : IsLine(j, q, "reply")
          /\ reply[q] # "dropped"
    BY <1>0 DEF Transcript
  <2>4. CH!Exists
    <3>1. rows = <<>> => DOMAIN rows = {}
      OBVIOUS
    <3> QED  BY <3>1, <1>0 DEF Transcript
  <2>5. CH!Exists' /\ post' = post /\ reply' = reply /\ again' = again /\ DOMAIN rows' = DOMAIN rows
    BY <2>4, <1>1, <1>5 DEF CH!Exists
  <2> QED  BY <2>1, <2>2, <2>3, <2>4, <2>5, <1>6 DEF Transcript
<1>10. InOrder' /\ HandlersAlone'
  <2>1. \A q, s : Before(q, s)' <=> Before(q, s)
    BY <1>5, <1>6 DEF Before
  <2>2. \A q : HasWindow(q) => HasWindow(q)'
    <3> SUFFICES ASSUME NEW q, HasWindow(q)
                 PROVE  HasWindow(q)'
      OBVIOUS
    <3>1. /\ window[q] \subseteq DOMAIN rows
          /\ \A j, k \in DOMAIN rows : IsLine(j, q, "user") =>
               /\ rows[k].live /\ since[q] < k /\ k < j => k \in window[q]
               /\ k \in window[q] /\ rows[k].kind = "user" => k < j
      BY DEF HasWindow
    <3>2. \A k \in DOMAIN rows : rows'[k].live => rows[k].live
      BY <1>6
    <3>3. window' = window /\ since' = since
      BY <1>1
    <3> QED  BY <3>1, <3>2, <3>3, <1>5, <1>6 DEF HasWindow
  <2>3. InOrder'
    <3> SUFFICES ASSUME CH!Exists
                 PROVE  InOrder'
      BY <1>1 DEF InOrder, CH!Exists
    <3>1. /\ \A j, k \in DOMAIN queue : j < k /\ queue[j] \notin overlapped /\ queue[k] \notin again =>
               Before(queue[j], queue[k])
          /\ \A p, q \in Posts :
               post[p] = "queued" /\ p \notin overlapped /\ post[q] \in {"window", "enqueue"} => Before(p, q)
          /\ \A p \in Posts \ overlapped : post[p] = "window" =>
               \A j, k \in DOMAIN rows : IsLine(j, p, "user") /\ rows[k].kind = "user" => k <= j
          /\ \A p \in Posts \ overlapped : post[p] \in {"enqueue", "queued"} => HasWindow(p)
      BY <1>0 DEF InOrder
    <3>2. queue' = queue /\ overlapped' = overlapped /\ again' = again /\ post' = post
      BY <1>1
    <3> QED  BY <3>1, <3>2, <2>1, <2>2, <1>5, <1>6 DEF InOrder
  <2>4. HandlersAlone'
    BY <1>0, <1>1 DEF HandlersAlone, CH!InHandler
  <2> QED  BY <2>3, <2>4
<1>11. OldReads' /\ PostTurns'
  BY <1>0, <1>1, LoadsStay, TurnsStay
<1>12. CH!ThinkingIsRunning' /\ CH!ChosenNameStays'
  BY <1>0, <1>1 DEF CH!ThinkingIsRunning, CH!ChosenNameStays
<1> QED  BY <1>7, <1>8, <1>9, <1>10, <1>11, <1>12 DEF ChatInv

\* The thread keeps its place, whatever its name.
LEMMA NameChanges ==
  ASSUME Transcript, InOrder, HandlersAlone, CH!Exists, CH!Exists',
         UNCHANGED <<rows, queue, since, window, post, reply, overlapped, again>>
  PROVE  Transcript' /\ InOrder' /\ HandlersAlone'
<1>1. \A i, p, kind : IsLine(i, p, kind)' <=> IsLine(i, p, kind)
  BY DEF IsLine
<1>2. \A p, q : Before(p, q)' <=> Before(p, q)
  BY <1>1 DEF Before
<1>3. \A p : HasWindow(p)' <=> HasWindow(p)
  BY <1>1 DEF HasWindow
<1>4. InOrder'
  BY <1>1, <1>2, <1>3 DEF InOrder
<1>5. Transcript'
  BY <1>1 DEF Transcript
<1>6. HandlersAlone'
  BY DEF HandlersAlone, CH!InHandler
<1> QED  BY <1>4, <1>5, <1>6

\* The thread gets a title, or not.
LEMMA NameThreadKeeps ==
  ASSUME ChatInv, CH!NameThread
  PROVE  ChatInv'
<1>0. /\ ChatTypes /\ PostTurns /\ Transcript /\ HandlersAlone /\ InOrder /\ OldReads /\ ViewTells
      /\ CH!ThinkingIsRunning /\ CH!ChosenNameStays
  BY DEF ChatInv
<1>1. /\ turn.at = "name" /\ turn' = [turn EXCEPT !.at = "settle"]
      /\ \/ name = "placeholder" /\ name' = "generated"
         \/ name' = name
      /\ IF name' # name THEN CH!Ping ELSE CH!Quietly
      /\ UNCHANGED <<rows, aged, deleting, post, asked, since, window, queue, reply, active,
                     connected, CH!tab, chosen, overlapped, again>>
  BY DEF CH!NameThread, CH!SetGeneratedTitle, CH!handling
<1>2. PostTurns' /\ turn' \in TurnSet /\ turn'.post = turn.post
  BY <1>0, <1>1, TurnGoesOn
<1>3. ViewTells' /\ timer' \in BOOLEAN
  <2>1. CASE name' # name
    BY <2>1, <1>0, <1>1, ViewPinged
  <2>2. CASE name' = name
    <3>1. Owed' <=> Owed
      BY <1>1 DEF Owed
    <3>2. timer' = timer /\ timer \in BOOLEAN
      BY <2>2, <1>0, <1>1 DEF CH!Quietly, ChatTypes
    <3> QED  BY <3>1, <3>2, <2>2, <1>0, <1>1, ViewQuiet
  <2> QED  BY <2>1, <2>2
<1>4. ChatTypes'
  <2>1. name' \in ThreadNames
    BY <1>0, <1>1 DEF ChatTypes, ThreadNames
  <2> QED  BY <2>1, <1>0, <1>1, <1>2, <1>3 DEF ChatTypes, CH!tab
<1>5. Transcript' /\ InOrder' /\ HandlersAlone'
  <2>1. CASE name' = name
    <3>1. \A p \in Posts : CH!Exists => reply[p] # "dropped"
      BY <1>0 DEF Transcript
    <3> QED  BY <3>1, <2>1, <1>0, <1>1, TranscriptStays, OrderStays
  <2>2. CASE name' # name
    <3>1. CH!Exists /\ CH!Exists'
      BY <2>2, <1>1 DEF CH!Exists
    <3> QED  BY <3>1, <1>0, <1>1, NameChanges
  <2> QED  BY <2>1, <2>2
<1>7. OldReads'
  BY <1>0, <1>1, LoadsStay
<1>8. CH!ThinkingIsRunning' /\ CH!ChosenNameStays'
  BY <1>0, <1>1, <1>2 DEF CH!ThinkingIsRunning, CH!ChosenNameStays
<1> QED  BY <1>2, <1>3, <1>4, <1>5, <1>7, <1>8 DEF ChatInv

\* A person names it.
LEMMA RenameKeeps ==
  ASSUME ChatInv, CH!Rename
  PROVE  ChatInv'
<1>0. /\ ChatTypes /\ PostTurns /\ Transcript /\ HandlersAlone /\ InOrder /\ OldReads /\ ViewTells
      /\ CH!ThinkingIsRunning /\ CH!ChosenNameStays
  BY DEF ChatInv
<1>1. /\ CH!Exists /\ name' = "chosen" /\ chosen' = TRUE /\ CH!Ping
      /\ UNCHANGED <<rows, aged, deleting, post, asked, since, window, queue, turn, reply, active,
                     connected, CH!tab, overlapped, again>>
  BY DEF CH!Rename, CH!handling, CH!answering
<1>3. ViewTells' /\ timer' \in BOOLEAN
  BY <1>0, <1>1, ViewPinged
<1>4. ChatTypes'
  <2>1. name' \in ThreadNames
    BY <1>1 DEF ThreadNames
  <2> QED  BY <2>1, <1>0, <1>1, <1>3 DEF ChatTypes, CH!tab
<1>5. Transcript' /\ InOrder' /\ HandlersAlone'
  <2>1. CH!Exists'
    BY <1>1 DEF CH!Exists
  <2> QED  BY <2>1, <1>0, <1>1, NameChanges
<1>7. OldReads' /\ PostTurns'
  BY <1>0, <1>1, LoadsStay, TurnsStay
<1>8. CH!ThinkingIsRunning' /\ CH!ChosenNameStays'
  BY <1>0, <1>1 DEF CH!ThinkingIsRunning, CH!ChosenNameStays
<1> QED  BY <1>3, <1>4, <1>5, <1>7, <1>8 DEF ChatInv

\* A deletion begins: a ping is owed.
LEMMA DeleteKeeps ==
  ASSUME ChatInv, CH!Delete
  PROVE  ChatInv'
<1>0. /\ ChatTypes /\ PostTurns /\ Transcript /\ HandlersAlone /\ InOrder /\ OldReads /\ ViewTells
      /\ CH!ThinkingIsRunning /\ CH!ChosenNameStays
  BY DEF ChatInv
<1>1. /\ deleting' = TRUE /\ active' = CH!None /\ CH!Quietly
      /\ UNCHANGED <<name, rows, aged, post, asked, since, window, queue, turn, reply, connected, CH!tab,
                     chosen, overlapped, again>>
  BY DEF CH!Delete, CH!handling, CH!answering
<1>3. ViewTells'
  <2>1. Owed'
    BY <1>1 DEF Owed
  <2> QED  BY <2>1, <1>0, <1>1, ViewQuiet
<1>4. ChatTypes'
  BY <1>0, <1>1 DEF ChatTypes, CH!tab, CH!Quietly
<1>5. Transcript'
  <2>1. \A p \in Posts : CH!Exists => reply[p] # "dropped"
    BY <1>0 DEF Transcript
  <2> QED  BY <2>1, <1>0, <1>1, TranscriptStays
<1>6. InOrder' /\ HandlersAlone'
  BY <1>0, <1>1, OrderStays
<1>7. OldReads' /\ PostTurns'
  BY <1>0, <1>1, LoadsStay, TurnsStay
<1>8. CH!ThinkingIsRunning' /\ CH!ChosenNameStays'
  BY <1>0, <1>1 DEF CH!ThinkingIsRunning, CH!ChosenNameStays
<1> QED  BY <1>3, <1>4, <1>5, <1>6, <1>7, <1>8 DEF ChatInv

\* The thread is gone.
LEMMA DeleteRowKeeps ==
  ASSUME ChatInv, CH!DeleteRow
  PROVE  ChatInv'
<1>0. /\ ChatTypes /\ PostTurns /\ Transcript /\ HandlersAlone /\ InOrder /\ OldReads /\ ViewTells
      /\ CH!ThinkingIsRunning /\ CH!ChosenNameStays
  BY DEF ChatInv
<1>1. /\ deleting' = FALSE /\ name' = "gone" /\ rows' = <<>> /\ aged' = 0 /\ CH!Ping
      /\ UNCHANGED <<post, asked, since, window, queue, turn, reply, active, connected, CH!tab,
                     chosen, overlapped, again>>
  BY DEF CH!DeleteRow, CH!handling, CH!answering
<1>2. ~CH!Exists' /\ DOMAIN rows' = {}
  BY <1>1 DEF CH!Exists
<1>3. ViewTells' /\ timer' \in BOOLEAN
  BY <1>0, <1>1, ViewPinged
<1>4. ChatTypes'
  <2>1. name' \in ThreadNames /\ rows' \in Seq(LineSet)
    BY <1>1, EmptySeq DEF ThreadNames
  <2> QED  BY <2>1, <1>0, <1>1, <1>3 DEF ChatTypes, CH!tab
<1>5. Transcript'
  BY <1>1, <1>2 DEF Transcript
<1>6. InOrder' /\ HandlersAlone'
  BY <1>0, <1>1, <1>2 DEF InOrder, HandlersAlone, CH!InHandler
<1>7. OldReads' /\ PostTurns'
  BY <1>0, <1>1, LoadsStay, TurnsStay
<1>8. CH!ThinkingIsRunning' /\ CH!ChosenNameStays'
  BY <1>0, <1>1 DEF CH!ThinkingIsRunning, CH!ChosenNameStays
<1> QED  BY <1>3, <1>4, <1>5, <1>6, <1>7, <1>8 DEF ChatInv

\* A delivery that was begun goes on.
LEMMA ReplyMoves ==
  ASSUME ChatTypes, PostTurns, NEW p \in Posts, reply[p] # "none",
         NEW v \in {"none", "handed", "found", "stored", "dropped", "lost"},
         reply' = [reply EXCEPT ![p] = v], UNCHANGED <<queue, turn, post>>
  PROVE  PostTurns'
<1>1. reply'[p] = v /\ \A q \in Posts \ {p} : reply'[q] = reply[q]
  BY ReplySetAt
<1>2. post[p] = "queued" /\ \A i \in DOMAIN queue : queue[i] # p /\ queue[i] \in Posts
  BY DEF PostTurns, ChatTypes
<1>3. turn.post # CH!None => turn.post \in Posts
  BY ChatTurnFacts
<1> QED  BY <1>1, <1>2, <1>3 DEF PostTurns

\* The delivery looks for the thread.
LEMMA LookKeeps ==
  ASSUME ChatInv, NEW p \in Posts, CH!Look(p)
  PROVE  ChatInv'
<1>0. /\ ChatTypes /\ PostTurns /\ Transcript /\ HandlersAlone /\ InOrder /\ OldReads /\ ViewTells
      /\ CH!ThinkingIsRunning /\ CH!ChosenNameStays
  BY DEF ChatInv
<1> DEFINE v == IF CH!Exists THEN "found" ELSE "dropped"
<1>1. /\ reply[p] = "handed" /\ reply' = [reply EXCEPT ![p] = v] /\ CH!Quietly
      /\ UNCHANGED <<name, rows, aged, deleting, post, asked, since, window, queue, turn, active,
                     connected, CH!tab, chosen, overlapped, again>>
  BY DEF CH!Look, CH!store, CH!handling
<1>v. v \in {"found", "dropped"} /\ (CH!Exists => v # "dropped")
  OBVIOUS
<1> HIDE DEF v
<1>2. /\ reply' \in [Posts -> {"none", "handed", "found", "stored", "dropped", "lost"}]
      /\ reply'[p] = v /\ \A q \in Posts \ {p} : reply'[q] = reply[q]
  BY <1>0, <1>1, <1>v, ReplySetAt
<1>3. ViewTells'
  <2>1. Owed' <=> Owed
    BY <1>1 DEF Owed
  <2> QED  BY <2>1, <1>0, <1>1, ViewQuiet
<1>4. ChatTypes'
  BY <1>0, <1>1, <1>2 DEF ChatTypes, CH!tab, CH!Quietly
<1>5. Transcript'
  <2>1. \A q \in Posts :
          (reply'[q] = "stored" <=> reply[q] = "stored") /\ (CH!Exists => reply'[q] # "dropped")
    BY <1>0, <1>1, <1>2, <1>v DEF Transcript
  <2> QED  BY <2>1, <1>0, <1>1, TranscriptStays
<1>6. InOrder' /\ HandlersAlone'
  BY <1>0, <1>1, OrderStays
<1>7. OldReads'
  BY <1>0, <1>1, LoadsStay
<1>8. PostTurns'
  BY <1>0, <1>1, <1>v, ReplyMoves
<1>9. CH!ThinkingIsRunning' /\ CH!ChosenNameStays'
  BY <1>0, <1>1 DEF CH!ThinkingIsRunning, CH!ChosenNameStays
<1> QED  BY <1>3, <1>4, <1>5, <1>6, <1>7, <1>8, <1>9 DEF ChatInv

\* The thread went, or the delivery failed.
LEMMA ReplyLostKeeps ==
  ASSUME ChatInv, NEW p \in Posts, reply[p] \in {"handed", "found"}, CH!Quietly,
         NEW v \in {"dropped", "lost"}, v = "dropped" => ~CH!Exists,
         reply' = [reply EXCEPT ![p] = v],
         UNCHANGED <<name, rows, aged, deleting, post, asked, since, window, queue, turn, active,
                     connected, CH!tab, chosen, overlapped, again>>
  PROVE  ChatInv'
<1>0. /\ ChatTypes /\ PostTurns /\ Transcript /\ HandlersAlone /\ InOrder /\ OldReads /\ ViewTells
      /\ CH!ThinkingIsRunning /\ CH!ChosenNameStays
  BY DEF ChatInv
<1>2. /\ reply' \in [Posts -> {"none", "handed", "found", "stored", "dropped", "lost"}]
      /\ reply'[p] = v /\ \A q \in Posts \ {p} : reply'[q] = reply[q]
  BY <1>0, ReplySetAt
<1>3. ViewTells'
  <2>1. Owed' <=> Owed
    BY DEF Owed
  <2> QED  BY <2>1, <1>0, ViewQuiet
<1>4. ChatTypes'
  BY <1>0, <1>2 DEF ChatTypes, CH!tab, CH!Quietly
<1>5. Transcript'
  <2>1. \A q \in Posts :
          (reply'[q] = "stored" <=> reply[q] = "stored") /\ (CH!Exists => reply'[q] # "dropped")
    BY <1>0, <1>2 DEF Transcript
  <2> QED  BY <2>1, <1>0, TranscriptStays
<1>6. InOrder' /\ HandlersAlone'
  BY <1>0, OrderStays
<1>7. OldReads'
  BY <1>0, LoadsStay
<1>8. PostTurns'
  BY <1>0, ReplyMoves
<1>9. CH!ThinkingIsRunning' /\ CH!ChosenNameStays'
  BY <1>0 DEF CH!ThinkingIsRunning, CH!ChosenNameStays
<1> QED  BY <1>3, <1>4, <1>5, <1>6, <1>7, <1>8, <1>9 DEF ChatInv

\* The answer is stored.
LEMMA ReplyStoredKeeps ==
  ASSUME ChatInv, NEW p \in Posts, reply[p] = "found", CH!Exists, CH!Line(p, "reply"), CH!Ping,
         reply' = [reply EXCEPT ![p] = "stored"],
         UNCHANGED <<name, aged, deleting, post, asked, since, window, queue, turn, active,
                     connected, CH!tab, chosen, overlapped, again>>
  PROVE  ChatInv'
<1>0. /\ ChatTypes /\ PostTurns /\ Transcript /\ HandlersAlone /\ InOrder /\ OldReads /\ ViewTells
      /\ CH!ThinkingIsRunning /\ CH!ChosenNameStays
  BY DEF ChatInv
<1> DEFINE n == Len(rows) + 1
<1>r. /\ rows' \in Seq(LineSet) /\ DOMAIN rows' = DOMAIN rows \cup {n} /\ n \notin DOMAIN rows
      /\ rows'[n].live = TRUE
      /\ \A i \in DOMAIN rows : rows'[i] = rows[i]
      /\ \A i, q, k : IsLine(i, q, k)' <=> IsLine(i, q, k) \/ (i = n /\ q = p /\ k = "reply")
  BY <1>0, Lined
<1> HIDE DEF n
<1>2. /\ reply' \in [Posts -> {"none", "handed", "found", "stored", "dropped", "lost"}]
      /\ reply'[p] = "stored" /\ \A q \in Posts \ {p} : reply'[q] = reply[q]
  BY <1>0, ReplySetAt
<1>3. ViewTells' /\ timer' \in BOOLEAN
  BY <1>0, ViewPinged
<1>4. ChatTypes'
  BY <1>0, <1>r, <1>2, <1>3 DEF ChatTypes, CH!tab
<1>5. Transcript'
  <2>0. /\ p \notin again => \A i : ~IsLine(i, p, "reply")
        /\ \A i, q, k : IsLine(i, q, k) => i \in DOMAIN rows
    BY <1>0 DEF Transcript, IsLine
  <2>1. \A i, q : /\ IsLine(i, q, "user")' <=> IsLine(i, q, "user")
                  /\ IsLine(i, q, "reply")' <=> IsLine(i, q, "reply") \/ (i = n /\ q = p)
    BY <1>r
  <2>2. \A q \in Posts, kind \in {"user", "reply"} :
          kind = "user" \/ q \notin again => \A i, j \in DOMAIN rows' :
          IsLine(i, q, kind)' /\ IsLine(j, q, kind)' => i = j
    BY <2>0, <2>1, <1>0 DEF Transcript
  <2>3. \A q \in Posts : \A i \in DOMAIN rows' :
          /\ IsLine(i, q, "user")' => post[q] \in {"window", "enqueue", "queued", "failed"}
          /\ IsLine(i, q, "reply")' => (reply'[q] = "stored" \/ q \in again) /\ rows'[i].live
    <3> SUFFICES ASSUME NEW q \in Posts, NEW i \in DOMAIN rows'
                 PROVE  /\ IsLine(i, q, "user")' => post[q] \in {"window", "enqueue", "queued", "failed"}
                        /\ IsLine(i, q, "reply")' => (reply'[q] = "stored" \/ q \in again) /\ rows'[i].live
      OBVIOUS
    <3>1. IsLine(i, q, "user") => post[q] \in {"window", "enqueue", "queued", "failed"}
      BY <2>0, <1>0 DEF Transcript
    <3>2. IsLine(i, q, "reply") =>
            i \in DOMAIN rows /\ (reply[q] = "stored" \/ q \in again) /\ rows[i].live
      BY <2>0, <1>0 DEF Transcript
    <3> QED  BY <3>1, <3>2, <2>1, <1>r, <1>2
  <2>4. \A q \in Posts :
          /\ post[q] \in {"window", "enqueue", "queued"} => \E i \in DOMAIN rows' : IsLine(i, q, "user")'
          /\ reply'[q] = "stored" => \E i \in DOMAIN rows' : IsLine(i, q, "reply")'
          /\ reply'[q] # "dropped"
    BY <2>1, <1>0, <1>r, <1>2 DEF Transcript
  <2>5. CH!Exists' /\ post' = post /\ again' = again
    BY DEF CH!Exists
  <2> QED  BY <2>2, <2>3, <2>4, <2>5 DEF Transcript
<1>6. InOrder' /\ HandlersAlone'
  BY <1>0, OrderLined
<1>7. OldReads'
  BY <1>0, LoadsStay
<1>8. PostTurns'
  BY <1>0, ReplyMoves
<1>9. CH!ThinkingIsRunning' /\ CH!ChosenNameStays'
  BY <1>0 DEF CH!ThinkingIsRunning, CH!ChosenNameStays
<1> QED  BY <1>3, <1>4, <1>5, <1>6, <1>7, <1>8, <1>9 DEF ChatInv

\* The message is stored, or the post fails.
LEMMA AppendPostKeeps ==
  ASSUME ChatInv, NEW p \in Posts, CH!AppendPost(p)
  PROVE  ChatInv'
<1>1. /\ post[p] = "append" /\ CH!Quietly
      /\ UNCHANGED <<name, aged, deleting, asked, since, window, queue, turn, reply, active,
                     connected, CH!tab, chosen, overlapped, again>>
  BY DEF CH!AppendPost, CH!answering
<1>2. CASE CH!Exists /\ CH!Line(p, "user") /\ post' = [post EXCEPT ![p] = "window"]
  BY <1>1, <1>2, PostStoredKeeps
<1>3. CASE ~CH!Exists /\ post' = [post EXCEPT ![p] = "failed"] /\ UNCHANGED rows
  <2>1. ChatTypes /\ ViewTells
    BY DEF ChatInv
  <2>2. post'[p] = "failed" /\ \A q \in Posts \ {p} : post'[q] = post[q]
    BY <1>3, <2>1, PostSetAt
  <2>3. Owed' <=> Owed
    BY <1>1, <2>2 DEF Owed
  <2>4. ViewTells'
    BY <1>1, <1>3, <2>1, <2>3, ViewQuiet
  <2>5. timer' = timer
    BY <1>1 DEF CH!Quietly
  <2> QED  BY <1>1, <1>3, <2>4, <2>5, PostFailsKeeps
<1> QED  BY <1>2, <1>3 DEF CH!AppendPost

\* The turn is not queued.
LEMMA EnqueueFailsKeeps ==
  ASSUME ChatInv, NEW p \in Posts, CH!EnqueueFails(p)
  PROVE  ChatInv'
<1>1. /\ post[p] = "enqueue" /\ post' = [post EXCEPT ![p] = "failed"]
      /\ behind' = behind \cup {"unpinged"}
      /\ UNCHANGED <<name, rows, aged, deleting, asked, since, window, queue, turn, reply, active,
                     connected, timer, CH!tab, chosen, overlapped, again>>
  BY DEF CH!EnqueueFails, CH!store, CH!answering
<1>2. behind' # {}
  BY <1>1
<1>3. ViewTells'
  BY <1>2 DEF ViewTells
<1> QED  BY <1>1, <1>3, PostFailsKeeps

\* The answer is stored, or the thread went.
LEMMA StoreReplyKeeps ==
  ASSUME ChatInv, NEW p \in Posts, CH!StoreReply(p)
  PROVE  ChatInv'
<1>1. /\ reply[p] = "found"
      /\ UNCHANGED <<name, aged, deleting, post, asked, since, window, queue, turn, active,
                     connected, CH!tab, chosen, overlapped, again>>
  BY DEF CH!StoreReply, CH!handling
<1>2. CASE CH!Exists /\ CH!Line(p, "reply") /\ CH!Ping /\ reply' = [reply EXCEPT ![p] = "stored"]
  BY <1>1, <1>2, ReplyStoredKeeps
<1>3. CASE ~CH!Exists /\ UNCHANGED rows /\ CH!Quietly /\ reply' = [reply EXCEPT ![p] = "dropped"]
  <2>1. "dropped" \in {"dropped", "lost"} /\ reply[p] \in {"handed", "found"}
    BY <1>1
  <2> QED  BY <2>1, <1>1, <1>3, ReplyLostKeeps
<1> QED  BY <1>2, <1>3 DEF CH!StoreReply

\* What only the tab knows of.
LEMMA TabKeeps ==
  ASSUME ChatInv, ChatTypes', OldReads', ViewTells',
         UNCHANGED <<name, rows, deleting, post, asked, since, window, queue, turn, reply,
                     active, chosen, overlapped, again>>
  PROVE  ChatInv'
<1>0. /\ ChatTypes /\ PostTurns /\ Transcript /\ HandlersAlone /\ InOrder
      /\ CH!ThinkingIsRunning /\ CH!ChosenNameStays
  BY DEF ChatInv
<1>1. Transcript'
  <2>1. \A p \in Posts : CH!Exists => reply[p] # "dropped"
    BY <1>0 DEF Transcript
  <2> QED  BY <2>1, <1>0, TranscriptStays
<1>2. InOrder' /\ HandlersAlone'
  BY <1>0, OrderStays
<1>3. PostTurns'
  BY <1>0, TurnsStay
<1>4. CH!ThinkingIsRunning' /\ CH!ChosenNameStays'
  BY <1>0 DEF CH!ThinkingIsRunning, CH!ChosenNameStays
<1> QED  BY <1>1, <1>2, <1>3, <1>4 DEF ChatInv

\* The stream is lost and comes back.
LEMMA StreamKeeps ==
  ASSUME ChatInv, CH!Drop \/ CH!Reconnect
  PROVE  ChatInv'
<1>0. ChatTypes /\ OldReads /\ ViewTells
  BY DEF ChatInv
<1>1. /\ connected' \in BOOLEAN /\ CH!Quietly
      /\ UNCHANGED <<name, rows, aged, deleting, post, asked, since, window, queue, turn, reply,
                     active, CH!tab, chosen, overlapped, again>>
  BY DEF CH!Drop, CH!Reconnect, CH!store, CH!handling, CH!answering
<1>2. ChatTypes'
  BY <1>0, <1>1 DEF ChatTypes, CH!Quietly, CH!tab
<1>3. OldReads'
  BY <1>0, <1>1, LoadsStay
<1>4. ViewTells'
  <2>1. Owed' <=> Owed
    BY <1>1 DEF Owed
  <2> QED  BY <2>1, <1>0, <1>1, ViewQuiet
<1> QED  BY <1>1, <1>2, <1>3, <1>4, TabKeeps

\* A read is started: it has nothing yet.
LEMMA TimerFiresKeeps ==
  ASSUME ChatInv, CH!TimerFires
  PROVE  ChatInv'
<1> DEFINE load == [at |-> "rows", was |-> CH!Nothing, old |-> FALSE]
           n == Len(loads) + 1
<1>0. ChatTypes /\ OldReads
  BY DEF ChatInv
<1>1. /\ timer' = FALSE /\ Len(loads) < MaxLoads /\ loads' = Append(loads, load)
      /\ UNCHANGED <<name, rows, aged, deleting, post, asked, since, window, queue, turn, reply,
                     active, connected, shown, overtaken, chosen, overlapped, again, behind>>
  BY DEF CH!TimerFires, CH!StartLoad, CH!store, CH!handling, CH!answering
<1>2. load \in LoadSet /\ load.at = "rows" /\ load.old = FALSE
  BY DEF LoadSet, ViewSet, CH!Nothing
<1>3. loads \in Seq(LoadSet)
  BY <1>0 DEF ChatTypes
<1> HIDE DEF load
<1>4. /\ loads' \in Seq(LoadSet) /\ Len(loads') = n /\ Len(loads) \in Nat
      /\ DOMAIN loads = 1..Len(loads) /\ DOMAIN loads' = 1..n
      /\ loads'[n] = load /\ \A i \in DOMAIN loads : loads'[i] = loads[i]
  BY <1>1, <1>2, <1>3, ReadStarted
<1>5. MaxLoads \in Nat
  BY ChatAssumption
<1>6. ChatTypes'
  <2>1. Len(loads') <= MaxLoads
    BY <1>1, <1>4, <1>5
  <2> QED  BY <2>1, <1>0, <1>1, <1>4 DEF ChatTypes
<1>7. OldReads'
  <2> SUFFICES ASSUME NEW i \in DOMAIN loads', NEW j \in DOMAIN loads', i < j, loads'[j].old
               PROVE  loads'[i].old
    BY DEF OldReads
  <2>1. j # n
    BY <1>2, <1>4
  <2>2. i \in DOMAIN loads /\ j \in DOMAIN loads
    BY <2>1, <1>4
  <2> QED  BY <2>2, <1>0, <1>4 DEF OldReads
<1>8. ViewTells'
  <2>1. loads' # <<>>
    BY <1>4, EmptySeq
  <2>2. loads'[Len(loads')].at = "rows"
    BY <1>2, <1>4
  <2>3. ToTell(loads[Len(loads)])'
    BY <2>2 DEF ToTell
  <2> QED  BY <2>1, <2>3 DEF ViewTells
<1> QED  BY <1>1, <1>6, <1>7, <1>8, TabKeeps

\* One read has an answer, or half of it.
LEMMA LoadSetAt ==
  ASSUME ChatTypes, OldReads, NEW l \in DOMAIN loads, NEW load \in LoadSet, load.old = loads[l].old,
         loads' = [loads EXCEPT ![l] = load]
  PROVE  /\ loads' \in Seq(LoadSet) /\ Len(loads') = Len(loads) /\ Len(loads) \in Nat
         /\ loads'[l] = load /\ \A k \in DOMAIN loads \ {l} : loads'[k] = loads[k]
         /\ OldReads' /\ loads' # <<>> /\ Len(loads) \in DOMAIN loads
<1>1. DOMAIN loads = 1..Len(loads) /\ Len(loads) \in Nat /\ \A k \in DOMAIN loads : loads[k] \in LoadSet
  BY LoadFacts
<1>2. loads' \in [1..Len(loads) -> LoadSet]
  <2>1. loads \in [1..Len(loads) -> LoadSet]
    BY LenProperties DEF ChatTypes
  <2> QED  BY <2>1
<1>3. loads' \in Seq(LoadSet)
  BY <1>1, <1>2, SeqDef
<1>4. Len(loads') = Len(loads)
  BY <1>1, <1>2, <1>3, LenProperties
<1>5. loads'[l] = load /\ \A k \in DOMAIN loads \ {l} : loads'[k] = loads[k]
  OBVIOUS
<1>6. OldReads'
  <2>1. \A k \in DOMAIN loads : loads'[k].old = loads[k].old
    BY <1>5
  <2>2. DOMAIN loads' = DOMAIN loads
    OBVIOUS
  <2> QED  BY <2>1, <2>2 DEF OldReads
<1>7. loads' # <<>> /\ Len(loads) \in DOMAIN loads
  BY <1>1, <1>3, <1>4, EmptySeq
<1> QED  BY <1>1, <1>3, <1>4, <1>5, <1>6, <1>7

\* The reads that did not move tell what they told.
LEMMA ViewLoaded ==
  ASSUME ViewTells, NEW l \in DOMAIN loads, CH!Quietly, UNCHANGED <<name, rows, deleting, post, active>>,
         Len(loads') = Len(loads), loads # <<>>, loads' # <<>>, Len(loads) \in DOMAIN loads,
         \A k \in DOMAIN loads \ {l} : loads'[k] = loads[k], loads'[l].old = loads[l].old,
         ToTell(loads[l]) => ToTell(loads[l])'
  PROVE  ViewTells'
<1>1. timer' = timer /\ behind' = behind
  BY DEF CH!Quietly
<1>2. ToTell(loads[Len(loads)]) => ToTell(loads[Len(loads)])'
  <2>1. CASE Len(loads) = l
    <3>1. Len(loads') = l
      BY <2>1
    <3> QED  BY <2>1, <3>1
  <2>2. CASE Len(loads) # l
    <3>1. loads'[Len(loads')] = loads[Len(loads)]
      BY <2>2
    <3>2. Owed' <=> Owed
      BY DEF Owed
    <3> QED  BY <3>1, <3>2 DEF ToTell, Tells, CH!Exists, CH!Live
  <2> QED  BY <2>1, <2>2
<1>3. loads'[Len(loads')].old = loads[Len(loads)].old
  OBVIOUS
<1> QED  BY <1>1, <1>2, <1>3 DEF ViewTells

\* What is set twice at a place.
LEMMA SetTwice ==
  ASSUME NEW s, NEW l \in DOMAIN s, NEW a, NEW b
  PROVE  [[s EXCEPT ![l] = a] EXCEPT ![l] = b] = [s EXCEPT ![l] = b] /\ [s EXCEPT ![l] = a][l] = a
OBVIOUS

\* A read that moved and has more.
LEMMA HalfRead ==
  ASSUME NEW load \in LoadSet, NEW at, NEW was
  PROVE  /\ [load EXCEPT !.at = at].was = load.was
         /\ [[load EXCEPT !.at = at] EXCEPT !.was = was] = [at |-> at, was |-> was, old |-> load.old]
<1> DEFINE half == [load EXCEPT !.at = at]
<1>1. load \in [at : {"rows", "turn", "answer"}, was : ViewSet, old : BOOLEAN]
  BY DEF LoadSet
<1>2. half = [at |-> at, was |-> load.was, old |-> load.old]
  BY <1>1
<1> HIDE DEF half
<1>3. half.was = load.was /\ [half EXCEPT !.was = was] = [at |-> at, was |-> was, old |-> load.old]
  BY <1>2
<1> QED  BY <1>3 DEF half

\* The transcript and the name are read.
LEMMA ReadRowsKeeps ==
  ASSUME ChatInv, NEW l \in DOMAIN loads, CH!ReadRows(l)
  PROVE  ChatInv'
<1> DEFINE was == [rows |-> CH!Live, turn |-> CH!None, name |-> name]
           at == IF CH!Exists THEN "turn" ELSE "answer"
           load == [at |-> at, was |-> was, old |-> loads[l].old]
<1>0. ChatTypes /\ OldReads /\ ViewTells
  BY DEF ChatInv
<1>a. loads[l] \in [at : {"rows", "turn", "answer"}, was : ViewSet, old : BOOLEAN]
  BY <1>0, LoadFacts DEF LoadSet
<1>1. /\ loads' = [loads EXCEPT ![l].at = at, ![l].was = was]
      /\ CH!Quietly
      /\ UNCHANGED <<name, rows, aged, deleting, post, asked, since, window, queue, turn, reply,
                     active, connected, shown, overtaken, chosen, overlapped, again>>
  BY DEF CH!ReadRows, CH!store, CH!handling, CH!answering
<1>2. was \in ViewSet /\ was.name = name /\ was.rows = CH!Live /\ at \in {"turn", "answer"}
  <2>1. CH!Live \in SUBSET Nat /\ name \in ThreadNames \cup {"none"}
    BY <1>0, LineFacts DEF ChatTypes
  <2> QED  BY <2>1, ViewIn
<1>b. at = "answer" => ~CH!Exists
  OBVIOUS
<1> HIDE DEF was, at
<1>3. loads' = [loads EXCEPT ![l] = load]
  <2> DEFINE half == [loads[l] EXCEPT !.at = at]
             all == [loads EXCEPT ![l] = half]
  <2>1. [half EXCEPT !.was = was] = load
    BY <1>0, LoadFacts, HalfRead
  <2>2. loads' = [all EXCEPT ![l] = [all[l] EXCEPT !.was = was]]
    BY <1>1
  <2>3. all[l] = half
    OBVIOUS
  <2>4. loads' = [all EXCEPT ![l] = load]
    <3> HIDE DEF all, half, load
    <3> QED  BY <2>1, <2>2, <2>3
  <2>5. [all EXCEPT ![l] = load] = [loads EXCEPT ![l] = load]
    <3> HIDE DEF half, load
    <3> QED  BY SetTwice
  <2> QED  BY <2>4, <2>5
<1>4. load \in LoadSet /\ load.old = loads[l].old /\ load.at = at /\ load.was = was
  BY <1>2, <1>a DEF LoadSet
<1> HIDE DEF load
<1>5. /\ loads' \in Seq(LoadSet) /\ Len(loads') = Len(loads) /\ Len(loads) \in Nat
      /\ loads'[l] = load /\ \A k \in DOMAIN loads \ {l} : loads'[k] = loads[k]
      /\ OldReads' /\ loads' # <<>> /\ Len(loads) \in DOMAIN loads
  BY <1>0, <1>3, <1>4, LoadSetAt
<1>6. ChatTypes'
  BY <1>0, <1>1, <1>5 DEF ChatTypes, CH!Quietly
<1>7. ViewTells'
  <2>1. ToTell(loads[l])'
    <3>1. CH!Exists' = CH!Exists /\ CH!Live' = CH!Live /\ name' = name
      BY <1>1 DEF CH!Exists, CH!Live
    <3> QED  BY <3>1, <1>2, <1>b, <1>4, <1>5 DEF ToTell, Tells
  <2>2. loads # <<>>
    BY <1>5
  <2> QED  BY <2>1, <2>2, <1>0, <1>1, <1>4, <1>5, ViewLoaded
<1> QED  BY <1>1, <1>5, <1>6, <1>7, TabKeeps

\* The turn is read.
LEMMA ReadTurnKeeps ==
  ASSUME ChatInv, NEW l \in DOMAIN loads, CH!ReadTurn(l)
  PROVE  ChatInv'
<1> DEFINE was == [loads[l].was EXCEPT !.turn = active]
           load == [at |-> "answer", was |-> was, old |-> loads[l].old]
<1>0. ChatTypes /\ OldReads /\ ViewTells
  BY DEF ChatInv
<1>a. loads[l] \in [at : {"rows", "turn", "answer"}, was : ViewSet, old : BOOLEAN]
  BY <1>0, LoadFacts DEF LoadSet
<1>1. /\ loads[l].at = "turn" /\ loads' = [loads EXCEPT ![l].at = "answer", ![l].was.turn = active]
      /\ CH!Quietly
      /\ UNCHANGED <<name, rows, aged, deleting, post, asked, since, window, queue, turn, reply,
                     active, connected, shown, overtaken, chosen, overlapped, again>>
  BY DEF CH!ReadTurn, CH!store, CH!handling, CH!answering
<1>2. was \in ViewSet /\ was.name = loads[l].was.name /\ was.rows = loads[l].was.rows /\ was.turn = active
  <2>1. loads[l].was \in ViewSet /\ active \in Posts \cup {CH!None}
    BY <1>0, <1>a DEF ChatTypes
  <2> QED  BY <2>1 DEF ViewSet
<1>3. loads' = [loads EXCEPT ![l] = load]
  <2> DEFINE half == [loads[l] EXCEPT !.at = "answer"]
             all == [loads EXCEPT ![l] = half]
  <2>1. half.was = loads[l].was /\ [half EXCEPT !.was = was] = load
    <3> HIDE DEF was
    <3> QED  BY <1>0, LoadFacts, HalfRead
  <2>2. loads' = [all EXCEPT ![l] = [all[l] EXCEPT !.was = [all[l].was EXCEPT !.turn = active]]]
    BY <1>1
  <2>3. all[l] = half
    OBVIOUS
  <2>4. loads' = [all EXCEPT ![l] = [half EXCEPT !.was = was]]
    <3>1. loads' = [all EXCEPT ![l] = [half EXCEPT !.was = [half.was EXCEPT !.turn = active]]]
      <4> HIDE DEF all, half
      <4> QED  BY <2>2, <2>3
    <3> HIDE DEF all, half
    <3> QED  BY <3>1, <2>1
  <2>5. loads' = [all EXCEPT ![l] = load]
    <3> HIDE DEF all, half, load
    <3> QED  BY <2>1, <2>4
  <2>6. [all EXCEPT ![l] = load] = [loads EXCEPT ![l] = load]
    <3> HIDE DEF half, load
    <3> QED  BY SetTwice
  <2> QED  BY <2>5, <2>6
<1> HIDE DEF was
<1>4. load \in LoadSet /\ load.old = loads[l].old /\ load.at = "answer" /\ load.was = was
  BY <1>2, <1>a DEF LoadSet
<1> HIDE DEF load
<1>5. /\ loads' \in Seq(LoadSet) /\ Len(loads') = Len(loads) /\ Len(loads) \in Nat
      /\ loads'[l] = load /\ \A k \in DOMAIN loads \ {l} : loads'[k] = loads[k]
      /\ OldReads' /\ loads' # <<>> /\ Len(loads) \in DOMAIN loads
  BY <1>0, <1>3, <1>4, LoadSetAt
<1>6. ChatTypes'
  BY <1>0, <1>1, <1>5 DEF ChatTypes, CH!Quietly
<1>7. ViewTells'
  <2>1. ToTell(loads[l]) => ToTell(loads[l])'
    <3>1. /\ CH!Exists' = CH!Exists /\ CH!Live' = CH!Live
          /\ name' = name /\ active' = active /\ (Owed' <=> Owed)
      BY <1>1 DEF CH!Exists, CH!Live, Owed
    <3> QED  BY <3>1, <1>1, <1>2, <1>4, <1>5 DEF ToTell, Tells
  <2>2. loads # <<>>
    BY <1>5
  <2> QED  BY <2>1, <2>2, <1>0, <1>1, <1>4, <1>5, ViewLoaded
<1> QED  BY <1>1, <1>5, <1>6, <1>7, TabKeeps

\* An answer is shown: the reads before it are overtaken, those behind it are as they were.
LEMMA ShowKeeps ==
  ASSUME ChatInv, NEW l \in DOMAIN loads, CH!Show(l)
  PROVE  ChatInv'
<1> DEFINE n == Len(loads)
<1>0. ChatTypes /\ OldReads /\ ViewTells
  BY DEF ChatInv
<1>a. /\ loads[l] \in [at : {"rows", "turn", "answer"}, was : ViewSet, old : BOOLEAN]
      /\ DOMAIN loads = 1..n /\ n \in Nat /\ loads # <<>>
  BY <1>0, LoadFacts DEF LoadSet
<1>1. /\ loads[l].at = "answer" /\ shown' = loads[l].was /\ overtaken' = loads[l].old
      /\ loads' = CH!RemoveAt([i \in DOMAIN loads |->
                          IF i < l THEN [loads[i] EXCEPT !.old = TRUE] ELSE loads[i]], l)
      /\ CH!Quietly
      /\ UNCHANGED <<name, rows, aged, deleting, post, asked, since, window, queue, turn, reply,
                     active, connected, chosen, overlapped, again>>
  BY DEF CH!Show, CH!store, CH!handling, CH!answering
<1>2. /\ loads' \in Seq(LoadSet) /\ Len(loads') = n - 1 /\ DOMAIN loads' = 1..(n - 1)
      /\ l \in 1..n
      /\ \A i \in 1..(n - 1) :
              loads'[i] = IF i < l THEN [loads[i] EXCEPT !.old = TRUE] ELSE loads[i + 1]
  BY <1>0, <1>1, ReadAnswered
<1>3. \A i \in 1..(n - 1) : /\ i < l => loads'[i].old = TRUE
                            /\ ~(i < l) => loads'[i] = loads[i + 1]
  <2>1. \A i \in 1..n : [loads[i] EXCEPT !.old = TRUE].old = TRUE
    <3>1. \A i \in 1..n : loads[i] \in [at : {"rows", "turn", "answer"}, was : ViewSet, old : BOOLEAN]
      BY <1>0, LoadFacts DEF LoadSet
    <3> QED  BY <3>1
  <2> SUFFICES ASSUME NEW i \in 1..(n - 1)
               PROVE  /\ i < l => loads'[i].old = TRUE
                      /\ ~(i < l) => loads'[i] = loads[i + 1]
    OBVIOUS
  <2>2. i \in 1..n
    BY <1>a
  <2>3. CASE i < l
    <3>1. loads'[i] = [loads[i] EXCEPT !.old = TRUE]
      BY <2>3, <1>2
    <3> QED  BY <3>1, <2>1, <2>2, <2>3
  <2>4. CASE ~(i < l)
    BY <2>4, <1>2
  <2> QED  BY <2>3, <2>4
<1>4. ChatTypes'
  <2>1. Len(loads') <= MaxLoads
    BY <1>0, <1>2, <1>a, ChatAssumption DEF ChatTypes
  <2>2. shown' \in ViewSet /\ overtaken' \in BOOLEAN
    BY <1>1, <1>a
  <2> QED  BY <2>1, <2>2, <1>0, <1>1, <1>2 DEF ChatTypes, CH!Quietly
<1>5. OldReads'
  <2> SUFFICES ASSUME NEW i \in DOMAIN loads', NEW j \in DOMAIN loads', i < j, loads'[j].old
               PROVE  loads'[i].old
    BY DEF OldReads
  <2>1. CASE i < l
    BY <2>1, <1>2, <1>3
  <2>2. CASE ~(i < l)
    <3>1. /\ loads'[i] = loads[i + 1] /\ loads'[j] = loads[j + 1]
          /\ i + 1 \in DOMAIN loads /\ j + 1 \in DOMAIN loads /\ i + 1 < j + 1
      BY <2>2, <1>2, <1>3, <1>a
    <3> QED  BY <3>1, <1>0 DEF OldReads
  <2> QED  BY <2>1, <2>2
<1>6. ViewTells'
  <2>1. /\ timer' = timer /\ behind' = behind /\ CH!Exists' = CH!Exists /\ CH!Live' = CH!Live
        /\ name' = name /\ active' = active /\ (Owed' <=> Owed)
    BY <1>1 DEF CH!Quietly, CH!Exists, CH!Live, Owed
  <2> SUFFICES ASSUME ~timer, behind = {}
               PROVE  /\ loads' = <<>> /\ ~overtaken' => Tells(shown)'
                      /\ loads' # <<>> /\ ~loads'[Len(loads')].old => ToTell(loads[Len(loads)])'
    BY <2>1 DEF ViewTells
  <2>2. ~loads[n].old => ToTell(loads[n])
    BY <1>0, <1>a DEF ViewTells
  <2>3. CASE loads' = <<>>
    <3>1. n = 1 /\ l = n
      BY <2>3, <1>2, <1>a, EmptySeq
    <3>2. ~overtaken' => Tells(shown)'
      <4>1. ~overtaken' => Tells(loads[l].was)
        BY <3>1, <2>2, <1>1 DEF ToTell
      <4> QED  BY <4>1, <2>1, <1>1 DEF Tells
    <3> QED  BY <3>2, <2>3
  <2>4. CASE loads' # <<>>
    <3>1. n - 1 \in 1..(n - 1) /\ n > 1
      BY <2>4, <1>2, <1>a, EmptySeq
    <3>2. CASE l = n
      <4>1. loads'[n - 1].old = TRUE
        BY <3>1, <3>2, <1>3, <1>a
      <4> QED  BY <4>1, <2>4, <1>2
    <3>3. CASE l # n
      <4>1. loads'[n - 1] = loads[n]
        <5>1. ~(n - 1 < l) /\ (n - 1) + 1 = n
          BY <3>1, <3>3, <1>2, <1>a
        <5> QED  BY <5>1, <3>1, <1>3
      <4>2. loads'[Len(loads')] = loads[n]
        BY <4>1, <1>2
      <4>3. ToTell(loads[n]) => ToTell(loads[n])'
        BY <4>2, <2>1 DEF ToTell, Tells
      <4>4. Len(loads') # n
        BY <1>2, <1>a
      <4>5. ToTell(loads[n]) => ToTell(loads[Len(loads)])'
        BY <4>2, <2>1 DEF ToTell, Tells
      <4> QED  BY <4>2, <4>5, <2>2, <2>4
    <3> QED  BY <3>2, <3>3
  <2> QED  BY <2>3, <2>4
<1> QED  BY <1>1, <1>4, <1>5, <1>6, TabKeeps

\* A delivery fails.
LEMMA DeliveryFailsKeeps ==
  ASSUME ChatInv, NEW p \in Posts, CH!DeliveryFails(p)
  PROVE  ChatInv'
<1>1. "lost" \in {"dropped", "lost"} /\ "lost" # "dropped"
  OBVIOUS
<1>2. /\ reply[p] \in {"handed", "found"} /\ reply' = [reply EXCEPT ![p] = "lost"] /\ CH!Quietly
      /\ UNCHANGED <<name, rows, aged, deleting, post, asked, since, window, queue, turn, active,
                     connected, CH!tab, chosen, overlapped, again>>
  BY DEF CH!DeliveryFails, CH!store, CH!handling
<1> QED  BY <1>1, <1>2, ReplyLostKeeps

\* A day goes by.
LEMMA DayPassesKeeps ==
  ASSUME ChatInv, CH!DayPasses
  PROVE  ChatInv'
<1>0. ChatTypes /\ OldReads /\ ViewTells
  BY DEF ChatInv
<1>1. /\ aged' = Len(rows) /\ CH!Quietly
      /\ UNCHANGED <<name, rows, deleting, post, asked, since, window, queue, turn, reply, active,
                     connected, CH!tab, chosen, overlapped, again>>
  BY DEF CH!DayPasses, CH!handling, CH!answering
<1>2. aged' \in Nat
  BY <1>0, <1>1, LineFacts
<1>3. ChatTypes'
  BY <1>0, <1>1, <1>2 DEF ChatTypes, CH!Quietly, CH!tab
<1>4. OldReads'
  BY <1>0, <1>1, LoadsStay
<1>5. ViewTells'
  <2>1. Owed' <=> Owed
    BY <1>1 DEF Owed
  <2> QED  BY <2>1, <1>0, <1>1, ViewQuiet
<1> QED  BY <1>1, <1>3, <1>4, <1>5, TabKeeps

\* A read fails: the last one stays, or the tab is behind.
LEMMA LoadFailsKeeps ==
  ASSUME ChatInv, NEW l \in DOMAIN loads, CH!LoadFails(l)
  PROVE  ChatInv'
<1> DEFINE n == Len(loads)
<1>0. ChatTypes /\ OldReads /\ ViewTells
  BY DEF ChatInv
<1>1. /\ loads' = CH!RemoveAt(loads, l)
      /\ behind' = IF timer \/ l < n THEN behind ELSE behind \cup {"unread"}
      /\ UNCHANGED <<name, rows, aged, deleting, post, asked, since, window, queue, turn, reply,
                     active, connected, timer, shown, overtaken, chosen, overlapped, again>>
  BY DEF CH!LoadFails, CH!store, CH!handling, CH!answering
<1>2. /\ loads' \in Seq(LoadSet) /\ Len(loads') = n - 1 /\ DOMAIN loads' = 1..(n - 1)
      /\ n \in Nat /\ l \in 1..n /\ DOMAIN loads = 1..n
      /\ \A i \in 1..(n - 1) : loads'[i] = IF i < l THEN loads[i] ELSE loads[i + 1]
  BY <1>0, <1>1, LoadFacts, ReadGone
<1>3. ChatTypes'
  <2>1. Len(loads') <= MaxLoads
    BY <1>0, <1>2, ChatAssumption DEF ChatTypes
  <2> QED  BY <2>1, <1>0, <1>1, <1>2 DEF ChatTypes
<1>4. OldReads'
  <2> SUFFICES ASSUME NEW i \in 1..(n - 1), NEW j \in 1..(n - 1), i < j, loads'[j].old
               PROVE  loads'[i].old
    BY <1>2 DEF OldReads
  <2> DEFINE at(k) == IF k < l THEN k ELSE k + 1
  <2>1. at(i) \in 1..n /\ at(j) \in 1..n /\ at(i) < at(j)
    BY <1>2
  <2>2. loads'[i] = loads[at(i)] /\ loads'[j] = loads[at(j)]
    BY <1>2
  <2> HIDE DEF at
  <2> QED  BY <2>1, <2>2, <1>0, <1>2 DEF OldReads
<1>5. ViewTells'
  <2> SUFFICES ASSUME ~timer', behind' = {}
               PROVE  ViewTells'
    BY DEF ViewTells
  <2>1. ~timer /\ l < n /\ behind = {}
    BY <1>1
  <2>2. loads'[n - 1] = loads[n] /\ n - 1 >= 1
    <3>1. n - 1 \in 1..(n - 1) /\ ~(n - 1 < l) /\ (n - 1) + 1 = n
      BY <2>1, <1>2
    <3> QED  BY <3>1, <1>2
  <2>3. loads' # <<>> /\ loads # <<>>
    BY <2>2, <1>2, EmptySeq
  <2>4. ~loads[n].old => ToTell(loads[n])
    BY <2>1, <2>3, <1>0 DEF ViewTells
  <2>5. /\ CH!Exists' = CH!Exists /\ CH!Live' = CH!Live
        /\ name' = name /\ active' = active /\ (Owed' <=> Owed)
    BY <1>1 DEF CH!Exists, CH!Live, Owed
  <2>6. loads'[Len(loads')] = loads[n]
    BY <2>2, <1>2
  <2>7. ToTell(loads[n]) => ToTell(loads[Len(loads)])'
    BY <2>5, <2>6 DEF ToTell, Tells
  <2> QED  BY <2>3, <2>4, <2>6, <2>7 DEF ViewTells
<1> QED  BY <1>1, <1>3, <1>4, <1>5, TabKeeps

\* The core restarts: who was in a handler fails, and the turn that ran is the last of
\* the queue, runs again, or is gone.
LEMMA RestartKeeps ==
  ASSUME ChatInv, CH!Restart
  PROVE  ChatInv'
<1> DEFINE t == turn.post
<1>0. /\ ChatTypes /\ PostTurns /\ Transcript /\ HandlersAlone /\ InOrder /\ OldReads /\ ViewTells
      /\ CH!ThinkingIsRunning /\ CH!ChosenNameStays
  BY DEF ChatInv
<1>1. /\ post' = [p \in Posts |-> IF p \in CH!InHandler THEN "failed" ELSE post[p]]
      /\ deleting' = FALSE /\ active' = CH!None /\ loads' = <<>> /\ connected' = FALSE
      /\ behind' = behind \cup {"lost"}
      /\ UNCHANGED <<name, rows, aged, asked, since, window, timer, shown, overtaken, chosen,
                     overlapped>>
  BY DEF CH!Restart
<1>2. \/ /\ turn # CH!NoTurn /\ CH!RunAgain(t)
         /\ reply' = [CH!CutReplies EXCEPT ![t] = "none"]
      \/ turn' = CH!NoTurn /\ reply' = CH!CutReplies /\ UNCHANGED <<queue, again>>
  BY DEF CH!Restart
<1>p. /\ post' \in [Posts -> {"none", "append", "window", "enqueue", "queued", "failed"}]
      /\ \A p \in Posts : /\ post'[p] = "queued" <=> post[p] = "queued"
                          /\ post'[p] \in {"none", "queued", "failed"}
                          /\ post[p] \in {"window", "enqueue", "queued", "failed"} =>
                               post'[p] \in {"queued", "failed"}
  BY <1>0, <1>1 DEF ChatTypes, CH!InHandler
<1>c. /\ CH!CutReplies \in [Posts -> {"none", "handed", "found", "stored", "dropped", "lost"}]
      /\ \A p \in Posts : /\ CH!CutReplies[p] = "none" <=> reply[p] = "none"
                          /\ CH!CutReplies[p] = "stored" <=> reply[p] = "stored"
                          /\ CH!CutReplies[p] = "dropped" <=> reply[p] = "dropped"
  BY <1>0 DEF ChatTypes, CH!CutReplies
<1>t. turn # CH!NoTurn => /\ t \in Posts /\ turn.at # "none" /\ t # CH!None
                          /\ post[t] = "queued" /\ \A i \in DOMAIN queue : queue[i] # t
  <2> SUFFICES ASSUME turn # CH!NoTurn
               PROVE  /\ t \in Posts /\ turn.at # "none" /\ t # CH!None
                      /\ post[t] = "queued" /\ \A i \in DOMAIN queue : queue[i] # t
    OBVIOUS
  <2>1. turn \in [post : Posts, at : {"start", "run", "name", "settle"}]
    BY <1>0 DEF ChatTypes, TurnSet
  <2>2. t \in Posts /\ turn.at # "none" /\ t # CH!None
    BY <2>1, <1>0, ChatTurnFacts
  <2> QED  BY <2>2, <1>0 DEF PostTurns
<1>q. \A i \in DOMAIN queue : queue[i] \in Posts
  BY <1>0 DEF ChatTypes
<1>r. /\ reply' \in [Posts -> {"none", "handed", "found", "stored", "dropped", "lost"}]
      /\ \A p \in Posts : /\ reply[p] = "none" => reply'[p] = "none"
                          /\ reply'[p] = "stored" => reply[p] = "stored"
                          /\ reply[p] = "stored" => reply'[p] = "stored" \/ p \in again'
                          /\ reply'[p] = "dropped" => reply[p] = "dropped"
      /\ again \subseteq again' /\ again' \subseteq Posts
  <2> DEFINE c == CH!CutReplies
  <2>0. again \subseteq Posts
    BY <1>0 DEF ChatTypes
  <2>1. CASE turn # CH!NoTurn /\ CH!RunAgain(t) /\ reply' = [c EXCEPT ![t] = "none"]
    <3>1. again' = again \cup {t} /\ t \in Posts
      BY <2>1, <1>t DEF CH!RunAgain
    <3> HIDE DEF c, t
    <3>2. /\ reply' \in [Posts -> {"none", "handed", "found", "stored", "dropped", "lost"}]
          /\ reply'[t] = "none" /\ \A p \in Posts \ {t} : reply'[p] = c[p]
      BY <2>1, <3>1, <1>c DEF c
    <3> QED  BY <3>1, <3>2, <2>0, <1>c DEF c
  <2>2. CASE reply' = c /\ UNCHANGED again
    BY <2>2, <2>0, <1>c
  <2> QED  BY <2>1, <2>2, <1>2
\* The queue is as it was, but that the turn may have joined it.
<1>3. /\ queue' \in Seq(Posts)
      /\ \A i \in DOMAIN queue' : queue'[i] \in Posts /\ post[queue'[i]] = "queued"
                                  /\ reply'[queue'[i]] = "none"
      /\ \A i, j \in DOMAIN queue' : queue'[i] = queue'[j] => i = j
      /\ \A i, j \in DOMAIN queue' : i < j /\ queue'[j] \notin again' =>
           /\ i \in DOMAIN queue /\ j \in DOMAIN queue /\ queue[j] \notin again
           /\ queue'[i] = queue[i] /\ queue'[j] = queue[j]
  <2>1. CASE queue' = queue
    <3>1. \A i \in DOMAIN queue : post[queue[i]] = "queued" /\ reply[queue[i]] = "none"
      BY <1>0 DEF PostTurns
    <3>2. \A i, j \in DOMAIN queue : queue[i] = queue[j] => i = j
      BY <1>0 DEF PostTurns
    <3>3. queue \in Seq(Posts)
      BY <1>0 DEF ChatTypes
    <3> QED  BY <3>1, <3>2, <3>3, <2>1, <1>q, <1>r
  <2>2. CASE /\ turn # CH!NoTurn /\ turn' = CH!NoTurn /\ queue' = Append(queue, t)
             /\ again' = again \cup {t} /\ reply' = [CH!CutReplies EXCEPT ![t] = "none"]
    <3> DEFINE m == Len(queue) + 1
    <3>1. t \in Posts /\ post[t] = "queued" /\ \A i \in DOMAIN queue : queue[i] # t
      BY <2>2, <1>t
    <3>2. reply'[t] = "none"
      BY <2>2, <3>1, <1>c
    <3> HIDE DEF t
    <3>3. /\ queue' \in Seq(Posts) /\ DOMAIN queue = 1..Len(queue) /\ Len(queue) \in Nat
          /\ DOMAIN queue' = DOMAIN queue \cup {m}
          /\ queue'[m] = t /\ \A i \in DOMAIN queue : queue'[i] = queue[i]
      BY <2>2, <3>1, <1>0, TurnQueued DEF ChatTypes
    <3>4. \A i, j \in DOMAIN queue' : i < j /\ j # m => i # m
      BY <3>3
    <3>5. m \notin DOMAIN queue
      BY <3>3
    <3> HIDE DEF m
    <3>6. \A i \in DOMAIN queue : post[queue[i]] = "queued" /\ reply[queue[i]] = "none"
      BY <1>0 DEF PostTurns
    <3>7. \A i \in DOMAIN queue : reply'[queue[i]] = "none"
      BY <3>6, <1>q, <1>r
    <3>8. \A i \in DOMAIN queue' : queue'[i] \in Posts /\ post[queue'[i]] = "queued"
                                   /\ reply'[queue'[i]] = "none"
      BY <3>1, <3>2, <3>3, <3>6, <3>7, <1>q
    <3>9. \A i, j \in DOMAIN queue' : queue'[i] = queue'[j] => i = j
      <4>1. \A i, j \in DOMAIN queue : queue[i] = queue[j] => i = j
        BY <1>0 DEF PostTurns
      <4> QED  BY <4>1, <3>1, <3>3
    <3>10. \A i, j \in DOMAIN queue' : i < j /\ queue'[j] \notin again' =>
           /\ i \in DOMAIN queue /\ j \in DOMAIN queue /\ queue[j] \notin again
           /\ queue'[i] = queue[i] /\ queue'[j] = queue[j]
      BY <2>2, <3>3, <3>4
    <3> QED  BY <3>3, <3>8, <3>9, <3>10
  <2> QED  BY <2>1, <2>2, <1>2 DEF CH!RunAgain
<1>4. /\ turn' \in TurnSet
      /\ turn'.post # CH!None => /\ turn' = [turn EXCEPT !.at = "start"] /\ turn # CH!NoTurn
                                 /\ queue' = queue /\ reply'[t] = "none"
                                 /\ turn'.post = t
  <2>1. CASE turn' = CH!NoTurn
    BY <2>1 DEF TurnSet, CH!NoTurn
  <2>2. CASE /\ turn # CH!NoTurn /\ turn' = [turn EXCEPT !.at = "start"] /\ queue' = queue
             /\ reply' = [CH!CutReplies EXCEPT ![t] = "none"]
    <3>1. t \in Posts /\ turn.at # "none"
      BY <2>2, <1>t
    <3>2. turn' \in TurnSet /\ turn'.post = t
      BY <3>1, <2>2, <1>0, TurnAt
    <3>3. reply'[t] = "none"
      BY <2>2, <3>1, <1>c
    <3> QED  BY <3>2, <3>3, <2>2
  <2> QED  BY <2>1, <2>2, <1>2 DEF CH!RunAgain
<1>5. PostTurns'
  <2>1. turn'.post # CH!None =>
          /\ post'[turn'.post] = "queued" /\ \A i \in DOMAIN queue' : queue'[i] # turn'.post
          /\ turn'.at \in {"start", "run"} => reply'[turn'.post] = "none"
    BY <1>4, <1>t, <1>p
  <2>2. \A p \in Posts : post'[p] # "queued" => reply'[p] = "none"
    BY <1>0, <1>p, <1>r DEF PostTurns
  <2>3. \A i \in DOMAIN queue' : post'[queue'[i]] = "queued" /\ reply'[queue'[i]] = "none"
    BY <1>3, <1>p
  <2> QED  BY <2>1, <2>2, <2>3, <1>3 DEF PostTurns
<1>6. ChatTypes'
  <2>1. loads' \in Seq(LoadSet) /\ Len(loads') = 0
    BY <1>1, EmptySeq
  <2>2. Len(loads') <= MaxLoads
    BY <2>1, ChatAssumption
  <2> QED  BY <2>1, <2>2, <1>0, <1>1, <1>p, <1>r, <1>3, <1>4 DEF ChatTypes
<1>7. Transcript'
  <2>1. \A p \in Posts :
          /\ post[p] \in {"window", "enqueue", "queued", "failed"} =>
               post'[p] \in {"window", "enqueue", "queued", "failed"}
          /\ post'[p] \in {"window", "enqueue", "queued"} => post[p] \in {"window", "enqueue", "queued"}
          /\ reply'[p] = "stored" => reply[p] = "stored"
          /\ reply[p] = "stored" => reply'[p] = "stored" \/ p \in again'
          /\ CH!Exists => reply'[p] # "dropped"
    BY <1>0, <1>p, <1>r DEF Transcript
  <2> QED  BY <2>1, <1>0, <1>1, <1>r, TranscriptStays
<1>8. HandlersAlone'
  <2>1. CH!InHandler' = {}
    BY <1>p DEF CH!InHandler
  <2> QED  BY <2>1 DEF HandlersAlone
<1>9. InOrder'
  <2>1. \A q \in Posts : post'[q] \in {"window", "enqueue", "queued"} =>
          post'[q] = post[q] /\ since'[q] = since[q]
    BY <1>1, <1>p
  <2>2. overlapped \subseteq overlapped'
    BY <1>1
  <2> QED  BY <2>1, <2>2, <1>0, <1>1, <1>3, OrderNarrows
<1>10. OldReads' /\ ViewTells'
  <2>1. DOMAIN loads' = {} /\ behind' # {}
    BY <1>1
  <2> QED  BY <2>1 DEF OldReads, ViewTells
<1>11. CH!ThinkingIsRunning' /\ CH!ChosenNameStays'
  BY <1>0, <1>1 DEF CH!ThinkingIsRunning, CH!ChosenNameStays
<1> QED  BY <1>5, <1>6, <1>7, <1>8, <1>9, <1>10, <1>11 DEF ChatInv

\* At the start.
LEMMA ChatInit ==
  ASSUME CH!Init
  PROVE  ChatInv
<1>1. /\ DOMAIN rows = {} /\ DOMAIN queue = {} /\ DOMAIN loads = {}
      /\ rows \in Seq(LineSet) /\ queue \in Seq(Posts) /\ loads \in Seq(LoadSet) /\ Len(loads) = 0
  BY EmptySeq DEF CH!Init
<1>2. ChatTypes
  <2>1. name \in ThreadNames /\ turn \in TurnSet /\ shown \in ViewSet
    BY DEF CH!Init, ThreadNames, TurnSet, ViewSet, CH!Nothing
  <2>2. /\ post \in [Posts -> {"none", "append", "window", "enqueue", "queued", "failed"}]
        /\ window \in [Posts -> SUBSET Nat] /\ since \in [Posts -> Nat] /\ aged \in Nat
        /\ reply \in [Posts -> {"none", "handed", "found", "stored", "dropped", "lost"}]
    BY DEF CH!Init
  <2>3. Len(loads) <= MaxLoads
    BY <1>1, ChatAssumption
  <2>4. /\ deleting \in BOOLEAN /\ asked \subseteq Posts /\ active \in Posts \cup {CH!None}
        /\ connected \in BOOLEAN /\ timer \in BOOLEAN /\ overtaken \in BOOLEAN
        /\ chosen \in BOOLEAN /\ overlapped \subseteq Posts /\ again \subseteq Posts
    BY DEF CH!Init
  <2> QED  BY <2>1, <2>2, <2>3, <2>4, <1>1 DEF ChatTypes
<1>3. PostTurns /\ Transcript
  BY <1>1 DEF CH!Init, PostTurns, Transcript, CH!NoTurn, CH!Exists, IsLine
<1>4. HandlersAlone /\ InOrder /\ OldReads /\ ViewTells
  BY <1>1 DEF CH!Init, HandlersAlone, CH!InHandler, InOrder, OldReads, ViewTells
<1>5. CH!ThinkingIsRunning /\ CH!ChosenNameStays
  BY DEF CH!Init, CH!ThinkingIsRunning, CH!ChosenNameStays
<1> QED  BY <1>2, <1>3, <1>4, <1>5 DEF ChatInv

\* Nothing happens.
LEMMA ChatIdles ==
  ASSUME ChatInv, UNCHANGED CH!chatVars
  PROVE  ChatInv'
<1>0. ChatTypes /\ OldReads /\ ViewTells
  BY DEF ChatInv
<1>1. /\ CH!Quietly /\ connected' = connected
      /\ UNCHANGED <<name, rows, aged, deleting, post, asked, since, window, queue, turn, reply,
                     active, CH!tab, chosen, overlapped, again>>
  BY DEF CH!chatVars, CH!store, CH!handling, CH!answering, CH!Quietly
<1>2. ChatTypes'
  BY <1>0, <1>1 DEF ChatTypes, CH!Quietly, CH!tab
<1>3. OldReads'
  BY <1>0, <1>1, LoadsStay
<1>4. ViewTells'
  <2>1. Owed' <=> Owed
    BY <1>1 DEF Owed
  <2> QED  BY <2>1, <1>0, <1>1, ViewQuiet
<1> QED  BY <1>1, <1>2, <1>3, <1>4, TabKeeps

\* Every step keeps it.
LEMMA ChatInvKept ==
  ASSUME ChatInv, [CH!Next]_(CH!chatVars)
  PROVE  ChatInv'
<1>1. CASE \E p \in Posts :
       \/ CH!Post(p) \/ CH!AppendPost(p) \/ CH!BuildWindow(p) \/ CH!Enqueue(p) \/ CH!EnqueueFails(p)
       \/ CH!Look(p) \/ CH!StoreReply(p) \/ CH!DeliveryFails(p)
  BY <1>1, PostKeeps, AppendPostKeeps, BuildWindowKeeps, EnqueueKeeps, EnqueueFailsKeeps, LookKeeps,
     StoreReplyKeeps, DeliveryFailsKeeps
<1>2. CASE \/ CH!StartTurn \/ CH!Accepted \/ CH!Progress \/ CH!Acknowledge
           \/ CH!HandOver \/ CH!NoAnswer \/ CH!NameThread \/ CH!Settle
  BY <1>2, StartTurnKeeps, AcceptedKeeps, ProgressKeeps, AcknowledgeKeeps, HandOverKeeps,
     NoAnswerKeeps, NameThreadKeeps, SettleKeeps
<1>3. CASE \E i \in DOMAIN rows : CH!Retract(i)
  BY <1>3, RetractKeeps
<1>4. CASE CH!Rename \/ CH!Delete \/ CH!DeleteRow \/ CH!DayPasses \/ CH!Restart
  BY <1>4, RenameKeeps, DeleteKeeps, DeleteRowKeeps, DayPassesKeeps, RestartKeeps
<1>5. CASE CH!Drop \/ CH!Reconnect \/ CH!TimerFires
  BY <1>5, StreamKeeps, TimerFiresKeeps
<1>6. CASE \E l \in DOMAIN loads : CH!ReadRows(l) \/ CH!ReadTurn(l) \/ CH!Show(l) \/ CH!LoadFails(l)
  BY <1>6, ReadRowsKeeps, ReadTurnKeeps, ShowKeeps, LoadFailsKeeps
<1>7. CASE UNCHANGED CH!chatVars
  BY <1>7, ChatIdles
<1> QED  BY <1>1, <1>2, <1>3, <1>4, <1>5, <1>6, <1>7 DEF CH!Next

\* The chat counts as everybody does.
LEMMA ChatCardinality == \A S : CH!Cardinality(S) = Cardinality(S)
BY DEF CH!Cardinality, Cardinality

\* Its message, where it is in the transcript.
LEMMA RowIs ==
  ASSUME ChatInv, CH!Exists, NEW p \in Posts, post[p] \in {"window", "enqueue", "queued"}
  PROVE  CH!RowOf(p) \in DOMAIN rows /\ IsLine(CH!RowOf(p), p, "user")
<1>1. \E i \in DOMAIN rows : rows[i].post = p /\ rows[i].kind = "user"
  BY DEF ChatInv, Transcript, IsLine
<1> QED  BY <1>1 DEF CH!RowOf, IsLine

\* And it is what was said of the chat.
LEMMA ChatAsKept ==
  ASSUME ChatInv
  PROVE  /\ CH!ChatTypeOK /\ CH!ShownIsStored /\ CH!ThinkingIsRunning /\ CH!ChosenNameStays
         /\ CH!PostsInOrder /\ CH!RepliesLand
<1>0. /\ ChatTypes /\ PostTurns /\ Transcript /\ HandlersAlone /\ InOrder /\ OldReads /\ ViewTells
      /\ CH!ThinkingIsRunning /\ CH!ChosenNameStays
  BY DEF ChatInv
<1>q. \A i \in DOMAIN queue : queue[i] \in Posts /\ post[queue[i]] = "queued"
  BY <1>0 DEF ChatTypes, PostTurns
<1>1. CH!ChatTypeOK
  <2>1. CH!ToSet(queue) \subseteq Posts
    BY <1>q DEF CH!ToSet
  <2>2. \A i \in DOMAIN rows : rows[i].post \in Posts /\ rows[i].kind \in {"user", "ack", "reply"}
    BY <1>0, LineFacts DEF LineSet
  <2> QED  BY <2>1, <2>2, <1>0 DEF CH!ChatTypeOK, ChatTypes, ThreadNames
<1>2. CH!ShownIsStored
  <2>1. CH!Settled => ~Owed /\ ~timer /\ loads = <<>>
    BY DEF CH!Settled, Owed, CH!InHandler
  <2> QED  BY <2>1, <1>0 DEF CH!ShownIsStored, ViewTells, Tells
<1>3. CH!PostsInOrder
  <2> SUFFICES ASSUME CH!Exists
               PROVE  CH!PostsInOrder
    BY DEF CH!PostsInOrder
  <2>1. \A p \in Posts : post[p] = "queued" =>
          CH!RowOf(p) \in DOMAIN rows /\ IsLine(CH!RowOf(p), p, "user")
    BY RowIs
  <2>2. \A i, j \in DOMAIN queue :
         i < j /\ queue[i] \notin overlapped /\ queue[j] \notin again =>
           CH!RowOf(queue[i]) < CH!RowOf(queue[j])
    <3> SUFFICES ASSUME NEW i \in DOMAIN queue, NEW j \in DOMAIN queue, i < j, queue[i] \notin overlapped,
                        queue[j] \notin again
                 PROVE  CH!RowOf(queue[i]) < CH!RowOf(queue[j])
      OBVIOUS
    <3>1. Before(queue[i], queue[j])
      BY <1>0 DEF InOrder
    <3> QED  BY <3>1, <2>1, <1>q DEF Before
  <2>3. \A p \in Posts \ overlapped : post[p] = "queued" =>
         /\ \A i \in CH!Live : since[p] < i /\ i < CH!RowOf(p) => i \in window[p]
         /\ \A i \in window[p] : rows[i].kind = "user" => i < CH!RowOf(p)
    <3> SUFFICES ASSUME NEW p \in Posts \ overlapped, post[p] = "queued"
                 PROVE  /\ \A i \in CH!Live : since[p] < i /\ i < CH!RowOf(p) => i \in window[p]
                        /\ \A i \in window[p] : rows[i].kind = "user" => i < CH!RowOf(p)
      OBVIOUS
    <3>1. HasWindow(p)
      BY <1>0 DEF InOrder
    <3> QED  BY <3>1, <2>1 DEF HasWindow, CH!Live
  <2> QED  BY <2>2, <2>3 DEF CH!PostsInOrder
<1>4. CH!RepliesLand
  <2> SUFFICES ASSUME NEW p \in Posts
               PROVE  /\ reply[p] = "stored" /\ CH!Exists => CH!RepliesOf(p) # {}
                      /\ p \notin again => CH!Cardinality(CH!RepliesOf(p)) <= 1
                      /\ p \notin again /\ reply[p] # "stored" => CH!RepliesOf(p) = {}
                      /\ reply[p] = "dropped" => ~CH!Exists
    BY DEF CH!RepliesLand
  <2>0. CH!RepliesOf(p) = {i \in DOMAIN rows : IsLine(i, p, "reply") /\ rows[i].live}
    BY DEF CH!RepliesOf, CH!Live, IsLine
  <2>1. ASSUME reply[p] = "stored", CH!Exists
        PROVE  CH!RepliesOf(p) # {}
    <3>1. PICK k \in DOMAIN rows : IsLine(k, p, "reply")
      BY <2>1, <1>0 DEF Transcript
    <3>2. rows[k].live
      BY <3>1, <1>0 DEF Transcript
    <3> QED  BY <3>1, <3>2, <2>0
  <2>2. ASSUME p \notin again
        PROVE  CH!Cardinality(CH!RepliesOf(p)) <= 1
    <3>1. \A i, j \in CH!RepliesOf(p) : i = j
      BY <2>0, <2>2, <1>0 DEF Transcript
    <3>2. CASE CH!RepliesOf(p) = {}
      <4>1. Cardinality({}) = 0
        BY FS_EmptySet
      <4> QED  BY <4>1, <3>2, ChatCardinality
    <3>3. CASE CH!RepliesOf(p) # {}
      <4>1. PICK k : CH!RepliesOf(p) = {k}
        BY <3>1, <3>3
      <4>2. Cardinality({k}) = 1
        BY FS_Singleton
      <4> QED  BY <4>1, <4>2, ChatCardinality
    <3> QED  BY <3>2, <3>3
  <2>3. p \notin again /\ reply[p] # "stored" => CH!RepliesOf(p) = {}
    BY <2>0, <1>0 DEF Transcript
  <2>4. reply[p] = "dropped" => ~CH!Exists
    BY <1>0 DEF Transcript
  <2> QED  BY <2>1, <2>2, <2>3, <2>4
<1> QED  BY <1>0, <1>1, <1>2, <1>3, <1>4

-----------------------------------------------------------------------------
\* A step of the services is a step of each, or leaves it alone.
LEMMA Moves ==
  [Next]_serviceVars =>
    /\ [MN!Next]_(MN!memoryVars) /\ [HI!Next]_(HI!insightVars) /\ [IL!Next]_(IL!linkVars)
    /\ [MR!Next]_(MR!rolesVars) /\ [FB!Next]_(FB!feedbackVars)
    /\ [CH!Next]_(CH!chatVars)
<1>1. [Next]_serviceVars => [MN!Next]_(MN!memoryVars)
  BY DEF Next, serviceVars, memoryVars, MN!memoryVars, MN!queue, MN!night, MN!memoryHistory
<1>2. [Next]_serviceVars => [HI!Next]_(HI!insightVars)
  BY DEF Next, serviceVars, insightVars, HI!insightVars, HI!tables, HI!control, HI!pass,
     HI!insightHistory
<1>3. [Next]_serviceVars => [IL!Next]_(IL!linkVars)
  BY DEF Next, serviceVars, linkVars, IL!linkVars, IL!store, IL!seen
<1>4. [Next]_serviceVars => [MR!Next]_(MR!rolesVars)
  BY DEF Next, serviceVars, rolesVars, MR!rolesVars
<1>5. [Next]_serviceVars => [FB!Next]_(FB!feedbackVars)
  BY DEF Next, serviceVars, feedbackVars, FB!feedbackVars, FB!counters, FB!memory
<1>6. [Next]_serviceVars => [CH!Next]_(CH!chatVars)
  BY DEF Next, serviceVars, chatVars, CH!chatVars, CH!store, CH!handling, CH!answering, CH!tab
<1> QED  BY <1>1, <1>2, <1>3, <1>4, <1>5, <1>6

\* A fact that was saved, queued or written is in the queue or in its document until
\* the operator removes it, and one that was removed comes back only if it was on its
\* way or the day says it again: for any facts and bounds, however the night is cut.
THEOREM FactsAsToldHolds == Spec => []FactsAsTold
<1>1. Init => MemoryInv
  BY MemoryKept DEF Init
<1>2. MemoryInv /\ [Next]_serviceVars => MemoryInv'
  BY Moves, MemoryKept
<1>3. MemoryInv => FactsAsTold
  BY MemoryKept DEF FactsAsTold
<1> QED  BY <1>1, <1>2, <1>3, PTL DEF Spec

\* An hour that is owed a score is above the watermark, so that a scan finds it, but for
\* an import under way or one that crossed a scan, and a regeneration that failed halfway;
\* and a period at rest stands for the
\* scored hours it has, unless a failure, a crash or a limit of the run spoiled it, or it
\* was narrowed: for every calendar, delay and limit, and any number of regenerations,
\* failures and crashes.
THEOREM InsightsCompleteHolds == Spec => []InsightsComplete
<1>1. Init => InsightsInv
  BY InsightsKept DEF Init
<1>2. InsightsInv /\ [Next]_serviceVars => InsightsInv'
  BY Moves, InsightsKept
<1>3. InsightsInv => InsightsComplete
  BY InsightsKept DEF InsightsComplete
<1> QED  BY <1>1, <1>2, <1>3, PTL DEF Spec

\* However requests cross, a link joins two identities or more and no two accounts
\* unless an operator made it so; while none about links cross, whoever unlinked an
\* identity is rid of it, an account that is gone is in no link of its own, and who is
\* told so is linked; while none about codes cross, a code links one sender and is the
\* only live one of its account; while none about accounts cross, an active admin
\* stays: for all accounts, identities, links at the start and numbers of requests.
THEOREM LinksKeptHolds == Spec => []LinksKept
<1>1. Init => LinkInv
  BY InitLinks DEF Init
<1>2. LinkInv /\ [Next]_serviceVars => LinkInv'
  BY Moves, LinksStayKept
<1>3. LinkInv => LinksKept
  BY LinksStayKept DEF LinksKept
<1> QED  BY <1>1, <1>2, <1>3, PTL DEF Spec

\* After any sequence of saves and edits of a backend that met no other, a role is left
\* with a model its backend does not list only when nobody had to prove it, and no model
\* it lists was cleared; however they cross, a cache tells the rows unless they were
\* written while a value was on its way, and no role names a backend that is gone: for
\* any roles, backends, models and endpoints, and any number of requests.
THEOREM RolesKeptHolds == Spec => []RolesKept
<1>1. Init => RolesInv
  BY InitRoles DEF Init
<1>2. RolesInv /\ [Next]_serviceVars => RolesInv'
  BY Moves, RolesStay
<1>3. RolesInv => RolesKept
  BY RolesInvKept DEF RolesKept
<1> QED  BY <1>1, <1>2, <1>3, PTL DEF Spec

\* An answer to a reaction is the row's and of the sign it shows, unless two handlers
\* crossed on the row; a row that still asks has a menu, or one is coming, unless it
\* was not sent; what a row says was reflected on and folded is about the answer it
\* has, unless the row changed meanwhile; and an answer goes into one version of each
\* fold, unless its stamp failed, one about addressing into none: for any replies, and
\* any number of presses, reactions, texts, runs, failures and crashes.
THEOREM FeedbackKeptHolds == Spec => []FeedbackKept
<1>1. Init => FeedbackInv
  BY FeedbackInit DEF Init
<1>2. FeedbackInv /\ [Next]_serviceVars => FeedbackInv'
  BY Moves, FeedbackInvKept
<1>3. FeedbackInv => FeedbackKept
  BY FeedbackAsKept DEF FeedbackKept
<1> QED  BY <1>1, <1>2, <1>3, PTL DEF Spec

\* When nothing is on its way to the tab, it shows the thread as it is stored, unless its
\* stream lost the last ping, an older read was shown over a newer one, the last read
\* failed, or a turn was not queued; "thinking" is shown for the turn that runs; a name a
\* person chose stays; posts that did not overlap are answered in the order of the
\* transcript, those run again after a restart aside, each with what was said before it
\* on the last day; and an answer that was handed over is in the thread, once but for
\* those run again, or its delivery failed, or the thread is gone: for any number of
\* posts, progress, names, days, reads, losses, failures and restarts.
THEOREM ChatKeptHolds == Spec => []ChatKept
<1>1. Init => ChatInv
  BY ChatInit DEF Init
<1>2. ChatInv /\ [Next]_serviceVars => ChatInv'
  BY Moves, ChatInvKept
<1>3. ChatInv => ChatKept
  BY ChatAsKept DEF ChatKept
<1> QED  BY <1>1, <1>2, <1>3, PTL DEF Spec
=============================================================================
