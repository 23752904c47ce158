----------------------------- MODULE TraceStore -----------------------------
(***************************************************************************)
(* The file-backed trace store of core/server/trace/store.ts: running      *)
(* traces in RAM, settled ones waiting for the flush, flushed ones in one  *)
(* file a month, with a cache of the months in two tiers (headers, or with *)
(* events).  The flush, the index built at boot, the prune and a scan all  *)
(* load months, and any of them may run while another waits on the disk.   *)
(***************************************************************************)
EXTENDS Naturals, Sequences, FiniteSets, SequencesExt, Functions

CONSTANTS
  Traces,       \* the traces that are opened
  NMonths,      \* their months are 1..NMonths
  MonthOf,      \* the month each starts in: [Traces -> 1..NMonths]
  MaxFull,      \* MAX_FULL_MONTHS, 3 in the code
  MaxOps        \* bound on scans, prunes, failed writes and stops, together

Months == 1..NMonths

Loaders == {"index", "flush", "prune", "scan"}

VARIABLES
  open, waiting,  \* the maps `open` and `pending` of the store
  lines,          \* [month |-> the readable lines of its file]
  dir,            \* the directory is there
  onDisk,         \* the months that have a file
  cut,            \* the months whose file ends in a line cut short
  months,         \* [month |-> its cached list], of entries [id, events]
  loaded, fullMonths,
  monthKeys,      \* the cached directory listing, or NoKeys
  at,             \* [loader |-> where it is]
  todo,           \* [loader |-> the months it has before it, the current one first]
  text,           \* [loader |-> what its read returned]
  batch,          \* the traces of the pass under way, in the order they are written
  got,            \* [trace |-> how often the last scan returned it with its events]
  ops,
  \* What the properties remember.
  settled,        \* the traces that settled
  gone,           \* those that were pruned, cut, or lost with a process
  asked,          \* the settled traces that existed when the last scan began
  moved,          \* the traces flushed since
  crossed,        \* the months with two of load, append and removal at a time
  keysCrossed     \* a file was created while a listing was read, or by a write that failed

memory == <<open, waiting, months, loaded, fullMonths, monthKeys>>
disk == <<dir, lines, onDisk, cut>>
loads == <<at, todo, text>>
seen == <<settled, gone, asked, moved, crossed, keysCrossed>>
traceVars == <<memory, disk, loads, batch, got, ops, seen>>

NoKeys == {0}
Missing == <<0>>     \* what readFile's failure leaves: no text

Idle == [p \in Loaders |-> IF p = "index" THEN "keys" ELSE "idle"]
Nothing == [p \in Loaders |-> <<>>]

\* The store of a process that has just started; warmTraceIndex runs at once.
Init ==
  /\ open = {} /\ waiting = {} /\ dir = FALSE
  /\ lines = [m \in Months |-> <<>>] /\ onDisk = {} /\ cut = {}
  /\ months = [m \in Months |-> <<>>] /\ loaded = {} /\ fullMonths = <<>>
  /\ monthKeys = NoKeys
  /\ at = Idle /\ todo = Nothing /\ text = Nothing
  /\ batch = <<>> /\ got = [t \in Traces |-> 0]
  /\ ops = 0
  /\ settled = {} /\ gone = {} /\ asked = {} /\ moved = {} /\ crossed = {} /\ keysCrossed = FALSE

-----------------------------------------------------------------------------
\* Traces are opened and settled.
CreateTrace(t) ==
  /\ t \notin open \cup settled
  /\ open' = open \cup {t}
  /\ UNCHANGED <<waiting, months, loaded, fullMonths, monthKeys, disk, loads, batch, got,
                 ops, seen>>

SettleTrace(t) ==
  /\ t \in open
  /\ open' = open \ {t} /\ waiting' = waiting \cup {t}
  /\ settled' = settled \cup {t}
  /\ UNCHANGED <<months, loaded, fullMonths, monthKeys, disk, loads, batch, got, ops,
                 gone, asked, moved, crossed, keysCrossed>>

-----------------------------------------------------------------------------
\* What loadMonth does to the cache.
Tier(p) == IF p \in {"flush", "scan"} THEN "full" ELSE "headers"
IsFull(m) == Contains(fullMonths, m)
Cached(p, m) == IF Tier(p) = "full" THEN IsFull(m) ELSE m \in loaded

Entries(s, events) == [i \in DOMAIN s |-> [id |-> s[i], events |-> events]]
ToHeaders(list) == [i \in DOMAIN list |-> [list[i] EXCEPT !.events = FALSE]]
IdsOf(list) == [i \in DOMAIN list |-> list[i].id]
TouchFullMonth(m) == Append(Remove(fullMonths, m), m)

\* Months that fall out of the full tier lose their events.
Demoted(full) ==
  IF Len(full) <= MaxFull THEN {} ELSE {full[i] : i \in 1..(Len(full) - MaxFull)}
Kept(full) == SelectSeq(full, LAMBDA m : m \notin Demoted(full))

LoadedFull(m, s) ==
  /\ months' = [k \in Months |->
                  IF k = m THEN Entries(s, TRUE)
                  ELSE IF k \in Demoted(TouchFullMonth(m)) THEN ToHeaders(months[k])
                  ELSE months[k]]
  /\ fullMonths' = Kept(TouchFullMonth(m))

\* The end of loadMonth for a loader whose read returned.
Installed(p, m) ==
  /\ loaded' = loaded \cup {m}
  /\ \/ /\ text[p] = Missing
        /\ months' = [months EXCEPT ![m] = <<>>]
        /\ fullMonths' = IF Tier(p) = "full" THEN TouchFullMonth(m) ELSE fullMonths
     \/ /\ text[p] # Missing /\ Tier(p) = "full"
        /\ LoadedFull(m, text[p])
     \/ /\ text[p] # Missing /\ Tier(p) = "headers"
        /\ months' = [months EXCEPT ![m] = Entries(text[p], FALSE)]
        /\ UNCHANGED fullMonths

\* The other way through loadMonth: the month is cached at the tier already.
AsCached(p, m) ==
  /\ Cached(p, m)
  /\ fullMonths' = IF Tier(p) = "full" THEN TouchFullMonth(m) ELSE fullMonths
  /\ UNCHANGED <<months, loaded>>

\* p is past the check of loadMonth for m, and not yet past its end.
Loading(p, m) == at[p] \in {"reading", "read"} /\ Head(todo[p]) = m
\* m's file is being appended to, or was and the cache has not been told.
Appending(m) == at["flush"] \in {"writing", "written"} /\ Head(todo["flush"]) = m
Removing(m) == at["prune"] \in {"removing", "removed"} /\ Head(todo["prune"]) = m
Busy(p, m) ==
  \/ \E q \in Loaders \ {p} : Loading(q, m)
  \/ p # "flush" /\ Appending(m)
  \/ p # "prune" /\ Removing(m)

\* loadMonth finds that it has to read the file ...
StartRead(p) ==
  LET m == Head(todo[p]) IN
  /\ at[p] = "load" /\ todo[p] # <<>> /\ ~Cached(p, m)
  /\ at' = [at EXCEPT ![p] = "reading"]
  /\ crossed' = IF Busy(p, m) THEN crossed \cup {m} ELSE crossed
  /\ UNCHANGED <<memory, disk, todo, text, batch, got, ops, settled, gone, asked, moved,
                 keysCrossed>>

\* ... and the read takes what is there.
ReadMonth(p) ==
  LET m == Head(todo[p]) IN
  /\ at[p] = "reading"
  /\ text' = [text EXCEPT ![p] = IF m \in onDisk THEN lines[m] ELSE Missing]
  /\ at' = [at EXCEPT ![p] = "read"]
  /\ UNCHANGED <<memory, disk, todo, batch, got, ops, seen>>

\* loadMonth returns to p, with the month at the tier it asked for.
Returned(p) ==
  /\ todo[p] # <<>>
  /\ \/ at[p] = "load" /\ AsCached(p, Head(todo[p]))
     \/ at[p] = "read" /\ Installed(p, Head(todo[p]))
  /\ text' = [text EXCEPT ![p] = <<>>]

\* The step on to the month after this one.
Advance(p) ==
  /\ todo' = [todo EXCEPT ![p] = Tail(@)]
  /\ at' = [at EXCEPT ![p] = IF Len(todo[p]) > 1 THEN "load"
                             ELSE IF p \in {"index", "scan"} THEN "done" ELSE "idle"]

-----------------------------------------------------------------------------
\* diskMonthKeys: the cached listing, or a read of the directory; one that is not
\* there yet is not cached.  prune asks for the months before the last one.
Sorted(keys) == SetToSortSeq(keys, <)
Asked(p, keys) == IF p = "prune" THEN keys \ {NMonths} ELSE keys
Walk(p, keys) ==
  /\ todo' = [todo EXCEPT ![p] = Sorted(Asked(p, keys))]
  /\ at' = [at EXCEPT ![p] = IF Asked(p, keys) # {} THEN "load"
                             ELSE IF p \in {"index", "scan"} THEN "done" ELSE "idle"]

UseKeys(p) ==
  /\ at[p] = "keys" /\ monthKeys # NoKeys
  /\ Walk(p, monthKeys)
  /\ UNCHANGED <<memory, disk, text, batch, got, ops, seen>>

ReadKeys(p) ==
  /\ at[p] = "keys" /\ monthKeys = NoKeys
  /\ text' = [text EXCEPT ![p] = IF dir THEN Sorted(onDisk) ELSE Missing]
  /\ at' = [at EXCEPT ![p] = "listed"]
  /\ UNCHANGED <<memory, disk, todo, batch, got, ops, seen>>

KeysRead(p) ==
  /\ at[p] = "listed"
  /\ \/ text[p] = Missing /\ Walk(p, {}) /\ UNCHANGED monthKeys
     \/ text[p] # Missing /\ Walk(p, ToSet(text[p])) /\ monthKeys' = ToSet(text[p])
  /\ text' = [text EXCEPT ![p] = <<>>]
  /\ UNCHANGED <<open, waiting, months, loaded, fullMonths, disk, batch, got, ops, seen>>

NoteMonthKey(m) ==
  monthKeys' = IF monthKeys = NoKeys THEN NoKeys ELSE monthKeys \cup {m}

\* A file comes to be.
Created(m) ==
  /\ onDisk' = onDisk \cup {m}
  /\ keysCrossed' = (keysCrossed \/ (m \notin onDisk /\ \E p \in Loaders : at[p] = "listed"))

\* getTraceStorageHealth opens the file of the month for an append of nothing.
Probe ==
  /\ Created(NMonths) /\ NMonths \notin onDisk /\ dir' = TRUE
  /\ NoteMonthKey(NMonths)
  /\ UNCHANGED <<open, waiting, months, loaded, fullMonths, lines, cut, loads, batch, got,
                 ops, settled, gone, asked, moved, crossed>>

-----------------------------------------------------------------------------
\* The index walks the months at the header tier.
IndexStep ==
  /\ Returned("index") /\ Advance("index")
  /\ UNCHANGED <<open, waiting, monthKeys, disk, batch, got, ops, seen>>

\* scanTraces: the traces in RAM, then month by month.
BeginScan ==
  /\ at["scan"] \in {"idle", "done"} /\ ops < MaxOps
  /\ at' = [at EXCEPT !["scan"] = "keys"]
  /\ got' = [t \in Traces |-> IF t \in open \cup waiting THEN 1 ELSE 0]
  /\ asked' = settled /\ moved' = {} /\ ops' = ops + 1
  /\ UNCHANGED <<memory, disk, todo, text, batch, settled, gone, crossed,
                 keysCrossed>>

\* A month is collected in the step that has it loaded, before it can be evicted.
Told(list, t) == Cardinality({i \in DOMAIN list : list[i].id = t /\ list[i].events})

ScanStep ==
  LET m == Head(todo["scan"]) IN
  /\ Returned("scan") /\ Advance("scan")
  /\ got' = [t \in Traces |-> got[t] + Told(months'[m], t)]
  /\ UNCHANGED <<open, waiting, monthKeys, disk, batch, ops, seen>>

-----------------------------------------------------------------------------
\* flushTracesNow: the directory, then the batch of what waits now, grouped by month.
BatchOf(m) == SelectSeq(batch, LAMBDA t : MonthOf[t] = m)

BeginFlush ==
  /\ at["flush"] = "idle" /\ waiting # {}
  /\ batch' = SetToSeq(waiting)
  /\ todo' = [todo EXCEPT !["flush"] = SetToSeq({MonthOf[t] : t \in waiting})]
  /\ at' = [at EXCEPT !["flush"] = "load"]
  /\ dir' = TRUE
  /\ UNCHANGED <<memory, lines, onDisk, cut, text, got, ops, seen>>

\* The month is there with its events: the append starts.
FlushLoad ==
  LET m == Head(todo["flush"]) IN
  /\ Returned("flush")
  /\ at' = [at EXCEPT !["flush"] = "writing"]
  /\ crossed' = IF Busy("flush", m) THEN crossed \cup {m} ELSE crossed
  /\ UNCHANGED <<open, waiting, monthKeys, disk, todo, batch, got, ops, settled, gone, asked,
                 moved, keysCrossed>>

\* An append to a file that ends in a cut line makes one bad line of that and its first.
Appended(m, s) ==
  lines' = [lines EXCEPT ![m] = @ \o (IF m \in cut /\ s # <<>> THEN Tail(s) ELSE s)]

FlushWrite ==
  LET m == Head(todo["flush"]) IN
  /\ at["flush"] = "writing"
  /\ Appended(m, BatchOf(m)) /\ Created(m) /\ cut' = cut \ {m}
  /\ at' = [at EXCEPT !["flush"] = "written"]
  \* The line that was swallowed: nothing will bring it back.
  /\ gone' = IF m \in cut THEN gone \cup {Head(BatchOf(m))} ELSE gone
  /\ crossed' = IF m \in cut THEN crossed \cup {m} ELSE crossed
  /\ UNCHANGED <<memory, dir, todo, text, batch, got, ops, settled, asked, moved>>

\* Mutation: a group whose write failed is taken for written.
FailedGroupForgotten(m) == waiting' = waiting \ ToSet(BatchOf(m))

FailedGroupWaits(m) == UNCHANGED waiting

\* A write that fails leaves its group waiting, and any part of it in the file.
FlushFails ==
  LET m == Head(todo["flush"]) IN
  /\ at["flush"] = "writing" /\ ops < MaxOps
  /\ ops' = ops + 1
  /\ \/ UNCHANGED <<disk, keysCrossed>>
     \/ \E k \in 0..(Len(BatchOf(m)) - 1) :
          /\ Appended(m, SubSeq(BatchOf(m), 1, k)) /\ onDisk' = onDisk \cup {m}
          /\ keysCrossed' = (keysCrossed \/ m \notin onDisk) /\ UNCHANGED dir
          /\ cut' \in {cut, cut \cup {m}} /\ (k > 0 \/ m \in cut')
  /\ crossed' = IF lines' = lines /\ cut' = cut THEN crossed ELSE crossed \cup {m}
  /\ FailedGroupWaits(m)
  /\ Advance("flush")
  /\ UNCHANGED <<open, months, loaded, fullMonths, monthKeys, text, batch, got, settled, gone, asked, moved>>

\* The written group goes from the waiting traces to the cached month ...
FlushCommit ==
  LET m == Head(todo["flush"]) IN
  /\ at["flush"] = "written" /\ m \in loaded
  /\ NoteMonthKey(m)
  /\ months' = [months EXCEPT ![m] = @ \o Entries(BatchOf(m), TRUE)]
  /\ waiting' = waiting \ ToSet(BatchOf(m))
  /\ moved' = moved \cup ToSet(BatchOf(m))
  /\ Advance("flush")
  /\ UNCHANGED <<open, loaded, fullMonths, disk, text, batch, got, ops, settled, gone, asked,
                 crossed, keysCrossed>>

\* ... unless a prune has taken the month out of the cache: `list` is undefined, the
\* pass ends with a TypeError, and the group that was written still waits.
FlushThrows ==
  LET m == Head(todo["flush"]) IN
  /\ at["flush"] = "written" /\ m \notin loaded
  /\ NoteMonthKey(m)
  /\ at' = [at EXCEPT !["flush"] = "idle"] /\ todo' = [todo EXCEPT !["flush"] = <<>>]
  /\ UNCHANGED <<open, waiting, months, loaded, fullMonths, disk, text, batch, got, ops,
                 seen>>

-----------------------------------------------------------------------------
\* pruneTracesBefore: month by month the headers, the removal, the cache.
BeginPrune ==
  /\ at["prune"] = "idle" /\ ops < MaxOps
  /\ ops' = ops + 1
  /\ at' = [at EXCEPT !["prune"] = "keys"]
  /\ UNCHANGED <<memory, disk, todo, text, batch, got, seen>>

PruneLoad ==
  LET m == Head(todo["prune"]) IN
  /\ Returned("prune")
  /\ at' = [at EXCEPT !["prune"] = "removing"]
  /\ crossed' = IF Busy("prune", m) THEN crossed \cup {m} ELSE crossed
  /\ UNCHANGED <<open, waiting, monthKeys, disk, todo, batch, got, ops, settled, gone, asked,
                 moved, keysCrossed>>

PruneRemove ==
  LET m == Head(todo["prune"]) IN
  /\ at["prune"] = "removing"
  /\ gone' = gone \cup ToSet(lines[m])
  /\ lines' = [lines EXCEPT ![m] = <<>>]
  /\ onDisk' = onDisk \ {m} /\ cut' = cut \ {m}
  /\ at' = [at EXCEPT !["prune"] = "removed"]
  /\ UNCHANGED <<memory, dir, todo, text, batch, got, ops, settled, asked, moved, crossed,
                 keysCrossed>>

Forget(m) ==
  /\ months' = [months EXCEPT ![m] = <<>>]
  /\ loaded' = loaded \ {m}
  /\ fullMonths' = Remove(fullMonths, m)

\* The listing is dropped once, when the last month is done.
PruneForget ==
  LET m == Head(todo["prune"]) IN
  /\ at["prune"] = "removed"
  /\ Forget(m) /\ Advance("prune")
  /\ monthKeys' = IF Len(todo["prune"]) = 1 THEN NoKeys ELSE monthKeys
  /\ UNCHANGED <<open, waiting, disk, text, batch, got, ops, seen>>

-----------------------------------------------------------------------------
\* The process ends, at a crash or at a stop that found a flush under way and did
\* not wait for it; an append may be cut anywhere.  Another starts on the same files.
Restart ==
  /\ ops < MaxOps /\ ops' = ops + 1
  /\ LET m == Head(todo["flush"]) IN
     \/ UNCHANGED disk
     \/ /\ at["flush"] = "writing"
        /\ \E k \in 0..(Len(BatchOf(m)) - 1) : Appended(m, SubSeq(BatchOf(m), 1, k))
        /\ onDisk' = onDisk \cup {m} /\ cut' = cut \cup {m} /\ UNCHANGED dir
  /\ open' = {} /\ waiting' = {}
  /\ months' = [m \in Months |-> <<>>] /\ loaded' = {} /\ fullMonths' = <<>>
  /\ monthKeys' = NoKeys
  /\ at' = Idle /\ todo' = Nothing /\ text' = Nothing /\ batch' = <<>>
  /\ got' = [t \in Traces |-> 0] /\ asked' = {} /\ moved' = {}
  /\ gone' = {t \in settled : ~Contains(lines'[MonthOf[t]], t)}
  /\ crossed' = {m \in Months : ~IsInjective(lines'[m])}
  /\ keysCrossed' = FALSE
  /\ UNCHANGED settled

FlushStep ==
  \/ FlushLoad \/ FlushWrite \/ FlushCommit \/ FlushThrows
  \/ StartRead("flush") \/ ReadMonth("flush")

Next ==
  \/ \E t \in Traces : CreateTrace(t) \/ SettleTrace(t)
  \/ \E p \in Loaders : StartRead(p) \/ ReadMonth(p) \/ UseKeys(p) \/ ReadKeys(p) \/ KeysRead(p)
  \/ Probe \/ IndexStep \/ BeginScan \/ ScanStep
  \/ BeginFlush \/ FlushLoad \/ FlushWrite \/ FlushFails \/ FlushCommit \/ FlushThrows
  \/ BeginPrune \/ PruneLoad \/ PruneRemove \/ PruneForget
  \/ Restart

\* The timer starts a flush and the disk answers.
Spec == Init /\ [][Next]_traceVars /\ WF_traceVars(BeginFlush) /\ WF_traceVars(FlushStep)

-----------------------------------------------------------------------------
TraceTypeOK ==
  /\ open \subseteq Traces /\ waiting \subseteq Traces /\ gone \subseteq settled
  /\ lines \in [Months -> Seq(Traces)] /\ onDisk \subseteq Months /\ cut \subseteq onDisk
  /\ loaded \subseteq Months /\ ToSet(fullMonths) \subseteq loaded
  /\ monthKeys = NoKeys \/ monthKeys \subseteq Months

\* Whatever fails or is pruned, a settled trace waits or is in its month's file, and
\* only a write that was cut or crossed by another puts it there twice.
SettledKept ==
  /\ \A t \in settled \ gone : t \in waiting \/ Contains(lines[MonthOf[t]], t)
  /\ \A m \in Months \ crossed : IsInjective(lines[m])

\* The cache of a month tells its file, and has the events when it says so, as long
\* as no load of it crossed another load, an append or a removal; once the index is
\* built there is no file the cache does not know; and a listing misses a file only
\* when the file was created while the directory was being read.
CacheTellsFiles ==
  /\ \A m \in loaded \ crossed :
       /\ ~Appending(m) /\ ~Removing(m) => IdsOf(months[m]) = lines[m]
       /\ IsFull(m) => \A i \in DOMAIN months[m] : months[m][i].events
  /\ at["index"] = "done" /\ ~keysCrossed =>
       \A m \in onDisk \ (loaded \cup crossed) : lines[m] = <<>>
  /\ monthKeys # NoKeys /\ ~keysCrossed => \A m \in onDisk \ monthKeys : Appending(m)

\* A scan returns every settled trace that was there when it began and was not
\* pruned since, with its events, and twice only one that was flushed meanwhile.
ScanTellsAll ==
  at["scan"] = "done" =>
    \A t \in asked : MonthOf[t] \notin crossed =>
      /\ t \notin gone /\ ~keysCrossed => got[t] >= 1
      /\ t \notin moved => got[t] <= 1

\* A trace that settles is on disk in the end, unless the process ends before.
FlushedInTheEnd == \A t \in Traces : t \in waiting ~> t \notin waiting

=============================================================================
