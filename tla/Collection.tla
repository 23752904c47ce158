----------------------------- MODULE Collection -----------------------------
(***************************************************************************)
(* One collection of an assistant: its columns, its rows by key, and the   *)
(* requests of the chat tools and the dashboard that change them at the    *)
(* same time (core/features/collections/server/service.ts, repository.ts,  *)
(* columns.ts).  Every request reads first, asks the embedding endpoint,   *)
(* and writes what it computed from what it read.                          *)
(*                                                                         *)
(* A column list is [cols, key, required]; a cell holds Empty or a value;  *)
(* types and texts are left out.  A vector is the cells it was made from.  *)
(***************************************************************************)
EXTENDS Integers, FiniteSets

CONSTANTS
  Columns,
  Shapes,       \* the column lists the owner may save
  Created,      \* those a collection is created with
  Given,        \* the cells a row request may give, functions of some columns
  Files,        \* the documents imported: sequences of such cells
  MaxRows,      \* MAX_ROWS_PER_COLLECTION
  ImportBatch, Page, \* IMPORT_BATCH, and the page of reshapeRows
  AtOnce,       \* bound: requests at the same time
  MaxRequests,  \* bound
  MaxFaults     \* bound: requests that break off

VARIABLES
  shape,     \* collections.columns
  rows,      \* collection_rows by id, the ids in the order of creation
  requests,  \* what runs, by slot
  made, faults, born,
  \* history
  told,      \* what the requests asked for, by key
  raced,     \* keys of rows written from a copy that was no longer true
  torn,      \* a column change broke off or ran beside a write; until the next one
  crowded    \* an insert counted on room that another one took

collectionVars == <<shape, rows, requests, made, faults, born, told, raced, torn, crowded>>

Empty == 0
NoVector == <<>>
Idle == [op |-> "idle"]
Slots == 1 .. AtOnce

-----------------------------------------------------------------------------
cell(values, c) == IF c \in DOMAIN values THEN values[c] ELSE Empty

isComplete(s, values) == \A c \in s.required : cell(values, c) # Empty
keyValueOf(s, values) == cell(values, s.key)
normalizeValues(s, given) == [c \in s.cols |-> cell(given, c)]

\* addRowService, editRowService: what is given wins, also where it empties a cell.
Merge(old, given) ==
  [c \in DOMAIN old \cup DOMAIN given |-> IF c \in DOMAIN given THEN given[c] ELSE old[c]]

\* writeRecords: what is filled wins.
Fill(old, given) ==
  Merge(old, [c \in {d \in DOMAIN given : given[d] # Empty} |-> given[c]])

\* Places in an order: how many of S come before i, the first n of S, the n-th of it.
Before(S, i) == Cardinality({j \in S : j < i})
First(S, n) == {i \in S : Before(S, i) < n}
Nth(S, n) == CHOOSE i \in S : Before(S, i) = n - 1

\* A repeat within the file merges into one write, at the place of the first: the
\* later record's cells win, where they are filled.
Prepare(s, file) ==
  LET Repeats(i) == {j \in DOMAIN file : keyValueOf(s, file[j]) = keyValueOf(s, file[i])}
      Filled(i, c) == {j \in Repeats(i) : cell(file[j], c) # Empty}
      Last(S) == CHOOSE j \in S : \A l \in S : l <= j
  IN [i \in {i \in DOMAIN file : /\ keyValueOf(s, file[i]) # Empty
                                 /\ \A j \in Repeats(i) : i <= j} |->
        [c \in s.cols |-> IF Filled(i, c) = {} THEN Empty
                          ELSE cell(file[Last(Filled(i, c))], c)]]

withKey(k) == {i \in DOMAIN rows : rows[i].key = k}
keys == {rows[i].key : i \in DOMAIN rows}
Put(f, x, y) == [z \in DOMAIN f \cup {x} |-> IF z = x THEN y ELSE f[z]]
Without(f, xs) == [z \in DOMAIN f \ xs |-> f[z]]

\* embedRows, best effort.
Vectors(values) == {NoVector, values}

Row(k, s, values, vector) ==
  [key |-> k, values |-> values, complete |-> isComplete(s, values), vector |-> vector]

-----------------------------------------------------------------------------
\* history
toldCells(k) == IF k \in DOMAIN told THEN told[k] ELSE [c \in Columns |-> Empty]
ColumnsRun(s) == \E t \in Slots \ {s} : requests[t].op = "columns"

\* Whether slot s writes beside a column change, or by the columns of before one.
BesideColumns(s) == ColumnsRun(s) \/ requests[s].shape # shape

\* Slot s writes the rows of the keys ks, from a copy that is stale or not.
Written(s, stale, ks) ==
  /\ raced' = raced \cup
       IF BesideColumns(s) THEN keys \cup ks
       ELSE IF stale \/ ks \cap raced # {} THEN ks ELSE {}
  /\ torn' = (torn \/ BesideColumns(s))

Ends(s) == requests' = [requests EXCEPT ![s] = Idle]
Starts(s, request) ==
  /\ requests[s] = Idle /\ made < MaxRequests
  /\ made' = made + 1 /\ requests' = [requests EXCEPT ![s] = request]
  /\ UNCHANGED <<shape, rows, faults, born, told, raced, crowded>>

-----------------------------------------------------------------------------
Init ==
  /\ shape \in Created /\ rows = <<>> /\ requests = [s \in Slots |-> Idle]
  /\ made = 0 /\ faults = 0 /\ born = 0
  /\ told = <<>> /\ raced = {} /\ torn = FALSE /\ crowded = FALSE

\* addRowService up to the write: with an existing key it is an update.
AskAdd(s, given) ==
  LET values == normalizeValues(shape, given)
      k == keyValueOf(shape, values)
  IN /\ DOMAIN given \subseteq shape.cols /\ k # Empty
     /\ \/ \E i \in withKey(k) :
             Starts(s, [op |-> "update", shape |-> shape, key |-> k, given |-> given,
                        id |-> i, was |-> rows[i], values |-> Merge(rows[i].values, given)])
        \/ /\ withKey(k) = {} /\ Cardinality(DOMAIN rows) < MaxRows
           /\ Starts(s, [op |-> "insert", shape |-> shape, key |-> k, given |-> given,
                         seen |-> DOMAIN rows, values |-> values])
     /\ UNCHANGED torn

\* editRowService up to the write: the key may change to a free one.
AskEdit(s, i, given) ==
  LET values == Merge(rows[i].values, given)
      k == keyValueOf(shape, values)
  IN /\ DOMAIN given \subseteq shape.cols /\ k # Empty /\ withKey(k) \subseteq {i}
     /\ Starts(s, [op |-> "edit", shape |-> shape, key |-> k, given |-> given, id |-> i,
                   was |-> rows[i], values |-> values])
     /\ UNCHANGED torn

AskRemove(s, i) ==
  /\ Starts(s, [op |-> "remove", shape |-> shape, key |-> rows[i].key, id |-> i,
                was |-> rows[i]])
  /\ UNCHANGED torn

\* insertRow: the key is unique.
InsertRow(s) ==
  LET r == requests[s]
  IN /\ r.op = "insert" /\ Ends(s)
     /\ IF withKey(r.key) # {}
        THEN UNCHANGED <<rows, born, told, raced, torn, crowded>>
        ELSE /\ born' = born + 1
             /\ \E v \in Vectors(r.values) :
                  rows' = Put(rows, born + 1, Row(r.key, r.shape, r.values, v))
             /\ told' = Put(told, r.key, Merge(toldCells(r.key), r.given))
             /\ crowded' = (crowded \/ DOMAIN rows # r.seen)
             /\ Written(s, FALSE, {r.key})
     /\ UNCHANGED <<shape, made, faults>>

\* updateRow: an update by addRowService leaves key_value as it is.
UpdateRow(s) ==
  LET r == requests[s]
      k == IF r.op = "edit" THEN r.key ELSE rows[r.id].key
  IN /\ r.op \in {"update", "edit"} /\ Ends(s)
     /\ IF r.id \notin DOMAIN rows \/ withKey(k) \ {r.id} # {}
        THEN UNCHANGED <<rows, told, raced, torn>>
        ELSE /\ \E v \in Vectors(r.values) :
                  rows' = [rows EXCEPT ![r.id] = Row(k, r.shape, r.values, v)]
             /\ told' = Put(Without(told, {r.was.key}), r.key,
                            Merge(toldCells(r.was.key), r.given))
             /\ Written(s, rows[r.id] # r.was, {k, r.key, r.was.key, rows[r.id].key})
     /\ UNCHANGED <<shape, made, faults, born, crowded>>

\* deleteRow.
RemoveRow(s) ==
  LET r == requests[s]
  IN /\ r.op = "remove" /\ Ends(s)
     /\ rows' = Without(rows, {r.id})
     /\ told' = Without(told, {rows[i].key : i \in DOMAIN rows \cap {r.id}})
     /\ Written(s, FALSE, {})
     /\ UNCHANGED <<shape, made, faults, born, crowded>>

-----------------------------------------------------------------------------
\* editCollectionService: the key column is pinned while there are rows.
AskColumns(s, to) ==
  /\ to # shape /\ (to.key # shape.key => rows = <<>>)
  /\ Starts(s, [op |-> "columns", shape |-> shape, to |-> to, offset |-> 0, page |-> <<>>,
                last |-> FALSE])
  /\ torn' = ColumnsRun(s)

\* reshapeRows: a page of rows, ...
ReadPage(s) ==
  LET r == requests[s]
      page == First(DOMAIN rows, r.offset + Page) \ First(DOMAIN rows, r.offset)
  IN /\ r.op = "columns" /\ DOMAIN r.page = {} /\ ~r.last
     /\ requests' = [requests EXCEPT
          ![s] = [r EXCEPT !.page = [i \in page |-> rows[i]], !.offset = @ + Page,
                           !.last = Cardinality(page) < Page]]
     /\ UNCHANGED <<shape, rows, made, faults, born, told, raced, torn, crowded>>

\* Mutation: the cells alone are written anew.
ReshapedCells(to, row) == [row EXCEPT !.values = [c \in to.cols |-> cell(row.values, c)]]

\* ... each written with the columns to come, its vector left as it is.
Reshaped(to, row) ==
  LET values == [c \in to.cols |-> cell(row.values, c)]
  IN [row EXCEPT !.values = values, !.complete = isComplete(to, values)]

ReshapeRow(s) ==
  LET r == requests[s]
  IN /\ r.op = "columns"
     /\ \E i \in First(DOMAIN r.page, 1) :
          LET was == r.page[i]
              new == Reshaped(r.to, was)
          IN /\ requests' = [requests EXCEPT ![s] = [r EXCEPT !.page = Without(@, {i})]]
             /\ IF i \in DOMAIN rows /\ new # was
                THEN /\ rows' = [rows EXCEPT ![i].values = new.values,
                                             ![i].complete = new.complete]
                     /\ raced' = raced \cup (IF rows[i] # was THEN {was.key, rows[i].key}
                                             ELSE {})
                ELSE UNCHANGED <<rows, raced>>
     /\ UNCHANGED <<shape, made, faults, born, told, torn, crowded>>

SaveColumns(s) ==
  LET r == requests[s]
  IN /\ r.op = "columns" /\ DOMAIN r.page = {} /\ r.last /\ Ends(s)
     /\ shape' = r.to
     /\ told' = [k \in DOMAIN told |->
                   [c \in Columns |-> IF c \in r.to.cols THEN told[k][c] ELSE Empty]]
     /\ torn' = (torn \/ r.shape # shape)
     /\ UNCHANGED <<rows, made, faults, born, raced, crowded>>

-----------------------------------------------------------------------------
\* importRowsService, writeRecords: the room is counted once.
AskImport(s, file) ==
  /\ Starts(s, [op |-> "import", shape |-> shape, left |-> Prepare(shape, file),
                inserts |-> <<>>, updates |-> <<>>, seen |-> DOMAIN rows,
                room |-> MaxRows - Cardinality(DOMAIN rows)])
  /\ UNCHANGED torn

\* A batch: the keys that exist are updates, the others inserts as far as there is room.
ReadBatch(s) ==
  LET r == requests[s]
      KeyOf(n) == keyValueOf(r.shape, r.left[n])
      batch == First(DOMAIN r.left, ImportBatch)
      new == {n \in batch : withKey(KeyOf(n)) = {}}
      inserts == First(new, r.room)
      Update(n) ==
        LET i == CHOOSE i \in withKey(KeyOf(n)) : TRUE
        IN [id |-> i, was |-> rows[i], given |-> r.left[n],
            values |-> Fill(rows[i].values, r.left[n])]
  IN /\ r.op = "import" /\ DOMAIN r.inserts = {} /\ DOMAIN r.updates = {} /\ batch # {}
     /\ requests' = [requests EXCEPT
          ![s] = [r EXCEPT !.left = Without(@, batch),
                           !.inserts = [n \in inserts |-> r.left[n]],
                           !.room = @ - Cardinality(inserts),
                           !.updates = [n \in batch \ new |-> Update(n)]]]
     /\ UNCHANGED <<shape, rows, made, faults, born, told, raced, torn, crowded>>

\* insertRows, at once: one key that exists breaks the import off.
InsertBatch(s) ==
  LET r == requests[s]
      KeyOf(n) == keyValueOf(r.shape, r.inserts[n])
      At(k) == CHOOSE n \in DOMAIN r.inserts : KeyOf(n) = k
      ks == {KeyOf(n) : n \in DOMAIN r.inserts}
      ids == born + 1 .. born + Cardinality(DOMAIN r.inserts)
      Insert(n, v) == Row(KeyOf(n), r.shape, r.inserts[n],
                          IF v THEN r.inserts[n] ELSE NoVector)
  IN /\ r.op = "import" /\ DOMAIN r.inserts # {}
     /\ IF keys \cap ks # {}
        THEN Ends(s) /\ UNCHANGED <<rows, born, told, raced, torn, crowded>>
        ELSE /\ born' = born + Cardinality(DOMAIN r.inserts)
             /\ requests' = [requests EXCEPT
                  ![s] = [r EXCEPT !.inserts = <<>>, !.seen = @ \cup ids]]
             /\ \E v \in BOOLEAN :
                  rows' = [i \in DOMAIN rows \cup ids |->
                             IF i \in DOMAIN rows THEN rows[i]
                             ELSE Insert(Nth(DOMAIN r.inserts, i - born), v)]
             /\ told' = [k \in DOMAIN told \cup ks |->
                           IF k \in ks THEN Merge(toldCells(k), r.inserts[At(k)])
                           ELSE told[k]]
             /\ crowded' = (crowded \/ DOMAIN rows \ r.seen # {})
             /\ Written(s, FALSE, ks)
     /\ UNCHANGED <<shape, made, faults>>

UpdateNext(s) ==
  LET r == requests[s]
  IN /\ r.op = "import" /\ DOMAIN r.inserts = {}
     /\ \E n \in First(DOMAIN r.updates, 1) :
          LET u == r.updates[n]
              k == keyValueOf(r.shape, u.given)
          IN /\ requests' = [requests EXCEPT ![s] = [r EXCEPT !.updates = Without(@, {n})]]
             /\ IF u.id \notin DOMAIN rows
                THEN UNCHANGED <<rows, told, raced, torn>>
                ELSE /\ \E v \in Vectors(u.values) :
                          rows' = [rows EXCEPT
                                     ![u.id] = Row(rows[u.id].key, r.shape, u.values, v)]
                     /\ told' = Put(told, k, Fill(toldCells(k), u.given))
                     /\ Written(s, rows[u.id] # u.was, {k, rows[u.id].key})
     /\ UNCHANGED <<shape, made, faults, born, crowded>>

EndImport(s) ==
  LET r == requests[s]
  IN /\ r.op = "import" /\ DOMAIN r.inserts = {} /\ DOMAIN r.updates = {} /\ DOMAIN r.left = {}
     /\ Ends(s)
     /\ UNCHANGED <<shape, rows, made, faults, born, told, raced, torn, crowded>>

\* A write fails, or the process ends: what was written before it stands.
BreakOff(s) ==
  /\ requests[s].op \in {"columns", "import"} /\ faults < MaxFaults
  /\ faults' = faults + 1 /\ Ends(s)
  /\ IF requests[s].op = "columns"
     THEN torn' = TRUE /\ raced' = raced \cup keys \cup DOMAIN told
     ELSE UNCHANGED <<torn, raced>>
  /\ UNCHANGED <<shape, rows, made, born, told, crowded>>

Next ==
  \E s \in Slots :
    \/ \E given \in Given : AskAdd(s, given) \/ \E i \in DOMAIN rows : AskEdit(s, i, given)
    \/ \E i \in DOMAIN rows : AskRemove(s, i)
    \/ \E to \in Shapes : AskColumns(s, to)
    \/ \E file \in Files : AskImport(s, file)
    \/ InsertRow(s) \/ UpdateRow(s) \/ RemoveRow(s)
    \/ ReadPage(s) \/ ReshapeRow(s) \/ SaveColumns(s)
    \/ ReadBatch(s) \/ InsertBatch(s) \/ UpdateNext(s) \/ EndImport(s)
    \/ BreakOff(s)

Spec == Init /\ [][Next]_collectionVars

-----------------------------------------------------------------------------
CollectionTypeOK ==
  /\ shape \in Shapes /\ made \in 0 .. MaxRequests /\ faults \in 0 .. MaxFaults
  /\ \A i \in DOMAIN rows : i \in 1 .. born /\ DOMAIN rows[i].values \subseteq Columns
  /\ Cardinality(keys) = Cardinality(DOMAIN rows)
  /\ torn \in BOOLEAN /\ crowded \in BOOLEAN

Reshaping == \E s \in Slots : requests[s].op = "columns"

\* The rows are the keys told of, with the cells last told, unless a row was written
\* from a copy that was no longer true.
RowsAsTold ==
  /\ keys \ raced = DOMAIN told \ raced
  /\ ~Reshaping =>
       \A i \in DOMAIN rows : rows[i].key \notin raced =>
         \A c \in shape.cols : cell(rows[i].values, c) = told[rows[i].key][c]

\* "`key_value` is the key column's value" (schema.ts), with the same exception.
KeyTellsRow ==
  \A i \in DOMAIN rows :
    rows[i].key \notin raced => rows[i].key = keyValueOf(shape, rows[i].values)

\* `complete` is what the columns make of the cells, also of a row that two requests
\* wrote; a column change that broke off, or ran beside a write, is mended by the next.
CompleteTells ==
  ~torn /\ ~Reshaping =>
    \A i \in DOMAIN rows : rows[i].complete = isComplete(shape, rows[i].values)

\* No vector is of other cells than those the row has.
VectorTells ==
  \A i \in DOMAIN rows : rows[i].vector # NoVector /\ rows[i].key \notin raced =>
    \A c \in DOMAIN rows[i].values :
      rows[i].values[c] # Empty => cell(rows[i].vector, c) = rows[i].values[c]

\* The cap holds, unless two requests counted on the same room.
RoomKept == Cardinality(DOMAIN rows) > MaxRows => crowded

CollectionKept == RowsAsTold /\ KeyTellsRow /\ CompleteTells /\ VectorTells /\ RoomKept
=============================================================================
