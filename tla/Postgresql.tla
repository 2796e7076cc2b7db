---------------------------- MODULE Postgresql ----------------------------
(***************************************************************************)
(* The PostgreSQL output (plugins/outputs/postgresql): a write checks the  *)
(* connection, and then for each measurement prepares its tables, finds    *)
(* the id of each metric's tag set and copies the rows.  Every statement   *)
(* is a step; the connection may die between two, and the reply of a       *)
(* statement may be lost.  The output is called again with the same batch  *)
(* until the write succeeds.                                               *)
(*                                                                         *)
(* A metric has one field, whose type matters, and a set of tags, whose    *)
(* values do not.  Columns that every table has (time, tag_id) are left    *)
(* out.  Rows of a tag table with equal tags are interchangeable, so the   *)
(* id of a tag row is its tag set and the life of the table it is in.      *)
(* Schema updates are on, as by default; fields are not JSON.              *)
(***************************************************************************)
EXTENDS Naturals, Sequences, FiniteSets

CONSTANTS
    PgBatch,      \* batches: sequences of records [name, tags, kind]
    CacheSize,    \* CachedTagsetsPerMeasurement
    MaxBatches, MaxFaults  \* bounds

ASSUME PostgresqlConstants ==
    /\ CacheSize \in Nat \ {0}
    /\ <<>> \notin PgBatch
    /\ MaxBatches \in Nat /\ MaxFaults \in Nat

VARIABLES
    tagsAsFK, tagsAsJSON,  \* of the configuration
    serverUp,
    tables,     \* the tables of the database, with their columns' types
    epoch,      \* how often the tables have been dropped
    tagRows,    \* by measurement, the tag sets in its tag table
    rows,       \* the rows stored: metrics, with their tag ids
    db,         \* "nil", "alive" or "dead"
    known,      \* the table manager's Tables
    tagCache,   \* by measurement, pairs of tag set and id, oldest first
    step,       \* where Write is
    batch,      \* the batch being written; empty between two
    pending,    \* measurements of the batch still to be written
    measure,    \* the one being written
    values,     \* tag ids of its rows so far
    accepted,   \* metrics of writes that returned nil
    failed,     \* a write of this batch has failed
    batches, faults

pgVars == <<tagsAsFK, tagsAsJSON, serverUp, tables, epoch, tagRows, rows,
            db, known, tagCache, step, batch, pending, measure,
            values, accepted, failed, batches, faults>>
pgConfig == <<tagsAsFK, tagsAsJSON>>

pgServer == <<serverUp, tables, epoch, tagRows, rows>>
pgBounds == <<batches, faults>>

Name == UNION {{b[i].name : i \in DOMAIN b} : b \in PgBatch}
Table == {"main", "tag"} \X Name

\* An absent table has no columns at all, not even the standing ones.
Absent == [exists |-> FALSE, cols |-> <<>>]

PgInit ==
    /\ tagsAsFK \in BOOLEAN /\ tagsAsJSON \in BOOLEAN
    /\ serverUp = TRUE /\ epoch = 0
    /\ rows = {}
    /\ tables = [t \in Table |-> Absent]
    /\ tagRows = [n \in Name |-> {}]
    /\ db = "alive" /\ known = {}
    /\ tagCache = [n \in Name |-> <<>>]
    /\ step = "idle" /\ batch = <<>> /\ pending = {}
    /\ measure = (CHOOSE n \in Name : TRUE) /\ values = <<>>
    /\ accepted = {} /\ failed = FALSE /\ batches = 0 /\ faults = 0

-----------------------------------------------------------------------------
(* Types and columns. *)

PgTypeCanContain(canThis, containThis) ==
    \/ canThis = containThis
    \/ <<canThis, containThis>> \in
           {<<"int8", "int4">>, <<"int4", "serial">>, <<"float8", "int4">>,
            <<"timestamptz", "timestamp">>}

\* The metrics of the measurement, in the order of the batch.
Metrics == SelectSeq(batch, LAMBDA m : m.name = measure)

TagColumns(ms) == UNION {ms[i].tags : i \in DOMAIN ms}

\* Target: the columns of a table for these metrics.  A field's type is the
\* one of the first metric that has it.
Target(t, ms) ==
    LET tagCols == IF tagsAsJSON THEN [c \in {"tags"} |-> "jsonb"]
                                 ELSE [c \in TagColumns(ms) |-> "text"]
        fieldCols == [c \in {"field"} |-> ms[1].kind]
    IN CASE t = "tag"             -> tagCols
         [] t = "main" /\ tagsAsFK -> fieldCols
         [] OTHER -> [c \in DOMAIN tagCols \union {"field"} |->
                         IF c = "field" THEN fieldCols[c] ELSE tagCols[c]]

-----------------------------------------------------------------------------
(* The server. *)

\* The server, or just the connection, goes away.
ConnectionDies ==
    /\ faults < MaxFaults /\ faults' = faults + 1
    /\ db = "alive" /\ db' = "dead"
    /\ serverUp' \in BOOLEAN
    /\ UNCHANGED <<pgConfig, tables, epoch, tagRows, rows, known, tagCache,
                   step, batch, pending, measure, values, accepted, failed,
                   batches>>

\* While the output is not connected its tables are dropped.
TablesDropped ==
    /\ faults < MaxFaults /\ faults' = faults + 1
    /\ db # "alive"
    /\ tables' = [t \in Table |-> Absent] /\ epoch' = epoch + 1
    /\ tagRows' = [n \in Name |-> {}] /\ rows' = {}
    /\ UNCHANGED <<pgConfig, serverUp, db, known, tagCache,
                   step, batch, pending, measure, values, accepted, failed,
                   batches>>

ServerComesBack ==
    /\ ~serverUp /\ serverUp' = TRUE
    /\ UNCHANGED <<pgConfig, tables, epoch, tagRows, rows, db, known,
                   tagCache, step, batch, pending, measure, values, accepted,
                   failed, pgBounds>>

-----------------------------------------------------------------------------
(* Write. *)

\* An error ends the write; the batch stays with the caller.
Fails == step' = "idle" /\ failed' = TRUE

NewBatch ==
    /\ step = "idle" /\ batch = <<>>
    /\ batches < MaxBatches /\ batches' = batches + 1
    /\ batch' \in PgBatch
    /\ failed' = FALSE
    /\ UNCHANGED <<pgConfig, serverUp, tables, epoch, tagRows, rows, db, known,
                   tagCache, step, pending, measure, values, accepted, faults>>

\* checkConnection, and GroupMetricsByMeasurement.
BeginWrite ==
    /\ step = "idle" /\ batch # <<>>
    /\ step' = IF db = "alive" THEN "measure" ELSE "reset"
    /\ pending' = {batch[i].name : i \in DOMAIN batch}
    /\ UNCHANGED <<pgConfig, pgServer, db, known, tagCache, batch, measure,
                   values, accepted, failed, pgBounds>>

\* Mutant: the tables are still believed to exist.
resetConnectionOnly ==
    /\ step = "reset"
    /\ IF serverUp THEN db' = "alive" /\ step' = "measure" /\ UNCHANGED failed
                   ELSE db' = "nil" /\ Fails
    /\ UNCHANGED <<pgConfig, pgServer, known, tagCache, batch, pending, measure,
                   values, accepted, pgBounds>>

\* The cache of tables is cleared, the cache of tag ids is not.
resetConnection ==
    /\ step = "reset"
    /\ known' = {}
    /\ IF serverUp THEN db' = "alive" /\ step' = "measure" /\ UNCHANGED failed
                   ELSE db' = "nil" /\ Fails
    /\ UNCHANGED <<pgConfig, pgServer, tagCache, batch, pending, measure,
                   values, accepted, pgBounds>>

\* The next measurement, in the order of a Go map; nil after the last.
NextMeasure ==
    /\ step = "measure"
    /\ IF pending = {}
       THEN /\ accepted' = accepted \union {batch[i] : i \in DOMAIN batch}
            /\ batch' = <<>> /\ step' = "idle"
            /\ UNCHANGED measure
       ELSE /\ measure' \in pending /\ step' = "main"
            /\ UNCHANGED <<accepted, batch>>
    /\ values' = <<>>
    /\ UNCHANGED <<pgConfig, pgServer, db, known, tagCache, pending, failed,
                   pgBounds>>

\* prepareTable is followed by that of the tag table, or by the rows.
Prepared(t) ==
    /\ step' = IF t = "main" /\ tagsAsFK THEN "tag" ELSE "rows"
    /\ UNCHANGED failed

\* prepareTable when Exists says no, because there is no table or because the
\* query failed.
CreateTable(t, queryFails) ==
    /\ step = t /\ <<t, measure>> \notin known
    /\ ~tables[<<t, measure>>].exists \/ queryFails \/ db # "alive"
    /\ faults' = faults + (IF queryFails THEN 1 ELSE 0) /\ faults' <= MaxFaults
    /\ IF db = "alive"
       THEN /\ tables' = [tables EXCEPT ![<<t, measure>>] =
                             IF @.exists THEN @
                             ELSE [exists |-> TRUE, cols |-> Target(t, Metrics)]]
            /\ known' = known \union {<<t, measure>>}
            /\ Prepared(t)
       ELSE Fails /\ UNCHANGED <<tables, known>>
    /\ UNCHANGED <<pgConfig, serverUp, epoch, tagRows, rows, db, tagCache,
                   batch, pending, measure, values, accepted, batches>>

Missing(t) == DOMAIN Target(t, Metrics) \ DOMAIN tables[<<t, measure>>].cols

\* FindColumnMismatch has found a column that cannot hold the values.
Incompatible(t) ==
    \E c \in DOMAIN Target(t, Metrics) \ Missing(t) :
        ~PgTypeCanContain(tables[<<t, measure>>].cols[c], Target(t, Metrics)[c])

\* prepareTable when the table is said to exist: an error, or one more column,
\* or done.  The columns are looked up once; they are this output's to change.
PrepareColumns(t) ==
    /\ step = t
    /\ <<t, measure>> \in known \/ (tables[<<t, measure>>].exists /\ db = "alive")
    /\ known' = known \union {<<t, measure>>}
    /\ IF db # "alive" \/ ~tables[<<t, measure>>].exists \/ Incompatible(t)
       THEN Fails /\ UNCHANGED tables
       ELSE IF Missing(t) = {}
       THEN Prepared(t) /\ UNCHANGED tables
       ELSE \E c \in Missing(t) :
               /\ tables' = [tables EXCEPT ![<<t, measure>>].cols =
                                [d \in DOMAIN @ \union {c} |->
                                    IF d = c THEN Target(t, Metrics)[c] ELSE @[d]]]
               /\ UNCHANGED <<step, failed>>
    /\ UNCHANGED <<pgConfig, serverUp, epoch, tagRows, rows, db, tagCache,
                   batch, pending, measure, values, accepted, pgBounds>>

-----------------------------------------------------------------------------
(* getTagID. *)

TagSet == Metrics[Len(values) + 1].tags

Cached == {i \in DOMAIN tagCache[measure] : tagCache[measure][i][1] = TagSet}

\* The cache keeps the CacheSize sets used last.
Recache(id) ==
    LET others == SelectSeq(tagCache[measure], LAMBDA e : e[1] # TagSet)
        entries == Append(others, <<TagSet, id>>)
    IN tagCache' = [tagCache EXCEPT ![measure] =
           IF Len(entries) > CacheSize THEN Tail(entries) ELSE entries]

RowDone(id) == values' = Append(values, id) /\ Recache(id)

\* Without foreign keys a row has no tag id.
RowWithoutId ==
    /\ step = "rows" /\ Len(values) < Len(Metrics) /\ ~tagsAsFK
    /\ values' = Append(values, [epoch |-> epoch, tags |-> {}])
    /\ UNCHANGED <<pgConfig, pgServer, db, known, tagCache, step, batch,
                   pending, measure, accepted, failed, pgBounds>>

RowCached ==
    /\ step = "rows" /\ Len(values) < Len(Metrics) /\ tagsAsFK
    /\ \E i \in Cached : RowDone(tagCache[measure][i][2])
    /\ UNCHANGED <<pgConfig, pgServer, db, known, step, batch, pending, measure,
                   accepted, failed, pgBounds>>

\* The rows that the SELECT finds.  As columns, only the tags of this batch
\* are compared, and without any the statement is refused; as JSON, a tag set
\* without tags is NULL, which equals nothing.
Found ==
    {tags \in tagRows[measure] :
        IF tagsAsJSON THEN TagSet # {} /\ tags = TagSet
        ELSE /\ TagColumns(Metrics) # {}
             /\ tags \intersect TagColumns(Metrics) = TagSet}

RowSelected ==
    /\ step = "rows" /\ Len(values) < Len(Metrics) /\ tagsAsFK /\ Cached = {}
    /\ db = "alive"
    /\ \E tags \in Found : RowDone([epoch |-> epoch, tags |-> tags])
    /\ UNCHANGED <<pgConfig, pgServer, db, known, step, batch, pending, measure,
                   accepted, failed, pgBounds>>

\* A tag that the batch has and the metric has not leaves a parameter of the
\* SELECT unused, which the driver or the server may refuse.
SelectMayFail == ~tagsAsJSON /\ TagSet # TagColumns(Metrics)

\* Whatever the error of the SELECT was, the tag set is inserted.
RowInserted(replyLost) ==
    /\ step = "rows" /\ Len(values) < Len(Metrics) /\ tagsAsFK /\ Cached = {}
    /\ db = "alive" => Found = {} \/ SelectMayFail
    /\ faults' = faults + (IF replyLost THEN 1 ELSE 0) /\ faults' <= MaxFaults
    /\ replyLost => db = "alive"
    /\ LET inserted == db = "alive" /\ (tagsAsJSON \/ TagColumns(Metrics) # {})
       IN /\ tagRows' = IF ~inserted THEN tagRows
                        ELSE [tagRows EXCEPT ![measure] = @ \union {TagSet}]
          /\ IF inserted /\ ~replyLost
             THEN /\ RowDone([epoch |-> epoch, tags |-> TagSet])
                  /\ UNCHANGED <<step, failed>>
             ELSE Fails /\ UNCHANGED <<values, tagCache>>
    /\ db' = IF replyLost THEN "dead" ELSE db
    /\ UNCHANGED <<pgConfig, serverUp, tables, epoch, rows, known, batch,
                   pending, measure, accepted, batches>>

-----------------------------------------------------------------------------
\* The server takes the rows only if the columns exist and hold the values.
CopyFits ==
    LET cols == tables[<<"main", measure>>].cols
    IN /\ tables[<<"main", measure>>].exists
       /\ DOMAIN Target("main", Metrics) \subseteq DOMAIN cols
       /\ \A i \in DOMAIN Metrics : PgTypeCanContain(cols["field"], Metrics[i].kind)

Stores ==
    rows' = rows \union
        {[metric |-> Metrics[i], id |-> values[i]] : i \in DOMAIN Metrics}

\* Mutant: the result of the copy is not looked at.
CopyDoneUnchecked(stored, replyLost) ==
    step' = "measure" /\ pending' = pending \ {measure} /\ UNCHANGED failed

\* writeMetricsFromMeasure returns to the loop of Write.
CopyDone(stored, replyLost) ==
    IF stored /\ ~replyLost
    THEN step' = "measure" /\ pending' = pending \ {measure} /\ UNCHANGED failed
    ELSE Fails /\ UNCHANGED pending

\* DoCopy stores all rows of the measurement or none.
DoCopy(replyLost) ==
    /\ step = "rows" /\ Len(values) = Len(Metrics)
    /\ faults' = faults + (IF replyLost THEN 1 ELSE 0) /\ faults' <= MaxFaults
    /\ replyLost => db = "alive"
    /\ LET stored == db = "alive" /\ CopyFits
       IN /\ IF stored THEN Stores ELSE UNCHANGED rows
          /\ CopyDone(stored, replyLost)
    /\ db' = IF replyLost THEN "dead" ELSE db
    /\ UNCHANGED <<pgConfig, serverUp, tables, epoch, tagRows, known, tagCache,
                   batch, measure, values, accepted, batches>>

Write ==
    \/ BeginWrite \/ resetConnection \/ NextMeasure
    \/ \E t \in {"main", "tag"} : CreateTable(t, FALSE) \/ PrepareColumns(t)
    \/ RowWithoutId \/ RowCached \/ RowSelected
    \/ RowInserted(FALSE) \/ DoCopy(FALSE)

PgNext ==
    \/ Write \/ NewBatch
    \/ \E t \in {"main", "tag"} : CreateTable(t, TRUE)
    \/ RowInserted(TRUE) \/ DoCopy(TRUE)
    \/ ConnectionDies \/ TablesDropped \/ ServerComesBack

\* The agent flushes again and again, and the server comes back.
PgFairness == WF_pgVars(Write) /\ WF_pgVars(ServerComesBack)

PgSpec == PgInit /\ [][PgNext]_pgVars /\ PgFairness

-----------------------------------------------------------------------------
\* The tag row that a stored row refers to is there and has the metric's tags.
Resolves(r) ==
    /\ r.id.epoch = epoch /\ r.id.tags \in tagRows[r.metric.name]
    /\ r.id.tags = r.metric.tags

\* What a successful write was given is in the database, until somebody drops
\* the tables; with tags in a JSON column every stored row's tag id stands for
\* the tag set of its metric, whatever the connection did.
AcceptedIsStored ==
    epoch = 0 =>
        /\ \A m \in accepted : \E r \in rows : r.metric = m
        /\ tagsAsFK /\ tagsAsJSON => \A r \in rows : Resolves(r)

\* The tag ids are right also with a column for each tag: "asks the database if
\* that tag set has already been recorded".
TagsResolve == tagsAsFK /\ epoch = 0 => \A r \in rows : Resolves(r)

\* The batch can be stored: its fields fit the columns, and as columns a
\* measurement has tags.
Storable ==
    \A i \in DOMAIN batch :
        /\ \A j \in DOMAIN batch :
              batch[j].name = batch[i].name => batch[j].kind = batch[i].kind
        /\ LET t == tables[<<"main", batch[i].name>>]
           IN t.exists /\ "field" \in DOMAIN t.cols
                  => PgTypeCanContain(t.cols["field"], batch[i].kind)
        /\ tagsAsFK /\ ~tagsAsJSON => batch[i].tags # {}

\* A batch that can be stored is accepted once the server stays, whatever the
\* faults have left behind in the database and in the caches.
BatchIsAccepted == (batch # <<>>) ~> (batch = <<>> \/ ~Storable)
=============================================================================
