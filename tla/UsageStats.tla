----------------------------- MODULE UsageStats -----------------------------
(* Usage statistics (services/usagestats): one file per month, a cache of    *)
(* the months in use, and writes that are delayed by a second.  Record adds  *)
(* a turn to the cached month; a month's dirty data is flushed by a sleeping *)
(* goroutine, or before the first turn of another month is added; at startup *)
(* MigrateModelIDs rewrites every month.  Files are read and written outside *)
(* the store's lock, so that the cache may drop a month meanwhile.           *)
EXTENDS Naturals, Sequences, FiniteSets, SequencesExt, FiniteSetsExt

CONSTANTS
    Months,         \* a set of numbers
    Cached,         \* maxCachedMonths
    Turns,          \* the event ids; turn t ends in month MonthOf[t]
    MonthOf,
    Aliased,        \* turns whose agent reports the model under its old id
    MaxRecords, MaxReads, MaxFaults     \* bounds: calls of Record and of the reader;
                                        \* failing reads and writes, and crashes

VARIABLES
    disk,       \* the month files: turns counted, and those under the old model id
    months,     \* the cache
    order,      \* its keys, the least recently used first
    dirty,      \* and pending: flushPending; sleepers: goroutines in the debounce
    flush,      \* what the holder of flushMu still has to write, and for whom
    rec,        \* the holder of recordMu: a Record, or the migration
    reader,     \* loadMonthSnapshot between its two critical sections
    last,       \* lastRecordMonth
    usSeen      \* history, see below

usVars == <<disk, months, order, dirty, flush, rec, reader, last, usSeen>>

(* usSeen: the turns that were added, the months of which a copy was dropped *)
(* from the cache while somebody held another (raced) or of which a write    *)
(* failed, whether the migration went through, and counts for the bounds.    *)

Empty == [turns |-> {}, count |-> 0, old |-> {}]
Legacy == [turns |-> {}, count |-> 1, old |-> {0}]      \* an old turn, without its event id
NoMonth == 0

Fault == usSeen.faults < MaxFaults /\ usSeen' = [usSeen EXCEPT !.faults = @ + 1]

Free == [by |-> "nobody", todo |-> <<>>, at |-> NoMonth]
NoRecord == [pc |-> "idle", turn |-> NoMonth, failed |-> FALSE]
NoReader == [pc |-> "idle", month |-> NoMonth, read |-> Empty]
Clean == [set |-> {}, pending |-> FALSE, sleepers |-> 0]

Init ==
    /\ disk = [m \in Months |-> IF m = 1 THEN Legacy ELSE Empty]
    /\ months = <<>> /\ order = <<>>
    /\ dirty = Clean /\ flush = Free
    /\ rec = NoRecord /\ reader = NoReader /\ last = NoMonth
    /\ usSeen = [added |-> {}, raced |-> {}, failed |-> {}, migrated |-> FALSE,
                 records |-> 0, reads |-> 0, faults |-> 0]

-----------------------------------------------------------------------------
(* The cache.  Loading a month may drop the least recently used ones, up to  *)
(* the first that is dirty.                                                  *)

Touched(m) == Append(SelectSeq(order, LAMBDA k : k # m), m)

Kept(keys) ==
    LET drops == {n \in 0 .. Len(keys) :
                     /\ n <= IF Len(keys) > Cached THEN Len(keys) - Cached ELSE 0
                     /\ \A i \in 1 .. n : keys[i] \notin dirty.set}
    IN SubSeq(keys, Max(drops) + 1, Len(keys))

InFlight(m) ==
    \/ IF flush.by = "migrate" THEN flush.at = m ELSE m \in DOMAIN flush.todo
    \/ reader.month = m

(* months and order after month m was put into the cache with contents f.    *)
Loaded(m, f) ==
    LET keys == Kept(Append(order, m))
    IN /\ order' = keys
       /\ months' = [k \in ToSet(keys) |-> IF k = m THEN f ELSE months[k]]

Dropped == DOMAIN months \ DOMAIN months'

(* markDirtyLocked: the first mark starts a goroutine, unless one is coming. *)
MarkDirty(d, m) ==
    IF m \in d.set THEN d
    ELSE [set |-> d.set \cup {m}, pending |-> TRUE,
          sleepers |-> d.sleepers + IF d.pending THEN 0 ELSE 1]

(* What a flush takes: copies of the dirty months, which are clean from here *)
(* on.  A month that the cache has dropped is copied as an empty file.       *)
Copies(ms) == [m \in ms |-> IF m \in DOMAIN months THEN months[m] ELSE Empty]

Cleared(ms) ==
    LET rest == dirty.set \ ms
    IN [dirty EXCEPT !.set = rest, !.pending = @ /\ rest # {}]

-----------------------------------------------------------------------------
(* Record.  Under recordMu, the dirty data of other months is flushed first  *)
(* when the turn's month is not that of the last one.                        *)

Record(t) ==
    /\ rec.pc = "idle" /\ usSeen.records < MaxRecords
    /\ rec' = [rec EXCEPT !.turn = t,
                  !.pc = IF last \in {NoMonth, MonthOf[t]} THEN "apply" ELSE "rollover"]
    /\ usSeen' = [usSeen EXCEPT !.records = @ + 1]
    /\ UNCHANGED <<disk, months, order, dirty, flush, reader, last>>

(* Mutant: what the last month still has to write is left to the debounce.   *)
LazyRollover ==
    /\ rec.pc = "rollover"
    /\ rec' = [rec EXCEPT !.pc = "apply"]
    /\ UNCHANGED <<disk, months, order, dirty, flush, reader, last, usSeen>>

Rollover ==
    /\ rec.pc = "rollover" /\ flush.by = "nobody"
    /\ LET others == dirty.set \ {MonthOf[rec.turn]}
       IN /\ dirty' = Cleared(others)
          /\ flush' = IF others = {} THEN Free ELSE [Free EXCEPT !.by = "record", !.todo = Copies(others)]
          /\ rec' = [rec EXCEPT !.pc = IF others = {} THEN "apply" ELSE "flushing"]
    /\ UNCHANGED <<disk, months, order, reader, last, usSeen>>

Counted(f, t) ==
    [turns |-> f.turns \cup {t}, count |-> f.count + 1,
     old |-> f.old \cup ({t} \cap Aliased)]

FileOf(m) == IF m \in DOMAIN months THEN months[m] ELSE disk[m]

(* The month's contents become f; one that is not cached is loaded for it.   *)
Cache(m, f) ==
    IF m \in DOMAIN months
    THEN order' = Touched(m) /\ months' = [months EXCEPT ![m] = f]
    ELSE Loaded(m, f)

(* A turn that was added before is not added again.                          *)
Apply ==
    /\ rec.pc = "apply"
    /\ rec' = NoRecord
    /\ LET t == rec.turn
           m == MonthOf[t]
           f == FileOf(m)
           fresh == t \notin f.turns
       IN /\ Cache(m, IF fresh THEN Counted(f, t) ELSE f)
          /\ dirty' = IF fresh THEN MarkDirty(dirty, m) ELSE dirty
          /\ last' = IF fresh THEN m ELSE last
          /\ usSeen' = [usSeen EXCEPT
                !.added = IF fresh THEN @ \cup {t} ELSE @,
                !.raced = @ \cup {k \in Dropped : InFlight(k)},
                !.migrated = @ /\ (fresh => t \notin Aliased)]
    /\ UNCHANGED <<disk, flush, reader>>

(* A month that cannot be read drops the turn.                               *)
ApplyFails ==
    /\ rec.pc = "apply" /\ MonthOf[rec.turn] \notin DOMAIN months
    /\ Fault
    /\ rec' = NoRecord
    /\ UNCHANGED <<disk, months, order, dirty, flush, reader, last>>

-----------------------------------------------------------------------------
(* Flushes, one at a time.  Flush is the shutdown's.                         *)

Wake ==
    /\ dirty.sleepers > 0 /\ flush.by = "nobody"
    /\ dirty' = [Cleared(dirty.set) EXCEPT !.sleepers = @ - 1]
    /\ flush' = IF dirty.set = {} THEN Free ELSE [Free EXCEPT !.by = "flush", !.todo = Copies(dirty.set)]
    /\ UNCHANGED <<disk, months, order, rec, reader, last, usSeen>>

Flush ==
    /\ dirty.set # {} /\ flush.by = "nobody"
    /\ dirty' = Cleared(dirty.set)
    /\ flush' = [Free EXCEPT !.by = "flush", !.todo = Copies(dirty.set)]
    /\ UNCHANGED <<disk, months, order, rec, reader, last, usSeen>>

(* writePending: one month is written, or marked again after a failure.      *)
Rest(m) == [k \in DOMAIN flush.todo \ {m} |-> flush.todo[k]]

Released(m) ==
    /\ flush' = IF DOMAIN flush.todo = {m} THEN Free ELSE [flush EXCEPT !.todo = Rest(m)]
    /\ rec' = IF DOMAIN flush.todo = {m} /\ flush.by = "record" THEN [rec EXCEPT !.pc = "apply"] ELSE rec

Write(m) ==
    /\ flush.by \in {"record", "flush"} /\ m \in DOMAIN flush.todo
    /\ disk' = [disk EXCEPT ![m] = flush.todo[m]]
    /\ Released(m)
    /\ UNCHANGED <<months, order, dirty, reader, last, usSeen>>

WriteFails(m) ==
    /\ flush.by \in {"record", "flush"} /\ m \in DOMAIN flush.todo
    /\ usSeen.faults < MaxFaults
    /\ usSeen' = [usSeen EXCEPT !.faults = @ + 1, !.failed = @ \cup {m}]
    /\ dirty' = MarkDirty(dirty, m)
    /\ Released(m)
    /\ UNCHANGED <<disk, months, order, reader, last>>

-----------------------------------------------------------------------------
(* loadMonthSnapshot: a month that is not cached is read outside the lock    *)
(* and put into the cache, unless it has come there meanwhile.               *)

ReadBegins(m) ==
    /\ reader.pc = "idle" /\ usSeen.reads < MaxReads
    /\ usSeen' = [usSeen EXCEPT !.reads = @ + 1]
    /\ IF m \in DOMAIN months
       THEN order' = Touched(m) /\ UNCHANGED reader
       ELSE reader' = [pc |-> "read", month |-> m, read |-> disk[m]] /\ UNCHANGED order
    /\ UNCHANGED <<disk, months, dirty, flush, rec, last>>

ReadEnds ==
    /\ reader.pc = "read"
    /\ reader' = NoReader
    /\ LET m == reader.month
       IN \/ /\ Cache(m, IF m \in DOMAIN months THEN months[m] ELSE reader.read)
             /\ usSeen' = [usSeen EXCEPT !.raced = @ \cup {k \in Dropped : InFlight(k)}]
          \/ m \notin DOMAIN months /\ Fault /\ UNCHANGED <<months, order>>
    /\ UNCHANGED <<disk, dirty, flush, rec, last>>

(* What a query over all time adds up, were it to run now: every month from  *)
(* the first one known on.                                                   *)
KnownMonths ==
    {m \in Months : \/ disk[m] # Empty
                    \/ m \in DOMAIN months /\ (m \in dirty.set \/ months[m].count > 0)}

Report ==
    LET from == Min(KnownMonths)
    IN [turns |-> UNION {FileOf(m).turns : m \in {k \in Months : k >= from}},
        count |-> MapThenSumSet(LAMBDA m : FileOf(m).count, {k \in Months : k >= from})]

-----------------------------------------------------------------------------
(* MigrateModelIDs, under recordMu and flushMu, month by month: the cached   *)
(* month and its file are rewritten under the new model id.                  *)

(* The months that have a file or are cached.                                *)
Known == {m \in Months : disk[m] # Empty \/ m \in DOMAIN months}

Migrate ==
    /\ rec.pc = "idle" /\ flush.by = "nobody"
    /\ ~usSeen.migrated /\ Aliased # {}
    /\ rec' = [NoRecord EXCEPT !.pc = "migrate"]
    /\ flush' = [Free EXCEPT !.by = "migrate", !.todo = [m \in Known |-> Empty]]
    /\ UNCHANGED <<disk, months, order, dirty, reader, last, usSeen>>

Migrated(f) == [f EXCEPT !.old = {}]

MigrateCached(m) == Cache(m, Migrated(FileOf(m)))

(* The next month: its cached copy is changed, the file follows.             *)
MigrateMonth(m) ==
    /\ flush.by = "migrate" /\ flush.at = NoMonth
    /\ m \in DOMAIN flush.todo /\ \A k \in DOMAIN flush.todo : m <= k
    /\ FileOf(m).old # {}
    /\ MigrateCached(m)
    /\ flush' = [flush EXCEPT !.todo[m] = Migrated(FileOf(m)), !.at = m]
    /\ usSeen' = [usSeen EXCEPT !.raced = @ \cup {k \in Dropped : InFlight(k)}]
    /\ UNCHANGED <<disk, dirty, rec, reader, last>>

(* The month is done with, well or not.                                      *)
MonthDone(m, well) ==
    /\ flush' = IF DOMAIN flush.todo = {m} THEN Free ELSE [flush EXCEPT !.todo = Rest(m), !.at = NoMonth]
    /\ rec' = IF DOMAIN flush.todo = {m} THEN NoRecord ELSE [rec EXCEPT !.failed = @ \/ ~well]

Done(m) == DOMAIN flush.todo = {m} /\ ~rec.failed

(* A month without the old id is loaded only; one that cannot be read fails. *)
MigrateSkips(m) ==
    /\ flush.by = "migrate" /\ flush.at = NoMonth
    /\ m \in DOMAIN flush.todo /\ \A k \in DOMAIN flush.todo : m <= k
    /\ \/ /\ FileOf(m).old = {}
          /\ Cache(m, FileOf(m)) /\ MonthDone(m, TRUE)
          /\ usSeen' = [usSeen EXCEPT !.raced = @ \cup {k \in Dropped : InFlight(k)}, !.migrated = Done(m)]
       \/ /\ m \notin DOMAIN months /\ Fault
          /\ MonthDone(m, FALSE) /\ UNCHANGED <<months, order>>
    /\ UNCHANGED <<disk, dirty, reader, last>>

MigrateWrite ==
    /\ flush.by = "migrate" /\ flush.at # NoMonth
    /\ LET m == flush.at
       IN \/ /\ disk' = [disk EXCEPT ![m] = flush.todo[m]]
             /\ usSeen' = [usSeen EXCEPT !.migrated = Done(m)]
             /\ MonthDone(m, TRUE)
             /\ UNCHANGED dirty
          \/ /\ usSeen.faults < MaxFaults
             /\ usSeen' = [usSeen EXCEPT !.faults = @ + 1, !.failed = @ \cup {m}]
             /\ dirty' = MarkDirty(dirty, m)
             /\ MonthDone(m, FALSE)
             /\ UNCHANGED disk
    /\ UNCHANGED <<months, order, reader, last>>

Crash ==
    /\ usSeen.faults < MaxFaults
    /\ months' = <<>> /\ order' = <<>> /\ dirty' = Clean /\ flush' = Free
    /\ rec' = NoRecord /\ reader' = NoReader /\ last' = NoMonth
    /\ usSeen' = [usSeen EXCEPT !.faults = @ + 1, !.failed = {}, !.migrated = FALSE,
                    !.added = {t \in @ : t \in disk[MonthOf[t]].turns}]
    /\ UNCHANGED disk

Next ==
    \/ \E t \in Turns : Record(t)
    \/ Rollover \/ Apply \/ ApplyFails \/ Wake \/ Flush
    \/ \E m \in Months : Write(m) \/ WriteFails(m) \/ ReadBegins(m) \/ MigrateMonth(m) \/ MigrateSkips(m)
    \/ ReadEnds \/ Migrate \/ MigrateWrite \/ Crash

Spec == Init /\ [][Next]_usVars

-----------------------------------------------------------------------------
(* Every turn that Record has added is counted, once, and a query over all   *)
(* time finds it; the old turns stay; and once a turn of another month has   *)
(* been added, a month's turns are in its file, which a crash cannot take    *)
(* back.  Excepted are months of which a write failed or that the cache      *)
(* dropped while a copy of them was on its way (CacheForgets).               *)
CountsKept ==
    /\ \A m \in Months \ usSeen.raced : \A f \in {disk[m], FileOf(m)} :
          f.count = Cardinality(f.turns) + IF m = 1 THEN 1 ELSE 0
    /\ usSeen.raced = {} => Report.count = Cardinality(Report.turns) + 1
    /\ \A t \in usSeen.added : MonthOf[t] \notin usSeen.raced =>
          /\ t \in Report.turns
          /\ MonthOf[t] \notin usSeen.failed \cup {last} => t \in disk[MonthOf[t]].turns

(* What is dirty has a goroutine that will flush it, after failures too.     *)
DirtyIsTended == dirty.set # {} => dirty.pending /\ dirty.sleepers > 0

(* After MigrateModelIDs has succeeded no file and no cached month has a     *)
(* bucket under the old id, or its file is about to be written without, and  *)
(* no delayed write brings one back.                                         *)
MigrationSticks ==
    usSeen.migrated =>
        \A m \in Months \ usSeen.raced :
            /\ FileOf(m).old = {}
            /\ disk[m].old = {} \/ m \in dirty.set \cup DOMAIN flush.todo
            /\ m \in DOMAIN flush.todo => flush.todo[m].old = {}

(* Not so: a month that is dropped from the cache while it is written, or    *)
(* read, comes back without what was added meanwhile; after a failed write   *)
(* its file is replaced by an empty one.                                     *)
CacheForgets == \A t \in usSeen.added : t \in FileOf(MonthOf[t]).turns
=============================================================================
