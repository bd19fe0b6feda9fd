------------------------------- MODULE Paging -------------------------------
(***************************************************************************)
(* Bounded pages over the evidence an invocation retains: records kept in  *)
(* memory (query_paging.rs, page_records), the rows of a query's standard  *)
(* output read by byte offset (page_query_file_from_cursor), the ledger of *)
(* invocations and the list of deferred results in descending time order,  *)
(* and the evidence records of a console or test log (inspection.rs).      *)
(*                                                                         *)
(* A scan stops in one of two ways: at its scan limit, or at the first     *)
(* match that the page has no room for.  Both are stated as sets of        *)
(* ordinals here, where the code has a loop with two early exits.          *)
(* Ordinals start at 1, so that 0 is the code's "before the beginning".    *)
(***************************************************************************)
EXTENDS Integers, Sequences, FiniteSets, SequencesExt

CONSTANTS
    MaxItems,       \* the most items of one page                (100)
    MaxScan,        \* the most records scanned for one page     (10,000)
    LineLimit       \* the most bytes of a query row kept        (65,536)

ASSUME LimitsAssumption ==
    /\ MaxItems \in Nat \ {0}
    /\ MaxScan \in Nat \ {0}
    /\ MaxItems <= MaxScan
    /\ LineLimit \in Nat \ {0}

\* The numbers of a finite set in ascending order: the n-th has n - 1 below it.
InOrder(S) ==
    [n \in 1 .. Cardinality(S) |->
        CHOOSE x \in S : Cardinality({y \in S : y < x}) = n - 1]

\* The elements of a sequence whose positions are in S.
Chosen(seq, S) == [n \in DOMAIN InOrder(S) |-> seq[InOrder(S)[n]]]

Clamp(x, low, high) == IF x < low THEN low ELSE IF x > high THEN high ELSE x

ItemLimit(items) == Clamp(items, 1, MaxItems)

ScanLimit(items, scan) == Clamp(scan, Clamp(items, 1, MaxScan), MaxScan)

(***************************************************************************)
(* Cursors.  A cursor names what it continues: the kind of its encoding    *)
(* and a digest of the scope, the invocation and the filter it was issued  *)
(* for.  An absent and an empty filter have the same digest in the store's *)
(* cursors; a log cursor holds the filter itself and keeps them apart.     *)
(***************************************************************************)
NoCursor == [kind |-> "none"]

StoreFilter(filter) == IF filter = "none" THEN "empty" ELSE filter

ContextWithoutFilter(scope, id, filter) == <<scope, id>>

Context(scope, id, filter) == <<scope, id, StoreFilter(filter)>>

OrdinalCursor(ctx, ordinal) == [kind |-> "ordinal", ctx |-> ctx, at |-> ordinal]

FileCursor(ctx, offset, ordinal, total, filtered) ==
    [kind |-> "file", ctx |-> ctx, at |-> offset, ordinal |-> ordinal,
     total |-> total, filtered |-> filtered]

LogCursor(view, id, filter, next) ==
    [kind |-> "log", ctx |-> <<view, id, filter>>, at |-> next]

TimeCursor(kind, ctx, key) == [kind |-> kind, ctx |-> ctx, at |-> key]

\* decode_for: the length, version and kind of the encoding, then its context.
DecodesFor(cursor, kind, ctx) ==
    cursor = NoCursor \/ (cursor.kind = kind /\ cursor.ctx = ctx)

(***************************************************************************)
(* The scan that page_records, list_invocations, list_deferred_results and *)
(* page_evidence_records share.  hit[i] says whether record i matches.     *)
(***************************************************************************)
HitsIn(hit, from, to) == {i \in from .. to : hit[i]}

StopsAt(hit, after, items, scan) ==
    {i \in after + 1 .. Len(hit) :
        \/ i - after - 1 = scan
        \/ hit[i] /\ Cardinality(HitsIn(hit, after + 1, i - 1)) = items}

LastScanned(hit, stops) == IF stops = {} THEN Len(hit) ELSE Min(stops) - 1

\* The page of ordinals: the matches scanned, the last ordinal scanned, and
\* whether a record was left unscanned.
ScanFrom(hit, after, last, stops) ==
    [ordinals  |-> InOrder(HitsIn(hit, after + 1, last)),
     last      |-> last,
     truncated |-> stops # {}]

Scan(hit, after, items, scan) ==
    ScanFrom(hit, after, LastScanned(hit, StopsAt(hit, after, items, scan)),
             StopsAt(hit, after, items, scan))

(***************************************************************************)
(* Pages.  total and filtered are -1 where the code returns None.          *)
(***************************************************************************)
Unknown == -1

Page(items, cursors, total, filtered, next, truncated) ==
    [items |-> items, item_cursors |-> cursors, total |-> total,
     filtered |-> filtered, next |-> next, truncated |-> truncated]

RecordPageCountsAnyEnd(ctx, filter, hit, after, s) ==
    Page(s.ordinals,
         [i \in DOMAIN s.ordinals |-> OrdinalCursor(ctx, s.ordinals[i])],
         Len(hit),
         IF filter = "none" THEN Len(hit)
         ELSE IF ~s.truncated THEN Len(s.ordinals) ELSE Unknown,
         IF s.truncated THEN OrdinalCursor(ctx, s.last) ELSE NoCursor,
         s.truncated)

RecordPage(ctx, filter, hit, after, s) ==
    Page(s.ordinals,
         [i \in DOMAIN s.ordinals |-> OrdinalCursor(ctx, s.ordinals[i])],
         Len(hit),
         IF filter = "none" THEN Len(hit)
         ELSE IF after = 0 /\ ~s.truncated THEN Len(s.ordinals)
         ELSE Unknown,
         IF s.truncated THEN OrdinalCursor(ctx, s.last) ELSE NoCursor,
         s.truncated)

After(cursor) == IF cursor = NoCursor THEN 0 ELSE cursor.at

PageRecords(ctx, filter, hit, cursor, items, scan) ==
    RecordPage(ctx, filter, hit, After(cursor),
               Scan(hit, After(cursor), ItemLimit(items), ScanLimit(items, scan)))

(***************************************************************************)
(* Keys of a ledger are <<time, id>>, in descending order in `keys`.  The  *)
(* cursor names the last key scanned, which may be gone by now: the scan   *)
(* resumes at the first key below it.                                      *)
(***************************************************************************)
KeyBelow(k, l) == k[1] < l[1] \/ (k[1] = l[1] /\ k[2] < l[2])

KeysBeforeByTime(keys, cursor) ==
    IF cursor = NoCursor THEN 0
    ELSE Cardinality({i \in DOMAIN keys : keys[i][1] >= cursor.at[1]})

KeysBefore(keys, cursor) ==
    IF cursor = NoCursor THEN 0
    ELSE Cardinality({i \in DOMAIN keys : ~KeyBelow(keys[i], cursor.at)})

LedgerPage(kind, ctx, keys, s) ==
    Page([i \in DOMAIN s.ordinals |-> keys[s.ordinals[i]]],
         [i \in DOMAIN s.ordinals |-> TimeCursor(kind, ctx, keys[s.ordinals[i]])],
         Unknown, Unknown,
         IF s.truncated THEN TimeCursor(kind, ctx, keys[s.last]) ELSE NoCursor,
         s.truncated)

PageLedger(kind, ctx, keys, hit, cursor, items, scan) ==
    LedgerPage(kind, ctx, keys,
               Scan(hit, KeysBefore(keys, cursor), ItemLimit(items),
                    ScanLimit(items, scan)))

(***************************************************************************)
(* Evidence records: the cursor is the index of the next record.  A match  *)
(* in a test log also shows its neighbours of the same label.              *)
(***************************************************************************)
EvidencePage(view, id, filter, s) ==
    Page(s.ordinals,
         [i \in DOMAIN s.ordinals |-> LogCursor(view, id, filter, s.ordinals[i])],
         Unknown, Unknown,
         IF s.truncated THEN LogCursor(view, id, filter, s.last) ELSE NoCursor,
         s.truncated)

PageEvidence(view, id, filter, hit, cursor, items, scan) ==
    EvidencePage(view, id, filter,
                 Scan(hit, After(cursor), ItemLimit(items), ScanLimit(items, scan)))

\* matching is the set of the records that match by themselves.
MatchesContext(records, i, matching) ==
    \E j \in matching \cap (i - 1 .. i + 1) : records[j].label = records[i].label

(***************************************************************************)
(* Query rows.  The reader takes a line from a byte offset: up to and with *)
(* the next newline or up to the end of the file, keeping LineLimit bytes  *)
(* of it and dropping a carriage return the kept bytes end in.             *)
(***************************************************************************)
Newline == "n"
CarriageReturn == "r"

LineEnds(bytes, offset) ==
    LET newlines == {i \in offset + 1 .. Len(bytes) : bytes[i] = Newline}
    IN IF newlines = {} THEN Len(bytes) ELSE Min(newlines)

WithoutReturn(value) ==
    IF value # <<>> /\ Last(value) = CarriageReturn THEN Front(value) ELSE value

LineValue(bytes, offset, end) ==
    WithoutReturn(SubSeq(bytes, offset + 1,
                         IF end - (IF bytes[end] = Newline THEN 1 ELSE 0)
                              < offset + LineLimit
                         THEN end - (IF bytes[end] = Newline THEN 1 ELSE 0)
                         ELSE offset + LineLimit))

\* The rows next_line yields from `offset`, each with the offset it ends at.
\* A line starts where the one before it ends, so its starts are the offset
\* itself and every newline after it that is not the last byte.
LineStarts(bytes, offset) ==
    {i \in offset .. Len(bytes) - 1 : i = offset \/ bytes[i] = Newline}

RowsAt(bytes, starts) ==
    [i \in DOMAIN starts |->
        [end   |-> LineEnds(bytes, starts[i]),
         value |-> LineValue(bytes, starts[i], LineEnds(bytes, starts[i]))]]

RowsFrom(bytes, offset) == RowsAt(bytes, InOrder(LineStarts(bytes, offset)))

\* count_query_rows: the newlines, and a last line that has none.
CountQueryRows(bytes) ==
    Cardinality({i \in DOMAIN bytes : bytes[i] = Newline})
      + (IF bytes # <<>> /\ Last(bytes) # Newline THEN 1 ELSE 0)

(***************************************************************************)
(* One page of rows.  Unlike the scan above, a full page goes on counting: *)
(* without a filter up to the scan limit, or not at all when the total is  *)
(* known; with one over every row the scan limit allows.  The continuation *)
(* is the last row scanned while the page had room.                        *)
(***************************************************************************)
FileScan(rows, hit, items, scan, filter, known) ==
    LET room(i) == Cardinality(HitsIn(hit, 1, i - 1)) < items
        seen == {i \in DOMAIN rows :
                    i <= scan /\ (filter = "none" /\ known # Unknown => room(i))}
    IN [seen  |-> Cardinality(seen),
        shown |-> InOrder({i \in seen : hit[i] /\ room(i)}),
        last  |-> Cardinality({i \in seen : room(i)}),
        hits  |-> Cardinality({i \in seen : hit[i]}),
        exhausted |-> Len(rows) > scan /\ Cardinality(seen) = scan]

RowCursorOfPage(ctx, start, rows, hit, i) ==
    FileCursor(ctx, rows[i].end, start.ordinal + i, i,
               start.filtered + Cardinality(HitsIn(hit, 1, i)))

\* start: the offset, ordinal and counts the cursor carries.
RowCursor(ctx, start, rows, hit, i) ==
    FileCursor(ctx, rows[i].end, start.ordinal + i, start.total + i,
               start.filtered + Cardinality(HitsIn(hit, 1, i)))

FileTruncatedByItems(rows, s, start, known, filter) ==
    \/ s.hits > Len(s.shown)
    \/ /\ filter = "none" /\ known # Unknown
       /\ s.seen < Len(rows) /\ start.total + s.seen < known

FileTruncated(rows, s, start, known, filter) ==
    \/ s.exhausted
    \/ s.hits > Len(s.shown)
    \/ /\ filter = "none" /\ known # Unknown
       /\ s.seen < Len(rows) /\ start.total + s.seen < known

FileTotal(s, start, known) ==
    IF known # Unknown
    THEN IF known > start.total + s.seen THEN known ELSE start.total + s.seen
    ELSE IF s.exhausted THEN Unknown ELSE start.total + s.seen

FilePage(ctx, filter, rows, hit, start, known, s, truncated) ==
    Page([i \in DOMAIN s.shown |->
            [ordinal |-> start.ordinal + s.shown[i], value |-> rows[s.shown[i]].value]],
         [i \in DOMAIN s.shown |-> RowCursor(ctx, start, rows, hit, s.shown[i])],
         FileTotal(s, start, known),
         IF filter = "none" THEN FileTotal(s, start, known)
         ELSE IF s.exhausted THEN Unknown ELSE start.filtered + s.hits,
         IF truncated /\ s.last > 0 THEN RowCursor(ctx, start, rows, hit, s.last)
         ELSE NoCursor,
         truncated)

FilePageOf(ctx, filter, rows, hit, start, known, s) ==
    FilePage(ctx, filter, rows, hit, start, known, s,
             FileTruncated(rows, s, start, known, filter))

\* hit[i] is the filter applied to a row that is already redacted.
PageRows(ctx, filter, rows, hit, start, known, items, scan) ==
    FilePageOf(ctx, filter, rows, hit, start, known,
               FileScan(rows, hit, items, scan, filter, known))

RowStart(cursor) ==
    IF cursor = NoCursor
    THEN [at |-> 0, ordinal |-> 0, total |-> 0, filtered |-> 0]
    ELSE [at |-> cursor.at, ordinal |-> cursor.ordinal,
          total |-> cursor.total, filtered |-> cursor.filtered]
=============================================================================
