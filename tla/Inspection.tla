----------------------------- MODULE Inspection -----------------------------
(***************************************************************************)
(* A client reads one view of the retained evidence page by page: it sends *)
(* bazel.inspect (or tasks/list), keeps the items, and sends the returned  *)
(* cursor back until there is none (handler.rs bazel_inspect,              *)
(* inspection.rs inspect, result.rs encode_inspect).  Meanwhile the        *)
(* invocation it reads may still write output, finish or be removed, and   *)
(* other invocations come and go in the ledger.                            *)
(*                                                                         *)
(* An item is abstracted to whether it matches the client's filter and to  *)
(* its size in an encoded response.  The rows of a query are bytes: "n" is *)
(* a newline, "r" a carriage return, "m" matches the filter "m", and "s"   *)
(* is a secret, which the redactor shows as "x".                           *)
(***************************************************************************)
EXTENDS Paging

CONSTANTS
    MinScan, ScanFactor,      \* handler.rs: limit * 20, at least 1,000
    MinBudget, MaxBudget,     \* handler.rs: 512 and 8,192 bytes
    InnerItems,               \* inspection.rs: tests read 100 at a time
    ActionableMax, FallbackMax, EvidenceMax,   \* 1,000, 2,000 and 3,000 records
    CompleteTail, FallbackTail, LiveTail,      \* lines for 2, 8 and 1 MiB of console
    Filters, Limits, Budgets, \* the parameters clients send
    Invocations,              \* the sets of evidence to start from
    Ledgers, Keys,            \* the ledgers to start from, and their keys
    MaxBytes, MaxLines        \* bounds on the output a running Bazel writes

ASSUME InspectionAssumption ==
    /\ {MinScan, ScanFactor, MinBudget, MaxBudget, InnerItems} \subseteq Nat \ {0}
    /\ MinScan <= MaxScan /\ MinBudget <= MaxBudget
    /\ {ActionableMax, FallbackMax, EvidenceMax} \subseteq Nat \ {0}
    /\ {CompleteTail, FallbackTail, LiveTail} \subseteq Nat \ {0}

RecordViews == {"diagnostics", "tests", "artifacts", "coverage"}
LogViews == {"log", "test_log"}
LedgerViews == {"invocations", "tasks"}
SingleViews == {"summary", "metrics"}
Views == RecordViews \cup LogViews \cup LedgerViews \cup SingleViews \cup {"query_results"}

\* What is retained of an invocation, and an entry of the ledger.
Bytes == {"m", "s", "n", "r"}
Lines == {"e", "t", "m", "f", ""}
Sizes == [hit : BOOLEAN, size : Nat]

Evidence ==
    [state : {"running", "finished", "gone"}, query : BOOLEAN, failed : BOOLEAN,
     testLike : BOOLEAN, persisted : BOOLEAN, stdout : Seq(Bytes), count : Int,
     console : [out : Seq(Lines), err : Seq(Lines)], complete : BOOLEAN,
     diagnostics : Seq(Sizes), coverage : Seq(Sizes),
     tests : Seq([hit : BOOLEAN, reason : BOOLEAN, cases : Nat, size : Nat]),
     artifacts : Seq([hit : BOOLEAN, size : Nat, unavailable : BOOLEAN]),
     hasTestlog : BOOLEAN, testlog : Seq([label : STRING, text : STRING, size : Nat]),
     summary : [truncated : BOOLEAN, spare : Nat]]

Entries == [ws : {"w1", "w2"}, hit : BOOLEAN]

IsLedger(l) ==
    DOMAIN l \subseteq Keys /\ IsFiniteSet(DOMAIN l) /\ l \in [DOMAIN l -> Entries]

ASSUME EvidenceAssumption ==
    /\ Limits \subseteq Nat /\ Budgets \subseteq Nat
    /\ Keys \subseteq Nat \X Nat
    /\ \A view \in Views : Invocations[view] \subseteq Evidence
    /\ \A view \in Views : \A i \in Invocations[view] :
          i.state = "finished" => i.count \in {Unknown, CountQueryRows(i.stdout)}
    /\ \A view \in Views : \A l \in Ledgers[view] : IsLedger(l)

VARIABLES
    inv,        \* the invocation under inspection: its state and evidence
    ledger,     \* the index: a function from keys to entries
    client      \* the client's request, its cursor and the items it holds

vars == <<inv, ledger, client>>

(***************************************************************************)
(* Filters.  "none" is absent, "empty" the empty string.                   *)
(***************************************************************************)
Matches(filter, hit) == filter \in {"none", "empty"} \/ (filter = "m" /\ hit)

Redact(value) == [i \in DOMAIN value |-> IF value[i] = "s" THEN "x" ELSE value[i]]

RowMatches(filter, value) ==
    filter \in {"none", "empty"} \/ \E i \in DOMAIN value : value[i] = filter

(***************************************************************************)
(* failure_evidence_records.  A console line is "e" (actionable), "t" (the *)
(* end of a line, as in "test x ... FAILED", makes it so), "m" or "f"      *)
(* (neither), or "" (blank).  Repeated lines become one record, whose text *)
(* ends with " [repeated N times]" when it is classified: a repeated "t"   *)
(* is no longer actionable.  Actionable records come first, then the last  *)
(* of the others.                                                          *)
(***************************************************************************)
StreamOrder(testLike, failed, out, err) ==
    IF (failed /\ testLike) \/ (~failed /\ out # <<>>) THEN out \o err ELSE err \o out

FirstOf(lines) ==
    {i \in DOMAIN lines : lines[i] # "" /\ \A j \in 1 .. i - 1 : lines[j] # lines[i]}

RecordAt(lines, i) ==
    [label |-> "none", text |-> lines[i],
     count |-> Cardinality({j \in DOMAIN lines : lines[j] = lines[i]})]

EvidenceOf(lines, ordinals) == [i \in DOMAIN ordinals |-> RecordAt(lines, ordinals[i])]

IsActionable(record) == record.text = "e" \/ (record.text = "t" /\ record.count = 1)

Upto(seq, n) == SubSeq(seq, 1, IF Len(seq) < n THEN Len(seq) ELSE n)

LastOf(seq, n) == SubSeq(seq, IF Len(seq) > n THEN Len(seq) - n + 1 ELSE 1, Len(seq))

SortedEvidenceAsPrinted(records) == Upto(records, EvidenceMax)

SortedEvidence(records) ==
    LET actionable == {i \in DOMAIN records : IsActionable(records[i])}
    IN Upto(Upto(Chosen(records, actionable), ActionableMax)
              \o LastOf(Chosen(records, DOMAIN records \ actionable), FallbackMax),
            EvidenceMax)

FailureEvidence(testLike, failed, console) ==
    LET lines == StreamOrder(testLike, failed, console.out, console.err)
    IN SortedEvidence(EvidenceOf(lines, InOrder(FirstOf(lines))))

ShouldPersist(query, failed) == failed \/ ~query

LogMatches(filter, record) ==
    filter \in {"none", "empty"} \/ record.text = filter \/ record.label = filter

(***************************************************************************)
(* What each view reads.  Until an invocation finishes its details and its *)
(* evidence file are not written: the record views are empty, and the log  *)
(* is made from the output so far.                                         *)
(***************************************************************************)
Details(view) ==
    CASE view = "diagnostics" -> inv.diagnostics
      [] view = "tests"       -> inv.tests
      [] view = "coverage"    -> inv.coverage
      [] view = "artifacts"   -> inv.artifacts

Records(view) == IF inv.state = "finished" THEN Details(view) ELSE <<>>

Retained == inv.state = "finished" /\ inv.persisted

\* read_bounded_tail: of each stream only its end is read, more of it when the
\* event stream was not complete.  A limit is a number of lines here; in the
\* code it may cut through one, and the rest of that line is read as a line.
ConsoleTail ==
    IF ~Retained THEN LiveTail ELSE IF inv.complete THEN CompleteTail ELSE FallbackTail

ConsoleRead ==
    [out |-> LastOf(inv.console.out, ConsoleTail),
     err |-> LastOf(inv.console.err, ConsoleTail)]

LogRecords ==
    IF Retained
    THEN FailureEvidence(inv.testLike, inv.failed, ConsoleRead)
    ELSE FailureEvidence(FALSE, TRUE, ConsoleRead)

\* read_test_log_unavailable_page: it follows the pages of the tests view and
\* keeps the reasons.
ReadTests[after \in 0 .. Len(Records("tests"))] ==
    LET page == PageRecords(Context("tests", "a", "none"), "none",
                            [i \in DOMAIN Records("tests") |-> TRUE],
                            IF after = 0 THEN NoCursor
                            ELSE OrdinalCursor(Context("tests", "a", "none"), after),
                            InnerItems, MaxScan)
    IN IF page.truncated THEN page.items \o ReadTests[page.next.at] ELSE page.items

UnavailableReasons ==
    LET tests == [i \in DOMAIN ReadTests[0] |-> Records("tests")[ReadTests[0][i]]]
    IN Chosen(tests, {i \in DOMAIN tests : tests[i].reason})

TestLogRecords == inv.testlog

RowsOf(offset) ==
    LET rows == RowsFrom(inv.stdout, offset)
    IN [i \in DOMAIN rows |-> [rows[i] EXCEPT !.value = Redact(@)]]

KnownTotal(filter) ==
    IF filter = "none" /\ inv.state = "finished" THEN inv.count ELSE Unknown

(***************************************************************************)
(* The ledger: newest first, of one workspace or of all of them.           *)
(***************************************************************************)
Ordered(keys) ==
    [n \in 1 .. Cardinality(keys) |->
        CHOOSE k \in keys : Cardinality({l \in keys : KeyBelow(k, l)}) = n - 1]

InWorkspace(ws) == {k \in DOMAIN ledger : ws = "none" \/ ledger[k].ws = ws}

\* An entry's hit is whether it has the state and command asked for, or, of a
\* deferred result, whether it has not expired; its ws is then the retrieval.
LedgerKeys(req) ==
    Ordered(IF req.view = "tasks" THEN DOMAIN ledger ELSE InWorkspace(req.ws))

LedgerHit(req, key) ==
    IF req.view = "tasks" THEN ledger[key].ws = "w1" /\ ledger[key].hit
    ELSE Matches(req.filter, ledger[key].hit)

LedgerContext(req) ==
    IF req.view = "tasks" THEN <<"deferred", "w1">>
    ELSE <<"invocations", req.ws, StoreFilter(req.filter)>>

ListKeys(req, keys, cursor, items, scan) ==
    PageLedger(req.view, LedgerContext(req), keys,
               [i \in DOMAIN keys |-> LedgerHit(req, keys[i])], cursor, items, scan)

ListInvocations(req, cursor, items, scan) ==
    ListKeys(req, LedgerKeys(req), cursor, items, scan)

(***************************************************************************)
(* inspect: the page of each view, or an error.                            *)
(***************************************************************************)
Refused == [error |-> TRUE]

Answer(page) == [error |-> FALSE, page |-> page]

RecordHits(scope, req) ==
    [i \in DOMAIN Records(scope) |-> Matches(req.filter, Records(scope)[i].hit)]

PageOfRecords(scope, req, cursor, items, scan) ==
    PageRecords(Context(scope, req.id, req.filter), req.filter, RecordHits(scope, req),
                cursor, items, scan)

\* The coverage view without a coverage file on its page: the coverage
\* artifacts that are not available, read from their beginning, or a notice.
\* An item of the view is the ordinal of a coverage file, the negated ordinal of
\* an artifact, or 0 for the notice.
UnavailableCoverage(page) ==
    LET shown == {i \in DOMAIN page.items : inv.artifacts[page.items[i]].unavailable}
    IN IF shown = {}
       THEN Page(<<0>>, <<>>, 1, 1, page.next, page.truncated)
       ELSE Page(Chosen([i \in DOMAIN page.items |-> -page.items[i]], shown),
                 Chosen(page.item_cursors, shown),
                 Cardinality(shown), Cardinality(shown), page.next, page.truncated)

CoveragePage(page, artifacts) ==
    IF page.items = <<>> THEN UnavailableCoverage(artifacts) ELSE page

ReadRecords(req, cursor, items, scan) ==
    IF ~DecodesFor(cursor, "ordinal", Context(req.view, req.id, req.filter)) THEN Refused
    ELSE IF req.view = "coverage"
    THEN Answer(CoveragePage(PageOfRecords("coverage", req, cursor, items, scan),
                             PageOfRecords("artifacts", req, NoCursor, items, scan)))
    ELSE Answer(PageOfRecords(req.view, req, cursor, items, scan))

RowHits(req, rows) == [i \in DOMAIN rows |-> RowMatches(req.filter, rows[i].value)]

ReadRows(req, cursor, items, scan) ==
    IF ~DecodesFor(cursor, "file", Context("query_rows", req.id, req.filter)) THEN Refused
    ELSE Answer(PageRows(Context("query_rows", req.id, req.filter), req.filter,
                         RowsOf(RowStart(cursor).at),
                         RowHits(req, RowsOf(RowStart(cursor).at)),
                         RowStart(cursor), KnownTotal(req.filter),
                         ItemLimit(items), ScanLimit(items, scan)))

EvidenceHits(req, records) ==
    [i \in DOMAIN records |->
        IF req.view = "test_log" /\ inv.hasTestlog
        THEN MatchesContext(records, i,
                            {j \in DOMAIN records : LogMatches(req.filter, records[j])})
        ELSE IF req.view = "test_log" THEN Matches(req.filter, records[i].hit)
        ELSE LogMatches(req.filter, records[i])]

LogSource(view) ==
    IF view = "log" THEN LogRecords
    ELSE IF inv.hasTestlog THEN TestLogRecords ELSE UnavailableReasons

ReadLog(req, cursor, items, scan) ==
    IF ~DecodesFor(cursor, "log", <<req.view, req.id, req.filter>>) THEN Refused
    ELSE Answer(PageEvidence(req.view, req.id, req.filter,
                             EvidenceHits(req, LogSource(req.view)), cursor, items, scan))

ReadLedger(req, cursor, items, scan) ==
    IF ~DecodesFor(cursor, req.view, LedgerContext(req)) THEN Refused
    ELSE Answer(ListInvocations(req, cursor, items, scan))

\* summary and metrics are one item, whatever the cursor.
ReadSingle(req) ==
    Answer(Page(IF req.view = "summary" /\ inv.state # "finished" THEN <<>> ELSE <<1>>,
                <<>>, Unknown, Unknown, NoCursor,
                req.view = "summary" /\ inv.state = "finished" /\ inv.summary.truncated))

Inspect(req, cursor, items, scan) ==
    IF req.view \in LedgerViews THEN ReadLedger(req, cursor, items, scan)
    ELSE IF inv.state = "gone" THEN Refused
    ELSE CASE req.view \in SingleViews   -> ReadSingle(req)
           [] req.view \in RecordViews   -> ReadRecords(req, cursor, items, scan)
           [] req.view = "query_results" -> ReadRows(req, cursor, items, scan)
           [] req.view \in LogViews      -> ReadLog(req, cursor, items, scan)

(***************************************************************************)
(* encode_inspect: while the encoding is larger than the budget, drop what *)
(* the view can spare and then the last item.  truncate_items moves the    *)
(* continuation back to the last item kept, or to where the page started.  *)
(***************************************************************************)
SizeOf(req, item) ==
    CASE req.view = "query_results" -> 1 + Len(item.value)
      [] req.view = "log"           -> IF LogRecords[item].count > 1 THEN 2 ELSE 1
      [] req.view = "test_log"      -> LogSource("test_log")[item].size
      [] req.view = "tests"         -> 1
      [] req.view = "coverage"      -> IF item > 0 THEN inv.coverage[item].size ELSE 1
      [] req.view \in RecordViews \ {"tests", "coverage"} -> Records(req.view)[item].size
      [] OTHER                      -> 1

\* A log cursor carries the text of the filter: with a "long" one the response
\* is larger than the smallest budget without any item.
CursorSize(req) ==
    IF req.view \in LogViews /\ req.filter = "long" THEN MinBudget + 1 ELSE 0

Envelope(req, page) == IF page.next = NoCursor THEN 0 ELSE CursorSize(req)

\* The units of all items, counted.
SizeOfItems(req, items) ==
    Cardinality(UNION {{i} \X (1 .. SizeOf(req, items[i])) : i \in DOMAIN items})

ItemCursor(page, n) ==
    IF n \in DOMAIN page.item_cursors THEN page.item_cursors[n] ELSE NoCursor

TruncateItemsOnly(page, n, start) ==
    IF n >= Len(page.items) THEN page
    ELSE [page EXCEPT !.items = SubSeq(page.items, 1, n),
                      !.item_cursors = Upto(page.item_cursors, n),
                      !.truncated = TRUE]

TruncateItemsToStart(page, n, start) ==
    IF n >= Len(page.items) THEN page
    ELSE [page EXCEPT !.items = SubSeq(page.items, 1, n),
                      !.item_cursors = Upto(page.item_cursors, n),
                      !.truncated = TRUE,
                      !.next = start]

TruncateItems(page, n, start) ==
    IF n >= Len(page.items) THEN page
    ELSE [page EXCEPT !.items = SubSeq(page.items, 1, n),
                      !.item_cursors = Upto(page.item_cursors, n),
                      !.truncated = TRUE,
                      !.next = IF n = 0 THEN start ELSE ItemCursor(page, n)]

Kept(req, page, budget, start) ==
    {n \in 0 .. Len(page.items) :
        Envelope(req, TruncateItems(page, n, start))
          + SizeOfItems(req, SubSeq(page.items, 1, n)) <= budget}

\* What shrink_inspect takes first: test cases from the last test backwards,
\* or a summary's samples, diagnostics and headline.  Headlines are short
\* here; what becomes of one longer than 64 bytes is RunResult's subject.
Spare(req, page) ==
    CASE req.view = "tests" ->
           FoldSeq(LAMBDA t, sum : sum + Records("tests")[t].cases, 0, page.items)
      [] req.view = "summary" /\ page.items # <<>> -> inv.summary.spare
      [] OTHER -> 0

Pack(req, page, budget, start) ==
    IF SizeOfItems(req, page.items) + Spare(req, page) + Envelope(req, page) <= budget
    THEN Answer(page)
    ELSE IF Kept(req, page, budget, start) = {} THEN Refused
    ELSE Answer([TruncateItems(page, Max(Kept(req, page, budget, start)), start)
                    EXCEPT !.truncated = TRUE])

(***************************************************************************)
(* bazel_inspect: the parameters are validated, the limits clamped, the    *)
(* page read and packed into the budget.  tasks/list packs nothing.        *)
(***************************************************************************)
ValidParams(req) ==
    IF req.view \in LedgerViews THEN req.id = "none"
    ELSE req.id # "none" /\ req.ws = "none"

HandlerScan(items) == Clamp(items * ScanFactor, MinScan, MaxScan)

Budget(requested) == Clamp(requested, MinBudget, MaxBudget)

Packed(req, answer, budget, start) ==
    IF answer.error THEN Refused ELSE Pack(req, answer.page, budget, start)

BazelInspect(req, cursor, limit, requested) ==
    IF ~ValidParams(req) THEN Refused
    ELSE IF req.view = "tasks" THEN Inspect(req, cursor, MaxItems, MinScan)
    ELSE Packed(req, Inspect(req, cursor, Clamp(limit, 1, MaxItems),
                             HandlerScan(Clamp(limit, 1, MaxItems))),
                Budget(requested), cursor)

(***************************************************************************)
(* The client.                                                             *)
(***************************************************************************)
Request(view, id, filter, ws) == [view |-> view, id |-> id, filter |-> filter, ws |-> ws]

\* Only query rows hold secrets and only log cursors hold the filter's text; the
\* ledger's filters are a state and a command.
FiltersOf(view) ==
    CASE view = "query_results" -> Filters \ {"long"}
      [] view \in LogViews -> Filters \ {"s"}
      [] view = "invocations" -> Filters \ {"long", "s", "empty"}
      [] view \in {"tasks"} \cup SingleViews -> {"none"}
      [] OTHER -> Filters \ {"long", "s"}

Requests ==
    (UNION {{Request(v, IF v \in LedgerViews THEN "none" ELSE "a", f, "none") :
                f \in FiltersOf(v)} : v \in Views})
    \cup {Request("invocations", "none", f, "w1") : f \in FiltersOf("invocations")}
    \cup {Request("invocations", "a", "none", "none"), Request("metrics", "a", "none", "w1"),
           Request("metrics", "none", "none", "none")}

\* The same requests for a second invocation, whose evidence is that of the first:
\* only a cursor tells the two apart.
OfAnother == {[req EXCEPT !.id = "b"] : req \in {q \in Requests : q.id = "a"}}

NoPage == [total |-> Unknown, filtered |-> Unknown, truncated |-> FALSE]

\* steady: the keys that have been in the ledger, unchanged, since the walk
\* began.  changed: whether the log the walk reads has.  page: what the last
\* response said of itself.
Init ==
    /\ client \in [req : Requests, cursor : {NoCursor}, items : {<<>>}, page : {NoPage},
                   status : {"walking"}, steady : {{}}, changed : {FALSE}]
    /\ inv \in Invocations[client.req.view]
    /\ ledger \in Ledgers[client.req.view]

\* The first request of a walk fixes what has been there since its beginning.
Steady == IF client.cursor = NoCursor THEN DOMAIN ledger ELSE client.steady

Receive(answer) ==
    client' = IF answer.error
              THEN [client EXCEPT !.status = "refused"]
              ELSE [client EXCEPT
                      !.items = @ \o answer.page.items,
                      !.cursor = answer.page.next,
                      !.page = [total |-> answer.page.total,
                                filtered |-> answer.page.filtered,
                                truncated |-> answer.page.truncated],
                      !.steady = Steady,
                      !.changed = (client.cursor # NoCursor /\ @),
                      !.status = IF answer.page.next = NoCursor THEN "done" ELSE @]

Ask(limit, budget) ==
    /\ client.status = "walking"
    /\ Receive(BazelInspect(client.req, client.cursor, limit, budget))
    /\ UNCHANGED <<inv, ledger>>

\* A client that sends the cursor of one walk with the parameters of another.
Confuse(req) ==
    /\ client.status = "walking" /\ client.cursor # NoCursor
    /\ req.view \notin SingleViews    \* they take no cursor
    /\ req # client.req
    /\ ValidParams(req)
    /\ client' = [client EXCEPT !.status =
                    IF BazelInspect(req, client.cursor, 1, MaxBudget).error
                    THEN "refused"
                    ELSE IF req.view = client.req.view /\ req.id = client.req.id
                            /\ req.ws = client.req.ws
                            /\ StoreFilter(req.filter) = StoreFilter(client.req.filter)
                    THEN "walking" ELSE "confused"]
    /\ UNCHANGED <<inv, ledger>>

(***************************************************************************)
(* The evidence changes under the client while it walks.                   *)
(***************************************************************************)
Walking(view) == client.status = "walking" /\ client.req.view = view

\* Bazel writes one more byte of a query's result.
WriteByte(byte) ==
    /\ Walking("query_results")
    /\ inv.state = "running" /\ Len(inv.stdout) < MaxBytes
    /\ inv' = [inv EXCEPT !.stdout = Append(@, byte)]
    /\ UNCHANGED <<ledger, client>>

WriteLine(stream, line) ==
    /\ Walking("log")
    /\ inv.state = "running"
    /\ Len(inv.console.out) + Len(inv.console.err) < MaxLines
    /\ inv' = [inv EXCEPT !.console[stream] = Append(@, line)]
    /\ client' = [client EXCEPT !.changed = TRUE]
    /\ UNCHANGED ledger

\* finish_invocation, with the evidence and the counts it retains.
Finish(failed) ==
    /\ client.status = "walking" /\ inv.state = "running"
    /\ inv' = [inv EXCEPT !.state = "finished",
                          !.failed = failed,
                          !.persisted = ShouldPersist(inv.query, failed),
                          !.count = IF failed \/ ~inv.query THEN Unknown
                                    ELSE CountQueryRows(inv.stdout)]
    /\ client' = [client EXCEPT !.changed = TRUE]
    /\ UNCHANGED ledger

\* Retention removes the invocation.
Expire ==
    /\ client.status = "walking" /\ inv.state = "finished"
    /\ inv' = [inv EXCEPT !.state = "gone"]
    /\ UNCHANGED <<ledger, client>>

InLedger == client.status = "walking" /\ client.cursor # NoCursor
              /\ client.req.view \in LedgerViews

Enter(key, entry) ==
    /\ InLedger /\ key \notin DOMAIN ledger
    /\ ledger' = [k \in DOMAIN ledger \cup {key} |-> IF k = key THEN entry ELSE ledger[k]]
    /\ UNCHANGED <<inv, client>>

Leave(key) ==
    /\ InLedger /\ key \in DOMAIN ledger
    /\ ledger' = [k \in DOMAIN ledger \ {key} |-> ledger[k]]
    /\ client' = [client EXCEPT !.steady = @ \ {key}]
    /\ UNCHANGED inv

\* An invocation changes state, or a deferred result expires: its entry
\* matches now if it did not, or the other way round.
Turn(key) ==
    /\ InLedger /\ key \in DOMAIN ledger
    /\ ledger' = [ledger EXCEPT ![key].hit = ~@]
    /\ client' = [client EXCEPT !.steady = @ \ {key}]
    /\ UNCHANGED inv

\* The walk is over.
Stop == client.status # "walking" /\ UNCHANGED vars

Next ==
    \/ \E limit \in Limits, budget \in Budgets : Ask(limit, budget)
    \/ \E req \in Requests \cup OfAnother : Confuse(req)
    \/ \E byte \in Bytes : WriteByte(byte)
    \/ \E stream \in {"out", "err"}, line \in Lines : WriteLine(stream, line)
    \/ \E failed \in BOOLEAN : Finish(failed)
    \/ Expire
    \/ \E key \in Keys, entry \in Entries : Enter(key, entry)
    \/ \E key \in Keys : Leave(key) \/ Turn(key)
    \/ Stop

Spec == Init /\ [][Next]_vars

-----------------------------------------------------------------------------
(***************************************************************************)
(* Properties.                                                             *)
(***************************************************************************)
\* The shape of the client's walk; a file cursor has counted the rows it has
\* numbered.
TypeOK ==
    /\ inv \in Evidence
    /\ IsLedger(ledger)
    /\ client.req \in Requests
    /\ client.status \in {"walking", "done", "refused", "confused"}
    /\ client.steady \subseteq Keys
    /\ client.cursor.kind = "file" =>
          client.cursor.total = client.cursor.ordinal
          /\ client.cursor.filtered <= client.cursor.total

\* The items of a view, in the order of the evidence: whether each matches, and
\* how a page shows the n-th.
ViewHits(req) ==
    IF req.view = "query_results" THEN RowHits(req, RowsOf(0))
    ELSE IF req.view \in LogViews THEN EvidenceHits(req, LogSource(req.view))
    ELSE RecordHits(req.view, req)

Shown(req, n) ==
    IF req.view = "query_results" THEN [ordinal |-> n, value |-> RowsOf(0)[n].value] ELSE n

\* The matching items among the first n.
ItemsUpto(req, n) ==
    LET hits == InOrder(HitsIn(ViewHits(req), 1, n))
    IN [i \in DOMAIN hits |-> Shown(req, hits[i])]

AllItems(req) == ItemsUpto(req, Len(ViewHits(req)))

\* The coverage view answers from another view's pages when its own is empty,
\* and a log that is being written is another sequence on every request.
Reliable == client.req.view # "coverage" /\ (client.req.view \in LogViews => ~client.changed)

\* The ordinal a cursor stands at; a file cursor also has the offset of its row's end.
Ordinal(cursor) == IF cursor.kind = "file" THEN cursor.ordinal ELSE cursor.at

EvidenceViews == Views \ (LedgerViews \cup SingleViews)

\* Between two pages the client holds every matching item up to its cursor,
\* once and in order, whatever limits and budgets the pages had and however
\* many items packing took off them, while the output of a running query grows
\* (query_paging.rs page_records and page_query_file_from_cursor,
\* inspection.rs page_evidence_records, types/inspection.rs truncate_items).
NoGapNoRepeat ==
    /\ client.status = "walking" /\ client.cursor # NoCursor
    /\ client.req.view \in EvidenceViews /\ inv.state # "gone" /\ Reliable
    => /\ client.items = ItemsUpto(client.req, Ordinal(client.cursor))
       /\ client.cursor.kind = "file" =>
             client.cursor.at = RowsOf(0)[Ordinal(client.cursor)].end

Listed(req, key) == Contains(LedgerKeys(req), key)

\* The walk has gone past the key.
Passed(key) ==
    CASE client.status = "walking" ->
           client.cursor # NoCursor /\ ~KeyBelow(key, client.cursor.at)
      [] client.status = "done" -> ~client.page.truncated
      [] OTHER -> FALSE

\* A ledger that changes between pages is still read in strictly descending
\* order, and misses no entry that was there, and matched or not, all along
\* (list_invocations, list_deferred_results).
LedgerReadsEveryEntry ==
    client.req.view \in LedgerViews =>
        /\ \A i \in 1 .. Len(client.items) - 1 :
              KeyBelow(client.items[i + 1], client.items[i])
        /\ \A key \in client.steady :
              LedgerHit(client.req, key) /\ Listed(client.req, key) /\ Passed(key)
                => Contains(client.items, key)

\* Reading page by page, of evidence that grows or of a ledger whose entries come and
\* go, shows everything that was there, once and in order.
NothingIsSkipped == NoGapNoRepeat /\ LedgerReadsEveryEntry

\* A walk that ends with a page that is not truncated has read every matching
\* item there is (Page.truncated, InspectResult.truncated).
UntruncatedIsWhole ==
    [][ /\ client.status = "walking" /\ client'.status = "done"
        /\ client.req.view \in EvidenceViews /\ Reliable
        /\ ~client'.page.truncated
        => client'.items = AllItems(client.req) ]_vars

\* The counts a page reports are the counts of the evidence at that moment, on
\* whichever page of a walk they are given (Page.total_count, filtered_count).
CountsAreTrue ==
    [][ /\ client'.page # client.page /\ Reliable
        /\ client.req.view \in RecordViews \cup {"query_results"}
        => /\ client'.page.total \in
                 {Unknown, IF client.req.view = "query_results"
                           THEN Len(RowsOf(0)) ELSE Len(Records(client.req.view))}
           /\ client'.page.filtered \in {Unknown, Len(AllItems(client.req))} ]_vars

\* What a page says of itself is true: that it is the last, and its counts.
PagesAreTrue == UntruncatedIsWhole /\ CountsAreTrue

\* A page that returns a cursor moves it forward, unless a response with the next
\* item alone is larger than the budget the client gave (result.rs encode_inspect).
NextFits(answer, budget) ==
    /\ ~answer.error /\ answer.page.items # <<>>
    /\ SizeOf(client.req, answer.page.items[1]) + CursorSize(client.req) <= budget

Stays(answer) == ~answer.error /\ answer.page.next = client.cursor

PageAdvances ==
    client.status = "walking" /\ client.cursor # NoCursor /\ client.req.view # "coverage" =>
        \A limit \in Limits, budget \in Budgets :
            Stays(BazelInspect(client.req, client.cursor, limit, budget))
            => ~NextFits(BazelInspect(client.req, client.cursor, limit, MaxBudget),
                         Budget(budget))

\* A cursor sent with the invocation, view, filter or workspace of another walk
\* never yields a page of it (cursor.rs decode_for, LogCursor::decode_for).  The
\* coverage view is the exception: a page without a coverage file hands out a
\* cursor of the artifacts view, which that view then accepts (inspection.rs,
\* the Coverage arm of inspect).
CursorStaysInItsWalk == client.status = "confused" => client.req.view = "coverage"

\* The console lines that are read hold one that is actionable whatever else they
\* hold, or one that is so by its end and is printed once.
FailureIsRead ==
    \E stream \in {"out", "err"} : \E i \in DOMAIN ConsoleRead[stream] :
        \/ ConsoleRead[stream][i] = "e"
        \/ /\ ConsoleRead[stream][i] = "t"
           /\ \A other \in {"out", "err"} : \A j \in DOMAIN ConsoleRead[other] :
                 ConsoleRead[other][j] = "t" => other = stream /\ j = i

\* When the end of the console that is read has a line that reports a failure, an
\* unfiltered log walk over settled evidence starts with such a line, however late
\* and in whichever stream Bazel printed it (failure_evidence_records).
FailureComesFirst ==
    /\ client.req.view = "log" /\ client.req.filter = "none" /\ ~client.changed
    /\ inv.state # "gone" /\ client.items # <<>>
    /\ FailureIsRead
    => IsActionable(LogRecords[client.items[1]])

\* A cursor leads forward, in its own walk only, and a walk through a failed
\* invocation's log begins with the failure.
WalkIsSound ==
    /\ TypeOK
    /\ CursorStaysInItsWalk
    /\ PageAdvances
    /\ FailureComesFirst

\* The coverage view, read to its end, has shown every matching coverage file
\* (crates/bazel-mcp-types/src/pagination.rs:43).
CoverageIsWhole ==
    [][ /\ client.status = "walking" /\ client'.status = "done"
        /\ client.req.view = "coverage" /\ ~client'.page.truncated
        /\ AllItems(client.req) # <<>>
        => client'.items = AllItems(client.req) ]_vars
=============================================================================
