---------------------------- MODULE MCInspection ----------------------------
(* Small evidence sets for Inspection: a few records of each view.         *)
EXTENDS Inspection

CONSTANTS MaxRecords

Upto3(S) == UNION {[1 .. n -> S] : n \in 0 .. MaxRecords}

Bare == [state |-> "finished", query |-> FALSE, failed |-> TRUE, testLike |-> FALSE,
         stdout |-> <<>>, count |-> Unknown, console |-> [out |-> <<>>, err |-> <<>>],
         complete |-> FALSE,
         persisted |-> TRUE, diagnostics |-> <<>>, tests |-> <<>>, coverage |-> <<>>,
         artifacts |-> <<>>, testlog |-> <<>>, hasTestlog |-> FALSE,
         summary |-> [truncated |-> FALSE, spare |-> 0]]

Sized == [hit : BOOLEAN, size : {1, 3}]
TestItems == [hit : BOOLEAN, reason : BOOLEAN, cases : {0, 2}, size : {1}]
Reasons == [hit : BOOLEAN, reason : BOOLEAN, cases : {0}, size : {1, 3}]
TestLines == [label : {"l", "m"}, text : {"m", "f"}, size : {1}]

MCInvocations ==
    [v \in Views |->
        CASE v = "diagnostics" -> {[Bare EXCEPT !.diagnostics = d] : d \in Upto3(Sized)}
          [] v = "tests" -> {[Bare EXCEPT !.tests = t] : t \in Upto3(TestItems)}
          [] v = "artifacts" ->
               {[Bare EXCEPT !.artifacts = [i \in DOMAIN a |->
                    [hit |-> a[i].hit, size |-> a[i].size, unavailable |-> FALSE]]] :
                    a \in Upto3(Sized)}
          [] v = "coverage" ->
               {[Bare EXCEPT !.coverage = c, !.artifacts = a] :
                  c \in Upto3([hit : BOOLEAN, size : {1}]),
                  a \in UNION {[1 .. n -> [hit : BOOLEAN, size : {1},
                                           unavailable : BOOLEAN]] : n \in 0 .. 2}}
          [] v = "query_results" ->
               {[Bare EXCEPT !.state = "running", !.query = TRUE]}
          [] v = "log" ->
               {[Bare EXCEPT !.state = "running", !.query = q, !.testLike = t,
                              !.complete = c] :
                  q \in BOOLEAN, t \in BOOLEAN, c \in BOOLEAN}
          [] v = "test_log" ->
               {[Bare EXCEPT !.testlog = l, !.hasTestlog = TRUE] : l \in Upto3(TestLines)}
               \cup {[Bare EXCEPT !.tests = t] : t \in Upto3(Reasons)}
          [] v \in SingleViews ->
               {[Bare EXCEPT !.state = st, !.summary = [truncated |-> t, spare |-> n]] :
                  st \in {"running", "finished"}, t \in BOOLEAN, n \in {0, 2}}
          [] OTHER -> {[Bare EXCEPT !.state = "gone"]}]

MCKeys == {<<1, 1>>, <<1, 2>>, <<2, 1>>, <<3, 1>>}

MCLedgers ==
    [v \in Views |->
        IF v \in LedgerViews
        THEN [{<<1, 1>>, <<1, 2>>, <<2, 1>>} -> Entries] \cup {<<>>}
        ELSE {<<>>}]
=============================================================================
