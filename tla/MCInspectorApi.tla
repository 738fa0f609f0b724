--------------------------- MODULE MCInspectorApi ---------------------------
(* InspectorApi for TLC.  Text scenarios put every pair and the more        *)
(* delicate triples of SQL segments through redaction, with limits that cut *)
(* them and limits that do not; traffic scenarios put every request of a    *)
(* client between four requests of the application.  What a segment is, and *)
(* what may be shown of it, is the dialect's to say, not the scanner's.     *)
EXTENDS InspectorApi

Plain(text) == [text |-> text, safe |-> text]
Value(text) == [text |-> text, safe |-> <<"?">>]
Comment(text, safe) == [text |-> text, safe |-> safe]

BlockSafe == <<"/", "*", REDACTED, "*", "/">>
LineSafe == <<"-", "-", REDACTED>>

\* Longer than the default limit.
Spaces == [i \in 1..9 |-> " "]

\* MySQL wants a blank behind the dashes of a comment.
Dashes(dialect) == <<"-", "-">> \o (IF dialect = "mysql" THEN <<" ">> ELSE <<>>)
Line(dialect) == Comment(Dashes(dialect) \o <<"'", "a", "\n">>, Append(LineSafe, "\n"))
Block == Comment(<<"/", "*", "'", "*", "/">>, BlockSafe)

\* Dollar quotes are PostgreSQL's, and there a backslash is a character like any
\* other: a quote behind it closes the value.  The scanner takes it for an escape
\* in every dialect, so the values of PostgreSQL have an even number of backslashes
\* before a quote here, and BackslashScenarios are about the others.
Own(dialect) ==
    IF dialect = "mysql"
    THEN {Comment(<<"#", "'", "\n">>, <<"#", REDACTED, "\n">>),
          Value(<<"'", "\\", "'", "a", "'">>), Value(<<"'", "a", "\\", "\\", "'">>)}
    ELSE {Plain(<<"#">>), Comment(<<"$", "1">>, <<"$", "?">>),
          Value(<<"$", "$", "'", "$", "$">>),
          Value(<<"$", "a", "$", "$", "$", "1", "$", "a", "$">>),
          Value(<<"'", "\\", "a", "'">>), Value(<<"'", "a", "\\", "\\", "'">>)}

\* What a statement may contain, wherever it is.
Inner(dialect) ==
    Own(dialect) \cup
    {Plain(<<"a">>), Plain(<<"a", "1">>), Plain(<<"a", " ", "1", "1", "a">>),
     Plain(<<" ">>), Plain(<<"\n">>), Plain(Spaces),
     Plain(<<"-">>), Plain(<<"/">>), Plain(<<"*">>), Plain(<<"\\">>),
     Value(<<"1">>), Value(<<"1", "1">>),
     Value(<<"'", "a", "'">>), Value(<<"'", "a", "'", "'", "a", "'">>),
     Value(<<"'", "-", "-", "'">>), Value(<<"dq", "'", "dq">>),
     Block, Comment(<<"/", "*", "/", "a", "*", "/">>, BlockSafe), Line(dialect)}

\* What is not closed takes the rest of the statement.
Open(dialect) ==
    {Value(<<"'", "a">>), Value(<<"'", "\\">>),
     Comment(<<"/", "*", "a">>, BlockSafe), Comment(Append(Dashes(dialect), "1"), LineSafe)}
    \cup {v \in {Value(<<"$", "$", "1">>)} : dialect = "postgresql"}

\* Neighbours that would read as something else.
Glued(x, y) ==
    LET last == Last(x.text)
        first == Head(y.text)
    IN  \/ last \in WordChars /\ first \in WordChars
        \/ last = "-" /\ first = "-"
        \/ x.text = <<"/">> /\ first = "*"
        \/ last \in Quotes /\ first = last

Delicate(dialect) ==
    {Plain(<<"a">>), Plain(<<"/">>), Plain(<<"*">>), Plain(<<" ">>),
     Value(<<"1">>), Value(<<"'", "a", "'">>), Block, Line(dialect)}
    \cup {v \in Own(dialect) : v.text[1] \in {"#", "$"}}

Statements(dialect) ==
    LET inner == Inner(dialect)
        all == inner \cup Open(dialect)
    IN  {s \in [1..1 -> all] \cup {<<x, y>> : x \in inner, y \in all}
                \cup [1..3 -> Delicate(dialect)] :
            /\ \A i \in 1..Len(s) - 1 : ~Glued(s[i], s[i + 1])
            /\ \E i \in DOMAIN s : s[i].text[1] \notin Blanks}

Query(sql, dialect, duration) == [sql |-> sql, dialect |-> dialect, duration_ms |-> duration]
Capture(route, duration, queries) ==
    [route_template |-> route, duration_ms |-> duration, queries |-> queries]

NoThresholds == [n \in ThresholdNames |-> NoThreshold]
SomeThresholds == [slow_request_ms |-> 3, slow_query_ms |-> 2, query_heavy_count |-> 3,
                   duplicate_query_threshold |-> 2, query_heavy_time_ms |-> 4]

Texts(queries, lengths) ==
    {[captures |-> <<Capture("r1", 1, <<Query(q.sql, q.dialect, 1)>>)>>,
      requests |-> {[kind |-> "detail", request_id |-> 1]}, guards |-> {},
      policy |-> [max_statement_length |-> length, max_queries_per_request |-> 2],
      thresholds |-> NoThresholds] : length \in lengths, q \in queries}

TextScenarios ==
    Texts(UNION {[sql: Statements(d), dialect: {d}] : d \in {"mysql", "postgresql"}},
          {5, 20})

\* A value of one backslash, something else, and another value.
BackslashScenarios ==
    Texts([sql: {<<Value(<<"'", "\\", "'">>), between, Value(<<"'", "a", "'">>)>> :
                    between \in {p \in Inner("postgresql") : p.text = p.safe}},
           dialect: {"postgresql"}], {20})

\* Three executions of one pattern, whatever their values and blanks, and others.
Find(value) == <<Plain(<<"a", " ">>), value>>
first == Query(Find(Value(<<"1">>)), "mysql", 1)
again == Query(Find(Value(<<"'", "a", "'">>)), "mysql", 2)
spaced == Query(<<Plain(<<"a", "\n", " ">>), Value(<<"1">>)>>, "mysql", 1)
other == Query(<<Plain(<<"a">>)>>, "postgresql", 2)

AllRequests ==
    [kind: {"health", "docs"}] \cup [kind: {"asset"}, known: BOOLEAN]
    \cup [kind: {"list", "aggregates"}, limit: 0..MaxLimit + 1]
    \cup [kind: {"detail"}, request_id: 0..4]

TrafficScenarios ==
    {[captures |-> <<Capture("r1", 3, <<first, other, again>>),
                     Capture("r2", 1, <<spaced, again, other>>),
                     Capture("r2", 2, <<first>>), Capture("r1", 1, <<>>)>>,
      requests |-> AllRequests, guards |-> setup[1],
      policy |-> [max_statement_length |-> 20, max_queries_per_request |-> setup[2]],
      thresholds |-> setup[3]] :
        setup \in {<<{}, 2, SomeThresholds>>, <<{"dependency"}, 3, NoThresholds>>,
                   <<Guards, 2, NoThresholds>>}}

MCScenarios == TextScenarios \cup TrafficScenarios
=============================================================================
