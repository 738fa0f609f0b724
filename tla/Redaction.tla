----------------------------- MODULE Redaction -----------------------------
(* core/privacy.py and core/limits.py: what redaction makes of the text of  *)
(* a SQL statement, and the fingerprint that stands for its pattern.        *)
(*                                                                          *)
(* A text is a sequence of characters, of which only those the scanner      *)
(* tells apart are there: "a" stands for any letter or underscore, "1" for  *)
(* any digit, "dq" for the double quote and the backtick.  Letter case and  *)
(* decimal points are left out.  The texts redaction writes are one         *)
(* character each: "[REDACTED]" with the blanks around it, "?", and the     *)
(* words of the marker of a cut.  The empty text stands for None.           *)
EXTENDS Integers, SequencesExt

Quotes == {"'", "dq"}
Letters == {"a"}
Digits == {"1"}
WordChars == Letters \cup Digits
Blanks == {" ", "\n"}
REDACTED == "[REDACTED]"
TRUNCATION_MARKER == <<" ", "[truncated]">>
HashDialects == {"mysql"}    \* and MariaDB

\* str.startswith(t, i)
StartsWith(s, i, t) ==
    /\ i + Len(t) - 1 <= Len(s)
    /\ \A k \in 1..Len(t) : s[i + k - 1] = t[k]

\* The position behind the first t from i on, or the end when there is none.
After(s, t, i) ==
    LET found == {j \in i..Len(s) : StartsWith(s, j, t)}
    IN  IF found = {} THEN Len(s) + 1 ELSE Min(found) + Len(t)

\* _require_text refuses a text of blanks.
IsNonBlank(s) == \E i \in DOMAIN s : s[i] \notin Blanks

\* Without the blanks at either end (str.strip).
Strip(s) ==
    LET inked == {i \in DOMAIN s : s[i] \notin Blanks}
    IN  IF inked = {} THEN <<>> ELSE SubSeq(s, Min(inked), Max(inked))

\* truncate_str: a text that is too long ends with the marker.
truncate_str(value, max_length) ==
    IF Len(value) <= max_length THEN value
    ELSE SubSeq(value, 1, max_length - Len(TRUNCATION_MARKER)) \o TRUNCATION_MARKER

-----------------------------------------------------------------------------
(* The scanner: what it writes for the construct at position i, and the     *)
(* position it goes on with.                                                *)

Written(text, next) == [text |-> text, next |-> next]

_redact_line_comment(s, i, marker) ==
    LET next == After(s, <<"\n">>, i + Len(marker))
        line == marker \o <<REDACTED>>
    IN  Written(IF s[next - 1] = "\n" THEN Append(line, "\n") ELSE line, next)

_redact_block_comment(s, i) ==
    Written(<<"/", "*", REDACTED, "*", "/">>, After(s, <<"*", "/">>, i + 2))

\* Mutant: a doubled quote ends the value.
Mutant_skip_quoted_value(s, i) ==
    LET skip[j \in i + 1..Len(s) + 2] ==
            CASE j > Len(s) -> Len(s) + 1
              [] j < Len(s) /\ s[j] = "\\" -> skip[j + 2]
              [] j <= Len(s) /\ s[j] = s[i] -> j + 1
              [] OTHER -> skip[j + 1]
    IN  skip[i + 1]

\* The position behind the value whose opening quote is at i.  A backslash takes
\* the next character with it, whatever the dialect, and a quote the same quote.
_skip_quoted_value(s, i) ==
    LET Pair(j) == j < Len(s) /\ (s[j] = "\\" \/ (s[j] = s[i] /\ s[j + 1] = s[i]))
        skip[j \in i + 1..Len(s) + 2] ==
            CASE j > Len(s) -> Len(s) + 1
              [] Pair(j) -> skip[j + 2]
              [] j <= Len(s) /\ ~Pair(j) /\ s[j] = s[i] -> j + 1
              [] OTHER -> skip[j + 1]
    IN  skip[i + 1]

\* _DOLLAR_QUOTE_OPEN: the ends of a tag that opens at i, one at most.
TagEnds(s, i) ==
    {j \in i + 1..Len(s) :
        /\ s[i] = "$" /\ s[j] = "$"
        /\ \A k \in i + 1..j - 1 : s[k] \in WordChars
        /\ s[i + 1] \notin Digits}

_skip_dollar_quoted_value(s, i, tag) == After(s, tag, i + Len(tag))

\* One round of the loop of _redact_sql_fragments.
Scan(s, dialect, i) ==
    CASE StartsWith(s, i, <<"-", "-">>) -> _redact_line_comment(s, i, <<"-", "-">>)
      [] s[i] = "#" /\ dialect \in HashDialects -> _redact_line_comment(s, i, <<"#">>)
      [] StartsWith(s, i, <<"/", "*">>) -> _redact_block_comment(s, i)
      [] s[i] \in Quotes -> Written(<<"?">>, _skip_quoted_value(s, i))
      [] TagEnds(s, i) # {} ->
            LET tag == SubSeq(s, i, Max(TagEnds(s, i)))
            IN  Written(<<"?">>, _skip_dollar_quoted_value(s, i, tag))
      [] OTHER -> Written(<<s[i]>>, i + 1)

\* _NUMBER_LITERAL: the digit at i is part of a word of digits alone.
IsNumber(s, i) ==
    /\ s[i] \in Digits
    /\ \A j \in DOMAIN s : s[j] \in Letters =>
          \E k \in DOMAIN s : (k \in i..j \/ k \in j..i) /\ s[k] \notin WordChars

WithoutNumbers(s) ==
    FlattenSeq([i \in DOMAIN s |->
        IF ~IsNumber(s, i) THEN <<s[i]>>
        ELSE IF i > 1 /\ s[i - 1] \in Digits THEN <<>> ELSE <<"?">>])

_redact_sql_fragments(s, dialect) ==
    LET fragments[i \in 1..Len(s) + 1] ==
            IF i > Len(s) THEN <<>>
            ELSE LET here == Scan(s, dialect, i)
                 IN  here.text \o fragments[here.next]
    IN  WithoutNumbers(fragments[1])

redact_sql_statement(s, dialect, max_length) ==
    truncate_str(_redact_sql_fragments(s, dialect), max_length)

\* re.sub(r"\s+", " ", s).strip()
CollapseBlanks(s) ==
    Strip(FlattenSeq([i \in DOMAIN s |->
        IF s[i] \notin Blanks THEN <<s[i]>>
        ELSE IF i > 1 /\ s[i - 1] \in Blanks THEN <<>> ELSE <<" ">>]))

\* Mutant: the blanks are left as they are.
Mutantmake_sql_fingerprint(s, dialect) == Strip(_redact_sql_fragments(s, dialect))

make_sql_fingerprint(s, dialect) == CollapseBlanks(_redact_sql_fragments(s, dialect))

-----------------------------------------------------------------------------
(* Query events on their way from the SQL hook to the API.  The records'    *)
(* own validation strips statement and fingerprint each time one is made.   *)

\* _create_query_event: the hook redacts with the default policy.
CapturedQuery(sql, dialect, duration, default_length) ==
    [statement   |-> Strip(redact_sql_statement(sql, dialect, default_length)),
     fingerprint |-> make_sql_fingerprint(sql, dialect),
     dialect     |-> dialect,
     duration_ms |-> duration]

\* The fingerprint is made anew from the statement that is left.
_redact_query_event(query, policy) ==
    [query EXCEPT
        !.statement = Strip(redact_sql_statement(query.statement, query.dialect,
                                                 policy.max_statement_length)),
        !.fingerprint = Strip(truncate_str(
                            make_sql_fingerprint(query.statement, query.dialect),
                            policy.max_statement_length))]

\* The totals of the event keep counting the queries that are cut off.
redact_event(event, policy) ==
    LET kept == SubSeq(event.queries, 1,
                       Min({Len(event.queries), policy.max_queries_per_request}))
    IN  [event EXCEPT !.queries =
            [i \in DOMAIN kept |-> _redact_query_event(kept[i], policy)]]

-----------------------------------------------------------------------------
(* What redaction may leave of a statement that is too long.                *)

\* t is what may be shown, cut somewhere and stripped: with the marker behind the
\* cut, or without it when the cut fell into a comment, whose redaction swallows
\* it.  A name that begins with digits and is cut behind them reads as a number.
IsCutOf(t, safe) ==
    \E n \in 0..Len(safe) :
        LET kept == SubSeq(safe, 1, n) IN
        \/ n < Len(safe) /\ t = Strip(kept \o TRUNCATION_MARKER)
        \/ /\ n < Len(safe) /\ safe[n + 1] \in Digits
           /\ n > 0 => safe[n] \notin WordChars
           /\ t = Strip(kept \o <<"?">> \o TRUNCATION_MARKER)
        \/ n > 0 /\ safe[n] = REDACTED /\ t = Strip(kept)
        \/ n > 2 /\ StartsWith(safe, n - 2, <<REDACTED, "*", "/">>) /\ t = Strip(kept)
=============================================================================
