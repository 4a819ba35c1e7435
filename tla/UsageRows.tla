-------------------------------- MODULE UsageRows --------------------------------
(***************************************************************************)
(* From a provider's answer to the rows of a usage snapshot: the limits of *)
(* Claude (api.rs), of the web interface of ChatGPT (codex.rs) and of the  *)
(* Codex app server (codex_server.rs), made into rows by model.rs, and     *)
(* whether runtime_state.rs would save them.  Every answer is taken apart  *)
(* once.  Percents are whole numbers and windows whole hours; labels,      *)
(* plans, severities and the instants of the resets are left out.          *)
(***************************************************************************)
EXTENDS Integers, SequencesExt

CONSTANTS None,
          MaxRows,    \* MAX_LIMIT_ROWS
          Percent,    \* what a limit may claim to have used, or have left
          Hours       \* bound: the durations of windows that occur

VARIABLES reading,    \* the answer that was read: its form and content, or None
          rows        \* its rows; an answer that is refused has none

vars == <<reading, rows>>

Day == 24
Week == 7 * Day
Longest == 366 * Day

\* A limit id is the kind of the limit, or what identifies it to the app server.
Kind == {"Session", "Weekly", "Model", "ExtraUsage", "Other"}

Clamp(percent) == IF percent < 0 THEN 0 ELSE IF percent > 100 THEN 100 ELSE percent

\* UsageLimit::from_adapter; JSON has no percent that is not finite.
Row(id, kind, percent, hours) ==
    [id |-> id, kind |-> kind, class |-> IF kind = "ExtraUsage" THEN "Spend" ELSE "Quota",
     percent |-> Clamp(percent), hours |-> hours]

First(n, s) == SubSeq(s, 1, IF Len(s) < n THEN Len(s) ELSE n)

-----------------------------------------------------------------------------
\* parse_usage of api.rs: the kind of a limit is its id and tells its window.
ClaudeKind == [session |-> "Session", weekly_all |-> "Weekly", weekly_scoped |-> "Model",
               extra |-> "ExtraUsage", unknown |-> "Other"]
ClaudeHours == [session |-> 5, weekly_all |-> Week, weekly_scoped |-> Week, extra |-> None,
                unknown |-> None]

\* Extra usage that is on without a figure counts as 0.
ClaudeLimit == [kind : DOMAIN ClaudeKind, percent : Percent \cup {None}]

ClaudeAnswer ==
    [limits : UNION {[1..n -> ClaudeLimit] : n \in 0..MaxRows + 1},
     five_hour : {None} \cup Percent, seven_day : {None} \cup Percent,
     extra : {None, 0} \cup Percent]

Listed(limits) ==
    FlattenSeq([i \in DOMAIN limits |->
        IF limits[i].percent = None THEN <<>>
        ELSE <<Row(limits[i].kind, ClaudeKind[limits[i].kind], limits[i].percent,
                   ClaudeHours[limits[i].kind])>>])

\* An answer of the older form, without a list of limits.
Older(a) ==
    (IF a.five_hour = None THEN <<>> ELSE <<Row("session", "Session", a.five_hour, 5)>>)
      \o (IF a.seven_day = None THEN <<>> ELSE <<Row("weekly_all", "Weekly", a.seven_day, Week)>>)

ClaudeRows(a) ==
    LET listed == First(MaxRows, Listed(a.limits))
        limited == IF listed = <<>> THEN Older(a) ELSE listed
    IN  IF a.extra = None \/ Len(limited) >= MaxRows THEN limited
        ELSE Append(limited, Row("extra", "ExtraUsage", a.extra, None))

-----------------------------------------------------------------------------
Window == [percent : Percent, hours : Hours \cup {None}]

\* parse_usage_json and push_row of codex.rs: the duration names a window, and
\* its position only when the duration is missing.
WhamAnswer == [primary : Window \cup {None}, secondary : Window \cup {None}]

PushRow(w, position) ==
    IF w = None THEN <<>>
    ELSE LET known == w.hours # None /\ w.hours > 0
         IN  <<Row(IF ~known THEN position ELSE IF w.hours <= Day THEN "session" ELSE "weekly_all",
                   IF ~known THEN "Other" ELSE IF w.hours <= Day THEN "Session" ELSE "Weekly",
                   w.percent, IF known THEN w.hours ELSE None)>>

WhamRows(a) == First(MaxRows, PushRow(a.primary, "session") \o PushRow(a.secondary, "weekly_all"))

-----------------------------------------------------------------------------
\* parse_limits of codex_server.rs: buckets by limit id, "codex" first, each
\* with two windows and a spend limit, of which the rest is given.  A single
\* bucket under rateLimits is one under its own name.
Buckets == {"codex", "spark"}

Bucket == [limitId : {None} \cup Buckets, primary : Window \cup {None},
           secondary : Window \cup {None}, spend : Percent \cup {None}]

ServerAnswer == [account : {None, "own", "other"},
                 limits : UNION {[bs -> Bucket] : bs \in SUBSET Buckets}]

ServerWindow(id, position, w) ==
    LET hours == IF w.hours # None /\ w.hours > 0 THEN w.hours ELSE None
        kind == CASE id # "codex" -> "Model"
                  [] id = "codex" /\ hours = None -> "Other"
                  [] id = "codex" /\ hours # None ->
                       IF hours <= Day THEN "Session" ELSE IF hours = Week THEN "Weekly" ELSE "Other"
    IN  Row(IF hours = None THEN <<id, position, 0>> ELSE <<id, "window", hours>>,
            kind, w.percent, hours)

BucketRows(id, bucket) ==
    (IF bucket.primary = None THEN <<>> ELSE <<ServerWindow(id, "primary", bucket.primary)>>)
      \o (IF bucket.secondary = None THEN <<>> ELSE <<ServerWindow(id, "secondary", bucket.secondary)>>)
      \o (IF bucket.spend = None THEN <<>>
          ELSE <<Row(<<id, "spend", 0>>, "ExtraUsage", 100 - bucket.spend, None)>>)

IdsDiffer(rs) == \A i, j \in DOMAIN rs : rs[i].id = rs[j].id => i = j

\* The rows of the buckets of an answer, "codex" first.
AllRows(limits) ==
    LET Of(id) == IF id \in DOMAIN limits THEN BucketRows(id, limits[id]) ELSE <<>>
    IN  Of("codex") \o Of("spark")

\* Mutant of ServerRows: rows of one id are not looked for.
ServerRowsUnchecked(a) ==
    LET all == AllRows(a.limits)
    IN  IF a.account = "other" \/ Len(all) > MaxRows THEN <<>> ELSE all

\* Refused: an answer about another account, a bucket that contradicts its
\* name, too many rows, two rows of one id.
ServerRows(a) ==
    LET all == AllRows(a.limits)
    IN  IF \/ a.account = "other"
           \/ \E id \in DOMAIN a.limits : a.limits[id].limitId \notin {None, id}
           \/ Len(all) > MaxRows
           \/ ~IdsDiffer(all)
        THEN <<>> ELSE all

-----------------------------------------------------------------------------
Init == reading = None /\ rows = <<>>

Take(form, content, result) == /\ reading' = [form |-> form, content |-> content]
                               /\ rows' = result

ReadClaude == reading = None /\ \E a \in ClaudeAnswer : Take("claude", a, ClaudeRows(a))

ReadWham == reading = None /\ \E a \in WhamAnswer : Take("wham", a, WhamRows(a))

ReadServer == reading = None /\ \E a \in ServerAnswer : Take("server", a, ServerRows(a))

Next == ReadClaude \/ ReadWham \/ ReadServer

Spec == Init /\ [][Next]_vars

-----------------------------------------------------------------------------
\* valid_cache of runtime_state.rs, as far as it is about the rows.
ValidCache(rs) ==
    /\ Len(rs) <= MaxRows
    /\ IdsDiffer(rs)
    /\ \A i \in DOMAIN rs : /\ (rs[i].class = "Spend") = (rs[i].kind = "ExtraUsage")
                            /\ rs[i].hours = None \/ rs[i].hours \in 1..Longest

TypeOK == \A i \in DOMAIN rows : /\ rows[i].kind \in Kind
                                 /\ rows[i].percent \in 0..100
                                 /\ rows[i].hours \in Nat \cup {None}

\* Usage is cached in the runtime store (CHANGELOG.md, line 63), windows longer
\* than a year aside: violated by two limits of one kind, whose ids are the same.
UsageIsCached ==
    \/ ValidCache(rows)
    \/ \E i \in DOMAIN rows : rows[i].hours # None /\ rows[i].hours > Longest

\* Whatever a provider sends, the rows of its snapshot can be saved for the
\* next start, together with the deadline of a 429 that comes after them.  An
\* answer of the app server that names another account is not shown, and each
\* of its limits has an id, hence an alert receipt, of its own.  Excepted are
\* windows longer than a year, and Claude's and the web interface's limits of
\* one kind, which share an id.
AcceptedIsSavable ==
    /\ \/ UsageIsCached
       \/ reading.form \in {"claude", "wham"} /\ ~IdsDiffer(rows)
    /\ rows # <<>> /\ reading.form = "server" => /\ reading.content.account # "other"
                                                 /\ IdsDiffer(rows)
==================================================================================
