----------------------------- MODULE SyllabusMap -----------------------------
(***************************************************************************)
(* From a syllabus to class sessions: the strategies, the line and table   *)
(* parsers, merging, validation and choice of app/syllabus_mapper.py, the  *)
(* text parser of app/syllabus_parser.py, and how process_syllabus of      *)
(* app/http_app.py uses them.                                              *)
(*                                                                         *)
(* A document is a sequence of classified lines and a sequence of tables.  *)
(* What the regular expressions tell apart is the line's kind, and a field *)
(* is the set of lines whose text it holds.  The dates 1 to 12 are M/D     *)
(* dates, one of each month; a greater one is a date in words.             *)
(***************************************************************************)
EXTENDS Integers, Sequences, FiniteSetsExt, SequencesExt

CONSTANTS
  MaxGap,     \* the 40 lines between two rows of one schedule
  Lookahead,  \* the 4 lines in which a keyword's date may follow
  MaxTopic    \* topic lines that are still plausible (400 characters)

ASSUME SyllabusAssumption == MaxGap \in Nat /\ Lookahead \in Nat /\ MaxTopic \in Nat

(* Line kinds: "heading" a schedule heading; "end" a closing or numbered    *)
(* heading; "keyword" 'Week 2' alone, "title" with text, "class" with a     *)
(* date and a topic of three words or more, "block" with dates and times    *)
(* only, so that whatever else it says is taken for a time and dropped;     *)
(* "open" ends inside a parenthesis; "dated" a date and a topic, "brief"    *)
(* the same with a topic of at most two words; "timed" a date and a time,   *)
(* "bare" a date alone; "item" the start of an item, "cont" its             *)
(* continuation, "noise" a page number or a stray label.                    *)
Undated == 0
MonthDay == 1..12

Keyword(l) == l.kind \in {"keyword", "title", "class", "block", "open"}
ScheduleRow(l) == Keyword(l) \/ l.kind \in {"dated", "brief", "timed"}
HasDate(l) == l.kind \in {"class", "block", "open", "dated", "brief", "timed", "bare"}

\* _looks_like_pure_date_line: a time, or at most two words beside the date
PureDate(l) == l.kind \in {"block", "brief", "timed", "bare"}

-----------------------------------------------------------------------------
(* Where the schedule is: <<first, last>>, or <<>>.                        *)

\* _extend_through_trailing_content
Extend(doc, from) ==
  LET ends == {i \in DOMAIN doc : i > from /\ doc[i].kind = "end"}
  IN IF ends = {} THEN Len(doc) ELSE Min(ends) - 1

BoundScheduleRun(doc, from) ==
  LET rows == {i \in DOMAIN doc : i >= from /\ ScheduleRow(doc[i])}
  IN IF rows = {} THEN <<>> ELSE <<Min(rows), Extend(doc, Min(rows))>>

HeaderAnchored(doc) ==
  LET heads == {i \in DOMAIN doc : doc[i].kind = "heading"}
  IN IF heads = {} THEN <<>> ELSE BoundScheduleRun(doc, Min(heads) + 1)

\* the longest run of rows no more than MaxGap apart, the first of equals
PatternSweep(doc) ==
  LET rows == {i \in DOMAIN doc : ScheduleRow(doc[i])}
      Starts(i) == \A j \in rows : j < i => i - j > MaxGap
      Final(i) == Max({j \in rows : j >= i /\ ~\E k \in rows : i < k /\ k <= j /\ Starts(k)})
      spans == {Final(i) - i : i \in {s \in rows : Starts(s)}}
      best == CHOOSE i \in rows : /\ Starts(i) /\ Final(i) - i = Max(spans)
                                  /\ \A j \in rows : j < i /\ Starts(j) => Final(j) - j < Max(spans)
  IN IF rows = {} \/ Max(spans) < 1 THEN <<>> ELSE <<best, Extend(doc, Final(best))>>

-----------------------------------------------------------------------------
(* _find_markers: where each session opens, what it consumes, its date and *)
(* the lines of its inline topic.                                          *)

Marker(at, content, date, topic) == [at |-> at, content |-> content, date |-> date, topic |-> topic]

\* a bare keyword without a date stands for itself
Own(l) == <<"label", l.date>>
On(l) == <<"date", l.date>>

DateAhead(doc, i, end) == {j \in i+1..Min({end, i + Lookahead}) : PureDate(doc[j])}

KeywordMarker(doc, i, end) ==
  LET l == doc[i]
      ahead == DateAhead(doc, i, end)
      own == IF l.kind \in {"title", "class", "open"} THEN {i} ELSE {}
  IN IF HasDate(l)
     THEN <<Marker(i, IF l.kind = "open" /\ i < end THEN i + 1 ELSE i, On(l), own)>>
     ELSE IF ahead # {} THEN <<Marker(i, Min(ahead), On(doc[Min(ahead)]), own \cup (i+1..Min(ahead)-1))>>
     ELSE IF l.kind = "keyword" THEN <<Marker(i, i, Own(l), {})>> ELSE <<>>

FindMarkers(doc, start, end) ==
  LET at[i \in start..end+1] ==
        IF i > end THEN <<>>
        ELSE LET found == IF Keyword(doc[i]) THEN KeywordMarker(doc, i, end)
                          ELSE IF ScheduleRow(doc[i]) THEN <<Marker(i, i, On(doc[i]), {i})>> ELSE <<>>
             IN found \o at[IF found = <<>> THEN i + 1 ELSE found[1].content + 1]
  IN at[start]

-----------------------------------------------------------------------------
(* Items and fields.                                                       *)

Fields == {"documents", "case", "article", "reading", "topic", "misc"}

\* _merge_wrapped_items: a sequence of sets of lines
MergeWrapped(doc, indices) ==
  LET Add(items, i) ==
        IF doc[i].kind = "noise" THEN items
        ELSE IF items = <<>> \/ doc[i].kind = "item" THEN Append(items, {i})
        ELSE [items EXCEPT ![Len(items)] = @ \cup {i}]
  IN FoldLeft(Add, <<>>, indices)

\* _classify_into: explicit due language, then a case, a publication, reading language,
\* then the topic while there is none
Classify(doc, fields, item) ==
  LET classes == {doc[i].class : i \in item}
      field == CASE "documents" \in classes -> "documents"
                 [] "case" \in classes /\ "documents" \notin classes -> "case"
                 [] "article" \in classes /\ classes \cap {"documents", "case"} = {} -> "article"
                 [] "reading" \in classes /\ classes \cap {"documents", "case", "article"} = {} -> "reading"
                 [] OTHER -> IF fields["topic"] = {} THEN "topic" ELSE "misc"
  IN [fields EXCEPT ![field] = @ \cup item]

NoFields == [f \in Fields |-> {}]
Fill(doc, fields, items) == FoldLeft(LAMBDA f, item : Classify(doc, f, item), fields, items)
Interval(a, b) == [k \in 1..(IF b < a THEN 0 ELSE b - a + 1) |-> a + k - 1]

\* parse_tuples: a marker's content ends where the next marker opens
ParseTuples(doc, start, end) ==
  LET markers == FindMarkers(doc, start, end)
      Until(k) == IF k < Len(markers) THEN markers[k + 1].at - 1 ELSE end
      Content(k) == Interval(markers[k].content + 1, Until(k))
  IN [k \in DOMAIN markers |->
        [date |-> markers[k].date,
         fields |-> Fill(doc, [NoFields EXCEPT !["topic"] = markers[k].topic],
                         MergeWrapped(doc, Content(k))),
         lines |-> {markers[k].at} \cup ToSet(Content(k))]]

\* _parse_table_schedule: a table is the words of its header and rows of cells, each the date
\* found in it and its lines.  The date column is the first of those with the most dates, two at
\* least; rows without a date there are skipped, and of the other columns the topic's and those
\* headed by a word of ContentWords are read, the topic's first.
ContentWords == {"reading", "case", "textbook", "submission", "due"}

TableTuples(doc, table) ==
  LET columns == DOMAIN table.head
      Hits(c) == Cardinality({k \in DOMAIN table.rows : table.rows[k][c].date # Undated})
      most == Max({Hits(c) : c \in columns})
      date == Min({c \in columns : Hits(c) = most})
      topics == {c \in columns : table.head[c] = "topic"}
      topic == IF topics = {} THEN columns \cap {date + 1} ELSE {Min(topics)}
      content == {c \in columns : table.head[c] \in ContentWords} \ ({date} \cup topic)
      read == SetToSeq(topic) \o SetToSortSeq(content, <)
      rows == SelectSeq(table.rows, LAMBDA r : r[date].date # Undated)
      Items(r) == FlattenSeq([k \in DOMAIN read |-> MergeWrapped(doc, r[read[k]].lines)])
  IN IF most < 2 THEN <<>>
     ELSE [k \in DOMAIN rows |-> [date |-> <<"date", rows[k][date].date>>,
                                  fields |-> Fill(doc, NoFields, Items(rows[k])), lines |-> {}]]

\* extract_table_schedule: a table that repeats the header of the one before continues it, and of
\* the tables the one with the most tuples is kept, the first of equals
Rejoined(tables) ==
  FoldLeft(LAMBDA done, t :
             IF done # <<>> /\ done[Len(done)].head = t.head
             THEN [done EXCEPT ![Len(done)].rows = @ \o t.rows] ELSE Append(done, t), <<>>, tables)

ExtractTables(doc, tables) ==
  FoldLeft(LAMBDA best, t :
             LET tuples == TableTuples(doc, t) IN IF Len(tuples) > Len(best) THEN tuples ELSE best,
           <<>>, Rejoined(tables))

-----------------------------------------------------------------------------
(* Merging, numbering, validation.                                         *)

Union2(a, b) == [f \in Fields |-> a[f] \cup b[f]]

MergeSameDate(tuples) ==
  FoldLeft(LAMBDA merged, t :
             LET same == {k \in DOMAIN merged : merged[k].date = t.date}
             IN IF same = {} THEN Append(merged, t)
                ELSE [merged EXCEPT ![Min(same)].fields = Union2(@, t.fields),
                                    ![Min(same)].lines = @ \cup t.lines], <<>>, tuples)

Valid(t) == t.fields["topic"] # {} /\ Cardinality(t.fields["topic"]) <= MaxTopic

\* M/D dates that go backwards, more than half as many as there are, unless over the new year
OutOfOrder(valid) ==
  LET dates == SelectSeq(valid, LAMBDA t : t.date[1] = "date" /\ t.date[2] \in MonthDay)
      Month(k) == dates[k].date[2]
      back == {k \in 1..Len(dates) - 1 : Month(k + 1) < Month(k) /\ ~(Month(k) > 6 /\ Month(k + 1) < 6)}
  IN Len(dates) >= 2 /\ Cardinality(back) > Len(dates) \div 2

\* assign_session_numbers
Numbered(merged) == [k \in DOMAIN merged |-> [number |-> k, tuple |-> merged[k]]]

Judged(valid, quarantined) ==
  [valid |-> valid, quarantined |-> quarantined,
   ok |-> Len(valid) >= 2 /\ Len(valid) >= Len(quarantined) /\ ~OutOfOrder([k \in DOMAIN valid |-> valid[k].tuple])]

Validate(numbered) ==
  Judged(SelectSeq(numbered, LAMBDA n : Valid(n.tuple)), SelectSeq(numbered, LAMBDA n : ~Valid(n.tuple)))

Report(tuples) == Validate(Numbered(MergeSameDate(tuples)))

-----------------------------------------------------------------------------
(* run_pipeline, map_pdf_bytes_to_sessions, process_syllabus.              *)

Strategies == {"header_anchored", "pattern_sweep", "table_extraction"}

ParseRun(doc, run) == IF run = <<>> THEN <<>> ELSE ParseTuples(doc, run[1], run[2])

Tuples(input, strategy) ==
  CASE strategy = "header_anchored" -> ParseRun(input.doc, HeaderAnchored(input.doc))
    [] strategy = "pattern_sweep" -> ParseRun(input.doc, PatternSweep(input.doc))
    [] strategy = "table_extraction" -> ExtractTables(input.doc, input.tables)

Candidates(input) == {s \in Strategies : Report(Tuples(input, s)).ok}

\* the score's first component differs between strategies, so it alone decides
Priority == [table_extraction |-> 2, header_anchored |-> 1, pattern_sweep |-> 0]

Foremost(c, score) == IF c = {} THEN <<>> ELSE <<CHOOSE s \in c : \A z \in c : score[s] >= score[z]>>

\* mutant: the raw number of tuples decides
RunPipelineByCount(input) ==
  Foremost(Candidates(input), [s \in Strategies |-> Len(Report(Tuples(input, s)).valid)])

RunPipeline(input) == Foremost(Candidates(input), Priority)

Session(n, topic, date) == [index |-> n, topic |-> topic, date |-> date]

SessionsOf(valid) ==
  [k \in DOMAIN valid |-> Session(valid[k].number, valid[k].tuple.fields["topic"], valid[k].tuple.date)]

MapFrom(input, won) == IF won = <<>> THEN <<>> ELSE SessionsOf(Report(Tuples(input, won[1])).valid)

MapPdfToSessions(input) == MapFrom(input, RunPipeline(input))

\* parse_syllabus: a block from each header line to the next; its topics are on the header, or
\* in the body when the header has no title
ParseText(doc) ==
  LET headers == SetToSortSeq({i \in DOMAIN doc : Keyword(doc[i]) \/ doc[i].kind \in {"dated", "brief"}}, <)
      Until(k) == IF k < Len(headers) THEN headers[k + 1] - 1 ELSE Len(doc)
      Body(k) == headers[k] + 1 .. Until(k)
      Dates(k) == {i \in {headers[k]} \cup Body(k) : HasDate(doc[i])}
      Titled(k) == doc[headers[k]].kind \in {"title", "class", "open", "dated", "brief"}
  IN [k \in DOMAIN headers |->
        Session(k, IF Titled(k) THEN {headers[k]} ELSE Body(k),
                IF Dates(k) = {} THEN <<>> ELSE On(doc[Min(Dates(k))]))]

\* process_syllabus: pasted text, else the PDF mapper, else the text parser on the chunks
Sessions(input) ==
  LET mapped == MapPdfToSessions(input)
  IN IF input.pasted \/ ~input.pdf \/ mapped = <<>> THEN ParseText(input.doc) ELSE mapped

\* titles that repeat get a number; a title is a sequence, <<t, 2>> reading "t (2)"
UniqueTitles(titles) ==
  LET Fresh(used, t) ==
        IF t \notin used THEN t ELSE Append(t, Min({n \in 2..Len(titles) + 2 : Append(t, n) \notin used}))
  IN FoldLeft(LAMBDA done, t : Append(done, Fresh(ToSet(done), t)), <<>>, titles)

-----------------------------------------------------------------------------
(* What the mapper promises.                                               *)

LineRuns(doc) == {run \in {HeaderAnchored(doc), PatternSweep(doc)} : run # <<>>}

\* What a session's marker takes for its date, or for the rest of a parenthesis, is not kept,
\* nor are page numbers, stray labels and what a keyword's own line says besides a topic.
Dropped(doc, marker, i) ==
  \/ i = marker.at /\ doc[i].kind \in {"keyword", "block"}
  \/ i = marker.content /\ i > marker.at /\ (doc[marker.at].kind = "open" \/ PureDate(doc[i]))
  \/ i > marker.content /\ doc[i].kind = "noise"

\* Of a section that was found, no line is read twice: from the first session on each belongs to
\* one session, what follows the last row up to a closing heading to the last, and the session's
\* fields hold the text of all of its lines but those of Dropped (a date line with two words of
\* topic among them), and of no others.
LinesOwnedOnce(doc) ==
  \A run \in LineRuns(doc) :
    LET markers == FindMarkers(doc, run[1], run[2])
        tuples == ParseTuples(doc, run[1], run[2])
        Owns(k) == tuples[k].lines \cup (markers[k].at .. markers[k].content)
        Text(k) == UNION {tuples[k].fields[f] : f \in Fields}
    IN /\ \A i \in DOMAIN doc :
            i > run[1] /\ (\A j \in run[1]+1..i : doc[j].kind # "end") => i <= run[2]
       /\ markers # <<>> =>
            \A i \in markers[1].at .. run[2] : Cardinality({k \in DOMAIN markers : i \in Owns(k)}) = 1
       /\ \A k \in DOMAIN markers : Text(k) = {i \in Owns(k) : ~Dropped(doc, markers[k], i)}

\* A table that goes on over the page, its header repeated there, gives the sessions it would
\* give on one page.
PagesRejoined(doc, tables) ==
  \A k \in DOMAIN tables : \A n \in 0..Len(tables[k].rows) :
    LET Piece(from, to) == [tables[k] EXCEPT !.rows = SubSeq(@, from, to)]
        paged == SubSeq(tables, 1, k - 1) \o <<Piece(1, n), Piece(n + 1, Len(tables[k].rows))>>
                   \o SubSeq(tables, k + 1, Len(tables))
    IN ExtractTables(doc, paged) = ExtractTables(doc, tables)

\* A schedule of an academic year, July to June, is never out of order, whatever dates in words
\* stand in it; three M/D dates or more that go back month by month in one half of a year are.
YearInOrder(dates) ==
  LET tuples == [k \in DOMAIN dates |-> [date |-> <<"date", dates[k]>>]]
      months == SelectSeq(dates, LAMBDA d : d \in MonthDay)
      InYear(m) == IF m > 6 THEN m - 6 ELSE m + 6
      Steps(Holds2(_, _)) == \A k \in 1..Len(months) - 1 : Holds2(InYear(months[k]), InYear(months[k + 1]))
  IN /\ Steps(LAMBDA a, b : a <= b) => ~OutOfOrder(tuples)
     /\ Len(months) >= 3 /\ Steps(LAMBDA a, b : a > b /\ (a <= 6 <=> b <= 6)) => OutOfOrder(tuples)

Contents(tuples) == UNION {UNION {t.fields[f] : f \in Fields} : t \in ToSet(tuples)}

\* a report holds every date and every line that the tuples had, each date once
Holds(report, tuples) ==
  LET kept == report.valid \o report.quarantined
      merged == [k \in DOMAIN kept |-> kept[k].tuple]
      dates == {t.date : t \in ToSet(merged)}
  IN /\ {n.number : n \in ToSet(kept)} = 1..Len(kept)
     /\ dates = {t.date : t \in ToSet(tuples)} /\ Cardinality(dates) = Len(kept)
     /\ Contents(merged) = Contents(tuples)

\* The tuples a strategy has are merged by date, numbered in order and quarantined, never dropped.
NothingDropped(inputs) ==
  \A tuples \in {Tuples(input, s) : input \in inputs, s \in Strategies} : Holds(Report(tuples), tuples)

Grounded(won, candidates, sessions) ==
  /\ won = <<>> <=> candidates = {}
  /\ "table_extraction" \in candidates => won = <<"table_extraction">>
  /\ won = <<"pattern_sweep">> => candidates = {"pattern_sweep"}
  /\ won # <<>> => Len(sessions) >= 2

\* The tables win when what they give validates, the pattern sweep only when nothing else validates, and a PDF in
\* which some strategy validates never goes to the text parser.
BestGrounded(input) ==
  LET won == RunPipeline(input)
  IN Grounded(won, Candidates(input), MapFrom(input, won))

\* The sessions process_syllabus inserts have different titles, and the first of a kind keeps its own.
TitlesUnique(titles) ==
  LET out == UniqueTitles(titles)
  IN /\ Len(out) = Len(titles) /\ IsInjective(out)
     /\ \A k \in DOMAIN titles : (\A j \in 1..k-1 : out[j] # titles[k]) => out[k] = titles[k]
=============================================================================
