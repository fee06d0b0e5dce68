------------------------------- MODULE Report --------------------------------
(***************************************************************************)
(* The report of `fclones group` and how it is read: src/fclones/src/      *)
(* report.rs.                                                              *)
(*                                                                         *)
(* A report is a sequence of lines; a line is a record of the fields a     *)
(* reader takes from it, with texts as they are written.  A JSON report    *)
(* has the same lines with its own texts.  A line cut off anywhere but     *)
(* within a path is "malformed": no pattern of the reader matches it.      *)
(*                                                                         *)
(* A header is [timestamp, command, baseDir, redundant, missing], a group  *)
(* [len, files].                                                           *)
(***************************************************************************)
EXTENDS PathText

CONSTANT TicksPerMilli

ASSUME TicksAssumption == TicksPerMilli \in Nat \ {0}

HeaderKinds == <<"version", "timestamp", "command", "base dir", "total", "redundant", "missing">>

\* Mutated form of Millis: the time is rounded up.
MillisUp(t) == t + ((TicksPerMilli - (t % TicksPerMilli)) % TicksPerMilli)

\* TIMESTAMP_FMT has three digits of the second.
Millis(t) == t - (t % TicksPerMilli)

\* The fields of a header line, by its kind: text and JSON.
HeaderField(header, kind, format) ==
  CASE kind = "timestamp" ->
         IF format = "json" THEN header.timestamp ELSE Millis(header.timestamp)
    [] kind = "command" ->
         IF format = "json" THEN [i \in DOMAIN header.command |-> to_stfu8(header.command[i])]
                            ELSE join(header.command)
    [] kind = "base dir"  -> to_escaped_string(header.baseDir)
    [] kind = "redundant" -> header.redundant
    [] kind = "missing"   -> header.missing
    [] OTHER -> <<>>

HeaderLines(header, format) ==
  [i \in 1..Len(HeaderKinds) |->
     [kind |-> HeaderKinds[i], field |-> HeaderField(header, HeaderKinds[i], format)]]

PathLines(files) == [i \in 1..Len(files) |-> [kind |-> "path", field |-> to_escaped_string(files[i])]]

GroupLine(g) == [kind |-> "group", field |-> [len |-> g.len, count |-> Len(g.files)]]

write_as_text(header, groups) ==
  HeaderLines(header, "default")
    \o FlattenSeq([i \in 1..Len(groups) |-> <<GroupLine(groups[i])>> \o PathLines(groups[i].files)])

\* The braces are lines of their own; the report ends with one.
write_as_json(header, groups) ==
  <<[kind |-> "open", field |-> <<>>]>>
    \o HeaderLines(header, "json")
    \o FlattenSeq([i \in 1..Len(groups) |-> <<GroupLine(groups[i])>> \o PathLines(groups[i].files)])
    \o <<[kind |-> "close", field |-> <<>>]>>

write_as_fdupes(groups) ==
  FlattenSeq([i \in 1..Len(groups) |->
    PathLines(groups[i].files) \o <<[kind |-> "blank", field |-> <<>>]>>])

write_as_csv(groups) ==
  <<[kind |-> "columns", field |-> <<>>]>>
    \o [i \in 1..Len(groups) |->
          [kind |-> "record", field |-> [len |-> groups[i].len,
                                         files |-> [j \in DOMAIN groups[i].files |->
                                                      to_escaped_string(groups[i].files[j])]]]]

\* ReportWriter::write
Written(format, header, groups) ==
  CASE format = "default" -> write_as_text(header, groups)
    [] format = "json"    -> write_as_json(header, groups)
    [] format = "fdupes"  -> write_as_fdupes(groups)
    [] format = "csv"     -> write_as_csv(groups)

\* What may be left of a line the writer did not finish.
CutLines(line) ==
  IF line.kind = "path"
    THEN {[line EXCEPT !.field = SubSeq(@, 1, n)] : n \in 0..(Len(line.field) - 1)}
    ELSE {[kind |-> "malformed", field |-> <<>>]}

-----------------------------------------------------------------------------
(* Reading.                                                                *)

\* open_report, for a report that is not empty.
FormatOf(lines) ==
  CASE lines[1].kind = "open"    -> "json"
    [] lines[1].kind \in {"version", "malformed"} -> "default"
    [] OTHER -> "unknown"

\* Mutated form of TextBaseDir: the text is decoded.
DecodedBaseDir(text) == from_escaped_string(text)

\* The base directory of a text report is not decoded.
TextBaseDir(text) == From(text)

\* str::trim of a header line, which starts with its label and is left as it is there.
TrimmedEnd(text) ==
  LET kept == {i \in 1..Len(text) : text[i] # Blank}
  IN IF kept = {} THEN <<>> ELSE SubSeq(text, 1, Max(kept))

\* read_header: its lines, in their order; else Failed.  Neither the command line nor
\* the base directory, an absolute path, is empty.
read_header(lines) ==
  IF Len(lines) < Len(HeaderKinds) \/ \E i \in 1..Len(HeaderKinds) : lines[i].kind # HeaderKinds[i]
    THEN Failed
    ELSE LET command == split(TrimmedEnd(lines[3].field))
         IN IF command = Failed THEN Failed
            ELSE [timestamp |-> lines[2].field, command |-> command,
                  baseDir |-> TextBaseDir(TrimmedEnd(lines[4].field)),
                  redundant |-> lines[6].field, missing |-> lines[7].field]

Trimmed(text) ==
  LET kept == {i \in 1..Len(text) : text[i] # Blank}
  IN IF kept = {} THEN <<>> ELSE SubSeq(text, Min(kept), Max(kept))

\* Mutated form of path_in: the path is not decoded.
RawPathIn(line) ==
  IF line.kind # "path" \/ Trimmed(line.field) = <<>> THEN Failed ELSE FromRaw(Trimmed(line.field))

\* A line of read_paths.
path_in(line) ==
  IF line.kind # "path" \/ Trimmed(line.field) = <<>> THEN Failed
  ELSE from_escaped_string(Trimmed(line.field))

\* TextReportIterator::next on the lines left: a group, Failed, or the end.
NoGroup == [len |-> 0, files |-> <<>>]

next_group(lines) ==
  CASE lines = <<>> -> NoGroup
    [] lines # <<>> /\ lines[1].kind # "group" -> Failed
    [] OTHER ->
         LET count == lines[1].field.count
             paths == [i \in 1..Min({count, Len(lines) - 1}) |-> path_in(lines[i + 1])]
         IN IF Len(paths) < count \/ Failed \in ToSet(paths) THEN Failed
            ELSE [len |-> lines[1].field.len, files |-> paths]

\* JsonReportReader: all of the report, or nothing.
JsonHeader(lines) ==
  IF Last(lines).kind # "close" THEN Failed
  ELSE [timestamp |-> lines[3].field,
        command |-> [i \in DOMAIN lines[4].field |-> from_stfu8(lines[4].field[i])],
        baseDir |-> from_escaped_string(lines[5].field),
        redundant |-> lines[7].field, missing |-> lines[8].field]

\* The path of a JSON report is not trimmed.
JsonGroup(lines) ==
  IF lines[1].kind = "close" THEN NoGroup
  ELSE [len |-> lines[1].field.len,
        files |-> [i \in 1..lines[1].field.count |-> from_escaped_string(lines[i + 1].field)]]

=============================================================================
