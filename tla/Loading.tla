-------------------------------- MODULE Loading --------------------------------
(***************************************************************************)
(* From the tables of a source to the canonical datasets: the tables and   *)
(* columns that are suggested for a dataset (ingest/mapping.py over the    *)
(* hints of ingest/schema.py), the rows that are kept of a mapped table,   *)
(* the well names, and the datasets that load_project (connectors.py) and  *)
(* load_data (api/service.py) end with.                                    *)
(*                                                                         *)
(* A name - of a table, a column or a hint - is the set of its words: a    *)
(* hint is the name, or is in it.                                          *)
(***************************************************************************)
EXTENDS Integers, Sequences, FiniteSets, SequencesExt

Nothing == {}        \* no name

IsName(hint, name) == hint = name
IsIn(hint, name) == hint \subseteq name

\* The pairs of a hint and a name that go together, the first of them by hint,
\* then by name: the order of the two loops.
Hits(hints, names, Fits(_, _)) ==
  { p \in (DOMAIN hints) \X (DOMAIN names) : Fits(hints[p[1]], names[p[2]]) }

FirstHit(hits) ==
  CHOOSE p \in hits :
    \A q \in hits : p[1] < q[1] \/ (p[1] = q[1] /\ p[2] <= q[2])

\* suggest_table: the first name a hint is in.
SuggestTable(hints, tables) ==
  LET hits == Hits(hints, tables, IsIn)
  IN  IF hits = {} THEN Nothing ELSE tables[FirstHit(hits)[2]]

\* Mutant: the substring match is tried at once.
SuggestAnyColumn(hints, columns) ==
  LET within == Hits(hints, columns, IsIn)
  IN  IF within = {} THEN Nothing ELSE columns[FirstHit(within)[2]]

\* suggest_column: a column that is a hint, else one that has a hint in it.
SuggestColumn(hints, columns) ==
  LET exact == Hits(hints, columns, IsName)
      within == Hits(hints, columns, IsIn)
  IN  CASE exact # {} -> columns[FirstHit(exact)[2]]
        [] exact = {} /\ within # {} -> columns[FirstHit(within)[2]]
        [] OTHER -> Nothing

\* suggest_mapping, field by field in the order of the schema, each from the
\* columns the fields before it have left: mapping[k] is the column of field k.
SuggestMapping(fields, columns) ==
  LET Left(used) == SelectSeq(columns, LAMBDA c : c \notin used)
  IN  FoldLeft(LAMBDA mapping, hints :
                 Append(mapping, SuggestColumn(hints, Left(Range(mapping)))),
               <<>>, fields)

-----------------------------------------------------------------------------
(***************************************************************************)
(* Well names: normalise_id.  The spellings of a name that differ by case, *)
(* spaces and separators are one canonical name; an alias is found by the  *)
(* canonical form of its key and gives its value as it is written.         *)
(***************************************************************************)
NormaliseId(name, Canonical, aliases) ==
  LET keys == { a \in aliases : Canonical[a.key] = Canonical[name] }
  IN  IF keys = {} THEN Canonical[name] ELSE (CHOOSE a \in keys : TRUE).value

(***************************************************************************)
(* apply_mapping.  A row has a well, the date as it is written (a date,    *)
(* one that no format reads, or none) and a value that is a number or not. *)
(***************************************************************************)
Reads(date) == date \notin {"unreadable", "null"}

RowsKept(rows) == SelectSeq(rows, LAMBDA r : Reads(r.date))

\* UNPARSEABLE_DATES: a missing date is no reason to report.
UnreadableDates(rows) ==
  Cardinality({ k \in DOMAIN rows : rows[k].date = "unreadable" })

\* cast(strict=False): what is no number becomes null.
NoNumber == -1

Cell(v, factor) == IF v = NoNumber THEN NoNumber ELSE v * factor

LoadedRows(rows, Canonical, aliases, factor) ==
  LET kept == RowsKept(rows)
  IN  [k \in DOMAIN kept |->
         [ well |-> NormaliseId(kept[k].well, Canonical, aliases),
           date |-> kept[k].date,
           value |-> Cell(kept[k].value, factor) ]]

-----------------------------------------------------------------------------
(***************************************************************************)
(* load_project.  saved: dataset -> the table its saved mapping names, or  *)
(* Nothing when it has none.  hints: dataset -> the hints of its tables.   *)
(***************************************************************************)
\* The table a dataset that nobody mapped is read from.
Guess(d, hints, own, tables) ==
  LET t == SuggestTable(hints[d], tables)
  IN  CASE t # Nothing -> t
        [] t = Nothing /\ own[d] \in Range(tables) -> own[d]
        [] OTHER -> Nothing

\* The table of a dataset, Nothing when it is left out.
TableOf(d, saved, hints, own, tables) ==
  CASE saved[d] = Nothing -> Guess(d, hints, own, tables)
    [] saved[d] # Nothing /\ saved[d] \in Range(tables) -> saved[d]
    [] OTHER -> Nothing

\* Without rates load_project raises.
LoadProject(saved, hints, own, tables) ==
  LET loaded == [d \in DOMAIN saved |-> TableOf(d, saved, hints, own, tables)]
  IN  [ ok |-> loaded["rates"] # Nothing, datasets |-> loaded ]

\* load_data: what save_snapshot is given.
SnapshotTables(saved, tables) == Range(saved) \cap Range(tables)

\* read_source: the tables of the source, or the one result of the override.
ReadSource(override, tables) == IF override THEN << {"query"} >> ELSE tables
=============================================================================
