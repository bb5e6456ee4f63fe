------------------------------ MODULE MarketData ------------------------------
(***************************************************************************)
(* MarketDataLoader and validate_ohlcv (python/quant_system/data): a frame *)
(* of an outside source becomes canonical rows, or is refused with the     *)
(* kind of its error.                                                      *)
(*                                                                         *)
(* An outside frame is a sequence of columns, each with the key its name   *)
(* folds to, and a sequence of rows, each a sequence of cells.  A cell is  *)
(* what its text parses to.  Symbols are numbered in alphabetical order.   *)
(***************************************************************************)
EXTENDS Integers, Sequences, TLC

CONSTANTS
  None,        \* no symbol supplied
  Missing,     \* an empty cell
  Malformed,   \* a cell that is neither a time nor a number
  Blank,       \* a symbol of spaces only
  Infinite     \* "inf" is a number to to_numeric

LOCAL Tuples == INSTANCE SequencesExt

CANONICAL_COLUMNS == {"timestamp", "symbol", "open", "high", "low", "close", "volume"}
NUMERIC_COLUMNS == CANONICAL_COLUMNS \ {"timestamp", "symbol"}

\* The keys that name each canonical column, the preferred one first.
COLUMN_ALIASES ==
  [timestamp |-> <<"timestamp", "datetime", "date", "time">>, symbol |-> <<"symbol", "ticker">>,
   open |-> <<"open">>, high |-> <<"high">>, low |-> <<"low">>,
   close |-> <<"close", "adjclose", "adjustedclose">>, volume |-> <<"volume", "vol">>]
-----------------------------------------------------------------------------
(***************************************************************************)
(* _normalize_columns                                                      *)
(***************************************************************************)
Matches(columns, key) == {i \in DOMAIN columns : columns[i] = key}

\* A custom mapping: to canonical columns only, each once, from one column each.
MappingFails(columns, mapping) ==
  \/ \E i \in DOMAIN mapping :
       \/ mapping[i].target \notin CANONICAL_COLUMNS
       \/ \A c \in DOMAIN columns : Matches(columns, mapping[i].source) # {c}
  \/ \E i, j \in DOMAIN mapping : i # j /\ mapping[i].target = mapping[j].target

Mapped(mapping) == {mapping[i].target : i \in DOMAIN mapping}

\* Mutant of Candidates: the first alias in the file's order of columns.
CandidatesInFileOrder(columns, canonical) ==
  LET named == {i \in DOMAIN columns : Tuples!Contains(COLUMN_ALIASES[canonical], columns[i])}
  IN  {i \in named : \A j \in named : i <= j}

\* The columns of the first alias that has any: two of them are ambiguous.
Candidates(columns, canonical) ==
  LET aliases == COLUMN_ALIASES[canonical]
      first == Tuples!SelectInSeq(aliases, LAMBDA key : Matches(columns, key) # {})
  IN  IF first = 0 THEN {} ELSE Matches(columns, aliases[first])

\* The column of the frame that becomes the canonical one.
SourceColumn(columns, mapping, canonical) ==
  LET i == Tuples!SelectInSeq(mapping, LAMBDA entry : entry.target = canonical)
  IN  IF i # 0 THEN CHOOSE c \in Matches(columns, mapping[i].source) : TRUE
      ELSE CHOOSE c \in Candidates(columns, canonical) : TRUE

SchemaFails(columns, mapping, symbol) ==
  \/ MappingFails(columns, mapping)
  \/ \E canonical \in CANONICAL_COLUMNS \ Mapped(mapping) :
       \E c, d \in Candidates(columns, canonical) : c # d
  \/ \E canonical \in CANONICAL_COLUMNS \ Mapped(mapping) :
       /\ Candidates(columns, canonical) = {}
       /\ canonical = "symbol" => symbol = None
  \/ symbol = Blank

HasSymbol(columns, mapping) == "symbol" \in Mapped(mapping) \/ Candidates(columns, "symbol") # {}

\* A supplied symbol fills what is missing and must agree with what is there.
SymbolConflicts(frame, mapping, symbol) ==
  /\ symbol # None /\ HasSymbol(frame.columns, mapping)
  /\ \E r \in DOMAIN frame.rows :
       frame.rows[r][SourceColumn(frame.columns, mapping, "symbol")] \notin {symbol, Missing}

Canonical(frame, mapping, symbol, r) ==
  [c \in CANONICAL_COLUMNS |->
     IF c = "symbol" /\ symbol # None THEN symbol
     ELSE frame.rows[r][SourceColumn(frame.columns, mapping, c)]]
-----------------------------------------------------------------------------
\* _parse_timestamps and _parse_numeric_columns
Unparsable(row) ==
  \/ row.timestamp \in {Missing, Malformed, Infinite}
  \/ \E c \in NUMERIC_COLUMNS : row[c] \in {Missing, Malformed}

\* The order of sort_values; missing symbols come last, and are refused afterwards.
Before(a, b) ==
  \/ a.timestamp < b.timestamp
  \/ /\ a.timestamp = b.timestamp
     /\ a.symbol \notin {Missing, Blank} /\ b.symbol \notin {Missing, Blank} /\ a.symbol < b.symbol

Sorted(rows) == SortSeq(rows, Before)
-----------------------------------------------------------------------------
(***************************************************************************)
(* validate_ohlcv                                                          *)
(***************************************************************************)
Duplicated(rows) ==
  \E i, j \in DOMAIN rows : i # j /\ rows[i].symbol = rows[j].symbol /\ rows[i].timestamp = rows[j].timestamp

Chronological(rows) == \A i, j \in DOMAIN rows : i < j => rows[i].timestamp <= rows[j].timestamp

\* Prices may be zero or negative, the volume may not be negative.
BreaksRules(row) ==
  \/ row.high < row.low \/ row.high < row.open \/ row.high < row.close
  \/ row.low > row.open \/ row.low > row.close
  \/ row.volume < 0

ValidationFails(rows) ==
  \/ rows = <<>>
  \/ \E i \in DOMAIN rows : rows[i].symbol \in {Missing, Blank}
  \/ \E i \in DOMAIN rows, c \in NUMERIC_COLUMNS : rows[i][c] = Infinite
  \/ Duplicated(rows)
  \/ ~Chronological(rows)
  \/ \E i \in DOMAIN rows : BreaksRules(rows[i])
-----------------------------------------------------------------------------
Refusal(error) == [error |-> error, rows |-> <<>>]

\* load_frame, and load_csv and load_records once they have a frame: _normalize_and_validate.
LoadFrame(frame, mapping, symbol) ==
  IF SchemaFails(frame.columns, mapping, symbol) THEN Refusal("MarketDataSchemaError")
  ELSE IF SymbolConflicts(frame, mapping, symbol) THEN Refusal("MarketDataValidationError")
  ELSE LET parsed == [r \in DOMAIN frame.rows |-> Canonical(frame, mapping, symbol, r)]
       IN  IF \E r \in DOMAIN parsed : Unparsable(parsed[r]) THEN Refusal("MarketDataValidationError")
           ELSE LET rows == Sorted(parsed)
                IN  IF ValidationFails(rows) THEN Refusal("MarketDataValidationError")
                    ELSE [error |-> None, rows |-> rows]
=============================================================================
