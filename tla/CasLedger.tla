----------------------------- MODULE CasLedger -----------------------------
(***************************************************************************)
(* What an uploaded statement leaves in a portfolio (tasks/mf.py, mf/cas.py, *)
(* mf/ledger.py, mf/projection.py, mf/valuation.py): rows of the append-   *)
(* only ledger, holdings projected from it, checkpoints, and the series of *)
(* daily values, which the nightly task extends.                           *)
(*                                                                         *)
(* One fund, whose unit is always worth one rupee.  The batch worker runs  *)
(* one upload or nightly task at a time; an upload commits four times, and *)
(* may die in between.  Which statement is uploaded is free; its contents  *)
(* follow from the investor's transactions, as the fund house knows them.  *)
(***************************************************************************)
EXTENDS Integers, FiniteSets, FiniteSetsExt

CONSTANTS
  Txns,              \* the investor's transactions in the fund
  Folio, Day, Units, \* of each: its folio, its day, its signed units
  Row,               \* of each: one whose printed row is the same in every field
  NatKey,            \* of each: one that has the same natural key: units and amount are rounded
  Unlisted,          \* those of a type that no parser keeps: bonus units, splits
  Statements,        \* what can be downloaded
  Blank,             \* the folio of a print that names none
  MaxDay             \* bound: days

Folios == {Folio[t] : t \in Txns}

Kinds == {"cas", "cdsl", "txt", "xls"}

\* A CDSL statement lists no transactions, and it alone omits folios; a CAMS transaction
\* statement has the whole history, and names funds by a code that may not be resolved.
ASSUME LedgerAssumption ==
  /\ MaxDay \in Nat \ {0}
  /\ Day \in [Txns -> 1..MaxDay] /\ DOMAIN Folio = Txns /\ Blank \notin Folios
  /\ Row \in [Txns -> Txns] /\ NatKey \in [Txns -> Txns]
  /\ \A t \in Txns : NatKey[Row[t]] = NatKey[t] /\ Row[Row[t]] = Row[t]
  /\ \A t, u \in Txns : NatKey[t] = NatKey[u] => Folio[t] = Folio[u] /\ Day[t] = Day[u]
  /\ Statements \subseteq [kind : Kinds, from : 1..MaxDay, to : 1..MaxDay,
                           folios : SUBSET Folios, blanks : SUBSET Folios,
                           resolved : BOOLEAN]
  /\ \A st \in Statements :
       /\ st.blanks # {} => st.kind = "cdsl"
       /\ ~st.resolved => st.kind \in {"txt", "xls"}
       /\ st.kind \in {"txt", "xls"} => st.from = 1
  /\ IsFiniteSet(Txns)

VARIABLES
  today,
  ledger,    \* its rows: the format family and the printed transaction
  holdings,  \* from stored keys to their units and what their basis is
  flagged,   \* keys whose latest checkpoint is a mismatch
  series,    \* from the days that have a row to the portfolio's value
  step,      \* what the upload under way does next
  parsed,    \* its holdings
  seen,      \* ghost: statements whose rows have been appended
  cut        \* ghost: an upload died, and none has run through since

ledger_vars == <<today, ledger, holdings, flagged, series, step, parsed, seen, cut>>

Keys == [fund : {"isin", "placeholder"}, folio : Folios \cup {Blank}]

KeyOf(p) == [fund |-> p.fund, folio |-> p.folio]

SumUnits(S) == MapThenSumSet(LAMBDA t : Units[t], S)

\* parser_version, without its number: by the file's extension.
Family(st) == IF st.kind \in {"cas", "cdsl"} THEN "pdf" ELSE st.kind

-----------------------------------------------------------------------------

Listed(st, f) ==
  IF st.kind = "cdsl" THEN {}
  ELSE {t \in Txns \ Unlisted : Folio[t] = f /\ Day[t] \in st.from..st.to}

\* The fund house's closing balance; a transaction statement has none, and is added up.
Stated(st, f) ==
  IF Family(st) = "pdf"
  THEN SumUnits({t \in Txns : Folio[t] = f /\ Day[t] <= st.to})
  ELSE SumUnits(Listed(st, f))

\* parse_cas and the CAMS parsers: a holding for each folio that had been opened.
Prints(st) ==
  {[fund  |-> IF st.resolved THEN "isin" ELSE "placeholder",
    folio |-> IF f \in st.blanks THEN Blank ELSE f,
    units |-> Stated(st, f), txns |-> Listed(st, f)] :
     f \in {g \in st.folios : \E t \in Txns : Folio[t] = g /\ Day[t] <= st.to}}

\* The folios under which p's fund is printed in this batch or stored.
RealFolios(p, prints) ==
  {k.folio : k \in {j \in {KeyOf(q) : q \in prints} \cup DOMAIN holdings :
                      j.fund = p.fund /\ j.folio # Blank}}

\* Mutant: the portfolio's stored holdings are not asked.
ResolveInBatch(prints) ==
  LET folios(p) == {q.folio : q \in {o \in prints : o.folio # Blank}}
  IN  {p \in prints : p.folio # Blank \/ folios(p) = {}} \cup
      {[p EXCEPT !.folio = CHOOSE f \in folios(p) : TRUE] :
         p \in {q \in prints : q.folio = Blank /\ Cardinality(folios(q)) = 1}}

\* A print without a folio takes the only one known, stays if there is none, and is
\* dropped if there are several.
ResolveBlanks(prints) ==
  {p \in prints : p.folio # Blank \/ RealFolios(p, prints) = {}} \cup
  {[p EXCEPT !.folio = CHOOSE f \in RealFolios(p, prints) : TRUE] :
     p \in {q \in prints : q.folio = Blank /\ \E f \in Folios : RealFolios(q, prints) = {f}}}

\* A placeholder goes when the same folio and units are there under the fund's ISIN.
Suppress(prints) ==
  {p \in prints : p.fund = "isin" \/ ~
     \/ \E q \in prints : q.fund = "isin" /\ q.folio = p.folio /\ q.units = p.units
     \/ \E k \in DOMAIN holdings :
          k.fund = "isin" /\ k.folio = p.folio /\ holdings[k].units = p.units}

\* Mutant: rows that are printed alike stay apart.
RawRows(st, prints) ==
  {[family |-> Family(st), txn |-> t] :
     t \in UNION {p.txns : p \in {q \in prints : q.fund = "isin"}}}

\* build_cas_ledger_rows, for the holdings of a resolved fund.
Rows(st, prints) ==
  {[family |-> Family(st), txn |-> Row[t]] :
     t \in UNION {p.txns : p \in {q \in prints : q.fund = "isin"}}}

\* Mutant: only the exact hash keeps a transaction from being counted twice.
HashOnly(rows) == rows

\* Mutant: rows with one natural key are merged within a batch, too.
MergeTwins(rows) ==
  LET fresh == {r \in rows : ~ \E s \in ledger : s.family # r.family
                                            /\ NatKey[s.txn] = NatKey[r.txn]}
  IN  {CHOOSE r \in fresh \ ledger : NatKey[r.txn] = n :
         n \in {NatKey[r.txn] : r \in fresh \ ledger}}

\* append_transactions: a row goes when another family has one with its natural key; one
\* with a stored row's exact hash does nothing.
NewRows(rows) ==
  {r \in rows : ~ \E s \in ledger : s.family # r.family /\ NatKey[s.txn] = NatKey[r.txn]}

\* What the ledger adds up to on day d: in a folio, and in all.
RowUnits(S) == MapThenSumSet(LAMBDA r : Units[r.txn], S)

LedgerUnits(f, d) == RowUnits({r \in ledger : Folio[r.txn] = f /\ Day[r.txn] <= d})

LedgerValue(d) ==
  LET units == RowUnits({r \in ledger : Day[r.txn] <= d}) IN IF units > 0 THEN units ELSE 0

\* compute_daily_value, of stored holdings: a placeholder has no price.
Worth(stored) ==
  MapThenSumSet(LAMBDA k : stored[k].units,
                {k \in DOMAIN stored : k.fund = "isin" /\ stored[k].units > 0})

HoldingsValue == Worth(holdings)

HasRows(k) == \E r \in ledger : k.fund = "isin" /\ Folio[r.txn] = k.folio

-----------------------------------------------------------------------------

LedgerInit ==
  /\ today = 1 /\ ledger = {} /\ holdings = <<>> /\ flagged = {} /\ series = <<>>
  /\ step = "idle" /\ parsed = {} /\ seen = {} /\ cut = FALSE

\* A statement is parsed, and its rows are committed.
AppendRows(st) ==
  /\ step = "idle" /\ st.to <= today
  /\ parsed' = Suppress(ResolveBlanks(Prints(st)))
  /\ ledger' = ledger \cup NewRows(Rows(st, parsed'))
  /\ seen' = seen \cup {st}
  /\ step' = "project"
  /\ UNCHANGED <<today, holdings, flagged, series, cut>>

\* Holdings are upserted one after the other: from the ledger when it adds up to the
\* stated units, which they have in either case; the last print of a key stays.
ProjectHoldings ==
  /\ step = "project"
  /\ LET keys == {KeyOf(p) : p \in parsed}
     IN  \E last \in [keys -> parsed] :
           /\ \A k \in keys : KeyOf(last[k]) = k
           /\ holdings' = [k \in DOMAIN holdings \cup keys |->
                IF k \notin keys THEN holdings[k]
                ELSE [units |-> last[k].units,
                      basis |-> IF HasRows(k) /\ LedgerUnits(k.folio, MaxDay) = last[k].units
                                THEN "ledger" ELSE "statement"]]
  /\ step' = "check"
  /\ UNCHANGED <<today, ledger, flagged, series, parsed, seen, cut>>

\* The checkpoints; SIP days, which go with them, are left out.
Check ==
  /\ step = "check"
  /\ flagged' = (flagged \ {KeyOf(p) : p \in parsed}) \cup
       {KeyOf(p) : p \in {q \in parsed : HasRows(KeyOf(q))
                            /\ LedgerUnits(q.folio, MaxDay) # q.units}}
  /\ step' = "reset"
  /\ UNCHANGED <<today, ledger, holdings, series, parsed, seen, cut>>

\* Mutant: what the nightly task has written stays.
ResetMissingDays ==
  /\ step = "reset"
  /\ series' = [d \in {Day[r.txn] : r \in ledger} \cup {today} \cup DOMAIN series |->
                 IF d \in DOMAIN series THEN series[d] ELSE LedgerValue(d)]
  /\ step' = "idle" /\ parsed' = {} /\ cut' = FALSE
  /\ UNCHANGED <<today, ledger, holdings, flagged, seen>>

\* The series is deleted, and replayed from the ledger's first day; without a ledger,
\* today's row is all there is.
ResetSeries ==
  /\ step = "reset"
  /\ series' =
       IF ledger # {}
       THEN [d \in {e \in 1..today : \E r \in ledger : Day[r.txn] <= e} |-> LedgerValue(d)]
       ELSE [d \in {today : k \in DOMAIN holdings} |-> HoldingsValue]
  /\ step' = "idle" /\ parsed' = {} /\ cut' = FALSE
  /\ UNCHANGED <<today, ledger, holdings, flagged, seen>>

\* An error, or the worker's death: what has been committed stays.
UploadDies ==
  /\ step # "idle"
  /\ step' = "idle" /\ parsed' = {} /\ cut' = TRUE
  /\ UNCHANGED <<today, ledger, holdings, flagged, series, seen>>

\* compute_portfolio_daily_valuations upserts today's row, from the holdings.
Nightly ==
  /\ step = "idle" /\ DOMAIN holdings # {}
  /\ series' = [d \in DOMAIN series \cup {today} |->
                 IF d = today THEN HoldingsValue ELSE series[d]]
  /\ UNCHANGED <<today, ledger, holdings, flagged, step, parsed, seen, cut>>

NewDay ==
  /\ today < MaxDay
  /\ today' = today + 1
  /\ UNCHANGED <<ledger, holdings, flagged, series, step, parsed, seen, cut>>

LedgerNext ==
  \/ \E st \in Statements : AppendRows(st)
  \/ ProjectHoldings \/ Check \/ ResetSeries \/ UploadDies
  \/ Nightly \/ NewDay

LedgerSpec == LedgerInit /\ [][LedgerNext]_ledger_vars

-----------------------------------------------------------------------------

LedgerTypeOK ==
  /\ today \in 1..MaxDay
  /\ ledger \subseteq [family : {"pdf", "txt", "xls"}, txn : {Row[t] : t \in Txns}]
  /\ DOMAIN holdings \subseteq Keys
  /\ \A k \in DOMAIN holdings :
       holdings[k] \in [units : {holdings[k].units}, basis : {"ledger", "statement"}]
  /\ flagged \subseteq Keys
  /\ DOMAIN series \subseteq 1..today
  /\ step \in {"idle", "project", "check", "reset"}
  /\ \A p \in parsed : KeyOf(p) \in Keys
  /\ seen \subseteq Statements
  /\ cut \in BOOLEAN

\* "The same real transaction re-printed by a second format/rail merges to ONE row, while a
\* SAME-family natural-key match is left alone", ledger.py append_transactions: whatever is
\* uploaded, in whichever order and however often, no transaction has more rows than it was
\* made, and yet near twins keep a row each.
NoDoubleCount ==
  \A n \in Txns : Cardinality({r \in ledger : NatKey[r.txn] = n})
                    <= Cardinality({Row[t] : t \in {u \in Txns : NatKey[u] = n}})

\* Uploading a statement again adds no row, no matter what was uploaded in between or where
\* its first upload died: the ledger only ever grows by what no statement has shown before.
ReuploadAddsNothing ==
  [][\A st \in seen : AppendRows(st) => ledger' = ledger]_ledger_vars

\* Once a position is stored under a folio, no upload stores it a second time without one;
\* an upload that died after appending its rows has stored nothing yet, and a position that
\* was first printed without a folio stays beside the one printed with it.
NoSecondPrint ==
  [][\A k \in DOMAIN holdings' \ DOMAIN holdings :
       k.folio = Blank => ~ \E j \in DOMAIN holdings' : j.fund = k.fund /\ j.folio # Blank]_ledger_vars

\* The replayed series and the nightly rows have different sources, the ledger and the
\* holdings.  When they agree now, and the last upload ran through, all rows tell the
\* ledger's story: a statement's late transactions change the rows of days gone by.
SeriesAgrees ==
  /\ step = "idle" /\ ~cut /\ ledger # {}
  /\ HoldingsValue = LedgerValue(MaxDay)
  => \A d \in DOMAIN series : series[d] = LedgerValue(d)

\* What a statement lists of funds that are resolved, as rows, whatever is stored.
ListedRows(st) ==
  IF st.resolved
  THEN {[family |-> Family(st), txn |-> Row[t]] :
          t \in {u \in Txns : Folio[u] \in st.folios /\ u \in Listed(st, Folio[u])}}
  ELSE {}

\* Nothing that is listed is lost, and nothing is made up: of every transaction, near twins
\* included, the ledger has exactly the rows that the statements so far list in one of the
\* formats.  The order of uploads decides which format that is, and no more; nor do their
\* overlaps and repetitions, or where one of them died.
LedgerTellsStatements ==
  \A n \in Txns : \E format \in {"pdf", "txt", "xls"} :
    {r \in ledger : NatKey[r.txn] = n} =
      {r \in UNION {ListedRows(st) : st \in seen} : NatKey[r.txn] = n /\ r.family = format}
=============================================================================
