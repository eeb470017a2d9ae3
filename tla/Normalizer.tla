------------------------------ MODULE Normalizer ------------------------------
(***************************************************************************)
(* One file of a week, from the loader to its normalized result:           *)
(* load_excel_sales, load_mpesa_csv, normalize_excel_sales,                *)
(* normalize_mpesa and the quality report.                                 *)
(*                                                                         *)
(* A cell is what the parsing helpers make of it: numbers in hundredths,   *)
(* days, texts, and None for what is empty or cannot be parsed (a balance  *)
(* that is no number counts as empty among the optional fields).  A record *)
(* is known by the row it comes from.  Headers are what _normalize_headers *)
(* makes of them, and the canonical name of a field is the field.          *)
(***************************************************************************)
EXTENDS Integers, Sequences, FiniteSets

CONSTANTS
    Sheets,     \* the files: dataset, columns and rows
    Names,      \* headers
    Aliases,    \* EXCEL_ALIASES, MPESA_ALIASES
    Phones,     \* the cells _normalize_ke_phone accepts
    Currencies, \* of three letters
    DefaultCurrency,    \* DEFAULT_CURRENCY
    Business,   \* the currency of the business, of any length
    Limit,      \* the first number, in hundredths, with more digits than the decimal context
    Cells,
    None

SheetKinds == {"excel_sales", "mpesa"}
Required == [excel_sales |-> {"date", "product", "quantity", "price"},
             mpesa |-> {"date", "code", "details"}]
Optional == [excel_sales |-> {"customer", "phone", "invoice", "channel"},
             mpesa |-> {"balance", "party", "phone"}]
Fields == {"date", "product", "quantity", "price", "total", "customer", "phone", "invoice",
           "channel", "currency", "code", "details", "paid_in", "withdrawn", "balance", "party"}

\* _parse_decimal makes a number of a cell of one of these columns, or None.
NumberFields == {"quantity", "price", "total", "paid_in", "withdrawn", "balance"}

IsSheet(s) ==
    /\ s.dataset \in SheetKinds /\ s.columns \subseteq Names
    /\ s.rows \in Seq([s.columns -> Cells])
    /\ \A i \in 1..Len(s.rows), f \in NumberFields :
           \A n \in s.columns \cap Aliases[s.dataset][f] : s.rows[i][n] \in Int \cup {None}

ASSUME NormalizerAssumption ==
    /\ \A s \in Sheets : IsSheet(s)
    /\ Aliases \in [SheetKinds -> [Fields -> SUBSET Names]]
    /\ \A d \in SheetKinds : \A f, g \in Fields : f # g => Aliases[d][f] \cap Aliases[d][g] = {}
    /\ Limit \in Nat

VARIABLES
    sheet,      \* the file
    used,       \* the columns that have a canonical name
    pass,       \* which loop is running
    reached,         \* the row the first loop is at
    records,    \* the rows that have become records
    todo,       \* the records the second loop has not reached
    kept,       \* deduped
    issues,     \* how many of each rule
    nulls,      \* optional_nulls
    unknown     \* unknown_currency_count

normalizerVars == <<sheet, used, pass, reached, records, todo, kept, issues, nulls, unknown>>

FileRules == {"file", "columns"}
RowRules == {"date", "numeric", "range", "total", "product", "direction", "code"}
Warnings == {"differs", "phone", "duplicate"}
Rules == FileRules \cup RowRules \cup Warnings

Rows == 1..Len(sheet.rows)

SheetTypeOK ==
    /\ IsSheet(sheet) /\ used \subseteq Names
    /\ pass \in {"load", "rows", "duplicates", "done", "refused", "unreadable", "raised"}
    /\ reached \in 1..(Len(sheet.rows) + 1)
    /\ records \subseteq Rows /\ todo \subseteq records /\ kept \subseteq records
    /\ issues \in [Rules -> Nat]
    /\ nulls \in Nat /\ unknown \in Nat

SheetInit ==
    /\ sheet \in Sheets /\ used = {}
    /\ pass = "load" /\ reached = 1
    /\ records = {} /\ todo = {} /\ kept = {}
    /\ issues = [rule \in Rules |-> 0]
    /\ nulls = 0 /\ unknown = 0

-----------------------------------------------------------------------------
(***************************************************************************)
(* The file as a whole.                                                    *)
(***************************************************************************)
Refused(next, rule, n) ==
    /\ pass' = next
    /\ issues' = [issues EXCEPT ![rule] = n]
    /\ UNCHANGED <<sheet, used, reached, records, todo, kept, nulls, unknown>>

\* Not there, of another type, too large, or the reader raises.
Unreadable == pass = "load" /\ Refused("unreadable", "file", 1)

Found(f) == sheet.columns \cap Aliases[sheet.dataset][f]
Missing == {f \in Required[sheet.dataset] : Found(f) = {}}

Empty == pass = "load" /\ sheet.rows = <<>> /\ Refused("refused", "file", 1)

LacksColumns ==
    /\ pass = "load" /\ sheet.rows # <<>> /\ Missing # {}
    /\ Refused("refused", "columns", Cardinality(Missing))

\* Of several names of one field found[0] is renamed, and the names come from a
\* set: any of them.  A column that had the canonical name keeps it beside.
ApplyAliasMap ==
    /\ pass = "load" /\ sheet.rows # <<>> /\ Missing = {}
    /\ \E others \in SUBSET UNION {Found(f) : f \in {g \in Fields : Cardinality(Found(g)) > 1}} :
           /\ \A f \in Fields : Found(f) # {} => Cardinality(Found(f) \ others) = 1
           /\ used' = sheet.columns \ (others \ Fields)
    /\ pass' = "rows"
    /\ UNCHANGED <<sheet, reached, records, todo, kept, issues, nulls, unknown>>

-----------------------------------------------------------------------------
(***************************************************************************)
(* A row.                                                                  *)
(***************************************************************************)
Named(f) == used \cap Found(f)
Twice(f) == \E n, m \in Named(f) : n # m

\* Two columns of one name make row.get a Series: no number, and a text that says
\* both cells and the number of the row.
RowCells(i) == [f \in Fields |->
    IF Named(f) = {} THEN None
    ELSE IF Twice(f) THEN IF f \in NumberFields THEN None ELSE <<f, i>>
    ELSE sheet.rows[i][CHOOSE n \in Named(f) : TRUE]]

\* quantity * unit_price in hundredths, ROUND_HALF_UP; neither is negative here.
Computed(c) == (c.quantity * c.price + 50) \div 100

\* The error that ends a row of sales; after it nothing else is looked at.
SalesError(c) ==
    IF c.date = None THEN "date"
    ELSE IF c.quantity = None \/ c.price = None THEN "numeric"
    ELSE IF c.quantity <= 0 \/ c.price < 0 THEN "range"
    ELSE IF c.total # None /\ c.total < 0 THEN "total"
    ELSE IF c.product = None THEN "product"
    ELSE "none"

\* The total is far off; noted before the product is looked at.
Differs(c) ==
    /\ SalesError(c) \in {"product", "none"}
    /\ c.total # None
    /\ c.total - Computed(c) > 100 \/ Computed(c) - c.total > 100

Positive(n) == n # None /\ n > 0

\* VALUE_RANGE_003 asks again what has been established.
MpesaError(c) ==
    IF c.date = None THEN "date"
    ELSE IF Positive(c.paid_in) = Positive(c.withdrawn) THEN "direction"
    ELSE IF c.code = None \/ c.details = None THEN "code"
    ELSE "none"

Error(c) == IF sheet.dataset = "excel_sales" THEN SalesError(c) ELSE MpesaError(c)

GivenCurrency(c) == IF c.currency = None THEN Business ELSE c.currency
Currency(c) == IF GivenCurrency(c) \in Currencies THEN GivenCurrency(c) ELSE DefaultCurrency
Phone(c) == IF c.phone \in Phones THEN c.phone ELSE None

SalesRecord(c) ==
    [date |-> c.date, product |-> c.product, quantity |-> c.quantity, price |-> c.price,
     total |-> IF c.total = None THEN Computed(c) ELSE c.total,
     customer |-> c.customer, phone |-> Phone(c), invoice |-> c.invoice,
     channel |-> c.channel, currency |-> Currency(c)]

Incoming(c) == Positive(c.paid_in)

MpesaRecord(c) ==
    [date |-> c.date, code |-> c.code, details |-> c.details,
     direction |-> IF Incoming(c) THEN "in" ELSE "out",
     amount |-> IF Incoming(c) THEN c.paid_in ELSE c.withdrawn,
     balance |-> c.balance, party |-> c.party, phone |-> Phone(c)]

Record(c) == IF sheet.dataset = "excel_sales" THEN SalesRecord(c) ELSE MpesaRecord(c)

\* dedupe_keys; a record of M-Pesa always has a code, so that its other key is
\* never used.
Key(r) == IF sheet.dataset = "excel_sales" THEN <<r.date, r.product, r.invoice, r.total>>
          ELSE r.code

Valid(i) == Error(RowCells(i)) = "none"
KeyOf(i) == Key(Record(RowCells(i)))

\* Plausible slip: a negative total is noted, and the row goes on.
RaisedOn(c) ==
    ({Error(c)} \ {"none"})
        \cup (IF Error(c) = "total" /\ c.product = None THEN {"product"} ELSE {})

\* What a row raises.  A phone is looked at if there is such a column: an empty
\* cell of it is not None but NaN, and counts as one that cannot be normalized.
Raised(c) ==
    ({Error(c)} \ {"none"})
        \cup (IF sheet.dataset = "excel_sales" /\ Differs(c) THEN {"differs"} ELSE {})
        \cup (IF Error(c) = "none" /\ Found("phone") # {} /\ Phone(c) = None THEN {"phone"} ELSE {})

\* quantize raises for a number of too many digits, and a Series has no truth:
\* nobody catches either.
TooLong(n) == n # None /\ (n >= Limit \/ n <= -Limit)
Raises(c) ==
    \/ Twice("date")
    \/ /\ c.date # None
       /\ IF sheet.dataset = "excel_sales"
          THEN \/ TooLong(c.quantity) \/ TooLong(c.price) \/ TooLong(c.total)
               \/ SalesError(c) \notin {"numeric", "range"} /\ TooLong(Computed(c))
          ELSE \/ TooLong(c.paid_in) \/ TooLong(c.withdrawn)
               \/ MpesaError(c) = "none" /\ TooLong(c.balance)

\* The loader and its callers have no report of the file then.
RowRaises ==
    /\ pass = "rows" /\ reached \in Rows /\ Raises(RowCells(reached))
    /\ pass' = "raised"
    /\ UNCHANGED <<sheet, used, reached, records, todo, kept, issues, nulls, unknown>>

ReadRow ==
    LET c == RowCells(reached)
    IN  /\ pass = "rows" /\ reached \in Rows /\ ~Raises(c)
        /\ issues' = [rule \in Rules |-> issues[rule] + (IF rule \in Raised(c) THEN 1 ELSE 0)]
        /\ records' = IF Valid(reached) THEN records \cup {reached} ELSE records
        /\ nulls' = nulls + IF Valid(reached)
                            THEN Cardinality({f \in Optional[sheet.dataset] : c[f] = None})
                            ELSE 0
        /\ unknown' = unknown + IF /\ Valid(reached) /\ sheet.dataset = "excel_sales"
                                   /\ GivenCurrency(c) \notin Currencies
                                THEN 1 ELSE 0
        /\ reached' = reached + 1
        /\ UNCHANGED <<sheet, used, pass, todo, kept>>

AllRead ==
    /\ pass = "rows" /\ reached \notin Rows
    /\ pass' = "duplicates" /\ todo' = records
    /\ UNCHANGED <<sheet, used, reached, records, kept, issues, nulls, unknown>>

-----------------------------------------------------------------------------
(***************************************************************************)
(* The records, in the order of their rows.                                *)
(***************************************************************************)

\* Plausible slip: only the last record that was kept is compared.
SeenLast(i) == \E k \in kept : KeyOf(k) = KeyOf(i) /\ \A l \in kept : l <= k
Seen(i) == \E k \in kept : KeyOf(k) = KeyOf(i)

Deduplicate ==
    /\ pass = "duplicates"
    /\ \E i \in todo :
           /\ \A j \in todo : i <= j
           /\ todo' = todo \ {i}
           /\ \/ /\ Seen(i)
                 /\ issues' = [issues EXCEPT !["duplicate"] = @ + 1]
                 /\ kept' = kept
              \/ /\ ~Seen(i)
                 /\ kept' = kept \cup {i}
                 /\ issues' = issues
    /\ UNCHANGED <<sheet, used, pass, reached, records, nulls, unknown>>

Finish ==
    /\ pass = "duplicates" /\ todo = {}
    /\ pass' = "done"
    /\ UNCHANGED <<sheet, used, reached, records, todo, kept, issues, nulls, unknown>>

NormalizerNext == \/ Unreadable \/ Empty \/ LacksColumns \/ ApplyAliasMap
        \/ RowRaises \/ ReadRow \/ AllRead \/ Deduplicate \/ Finish

NormalizerSpec == SheetInit /\ [][NormalizerNext]_normalizerVars

-----------------------------------------------------------------------------
(***************************************************************************)
(* _derive_quality, and the constant report of a file that was not read.   *)
(***************************************************************************)
RowErrors == issues["date"] + issues["numeric"] + issues["range"] + issues["total"]
                 + issues["product"] + issues["direction"] + issues["code"]
ErrorCount == issues["file"] + issues["columns"] + RowErrors
WarningCount == issues["differs"] + issues["phone"] + issues["duplicate"]
RowCount == IF pass = "unreadable" THEN 0 ELSE Len(sheet.rows)

\* A rate above percent / 100; no rate of nothing.
Above(part, whole, percent) == whole > 0 /\ 100 * part > percent * whole
If(condition, penalty) == IF condition THEN penalty ELSE 0

\* With no record the rate of empty optional fields is 1.
OptionalCells == Cardinality(records) * Cardinality(Optional[sheet.dataset])
Penalty ==
    If(issues["columns"] > 0, 20) + If(issues["file"] > 0, 20)
      + If(Above(issues["date"], RowCount, 20), 20)
      + 5 * issues["numeric"] + If(Above(issues["duplicate"], RowCount, 5), 5)
      + If(unknown > 0, 5)
      + If(records = {} \/ Above(nulls, OptionalCells, 60), 1) + issues["phone"]
Score == IF pass = "unreadable" THEN 80 ELSE IF Penalty > 100 THEN 0 ELSE 100 - Penalty
Band == IF Score >= 90 THEN "High" ELSE IF Score >= 70 THEN "Medium" ELSE "Low"

-----------------------------------------------------------------------------
(***************************************************************************)
(* Properties.                                                             *)
(***************************************************************************)

\* "Invalid rows excluded from metrics; exclusion counts must be reported": every
\* row of a file that has a report is one valid row, one error or one duplicate of
\* it, whatever is wrong with the row and however often, and whichever columns
\* were taken.
Accounting ==
    /\ pass = "done" => RowCount = Cardinality(kept) + ErrorCount + issues["duplicate"]
    /\ pass \in {"refused", "unreadable"} => kept = {} /\ ErrorCount > 0 /\ Band # "High"

\* What is kept of a file that was read is the first of the valid rows of each
\* key, whichever of several columns of one meaning was taken.
FirstOfEach ==
    pass = "done" =>
        kept = {i \in Rows : Valid(i) /\ \A j \in 1..(i - 1) : Valid(j) => KeyOf(j) # KeyOf(i)}
=============================================================================
