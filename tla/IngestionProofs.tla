---------------------------- MODULE IngestionProofs ----------------------------
(***************************************************************************)
(* Theorems of WeeklyPayloads, for any requests, ranges, files and windows,*)
(* and of Normalizer, for any sheets, alias tables, cells and currencies,  *)
(* and whichever of several columns of one meaning is taken.               *)
(***************************************************************************)
EXTENDS WeeklyPayloads, Normalizer, SumTheorems

(***************************************************************************)
(* Normalizer.                                                             *)
(***************************************************************************)

\* A row ends with one error of a row, or with none.
LEMMA OneError == \A c : Error(c) \in RowRules \cup {"none"}
<1> SUFFICES ASSUME NEW c PROVE Error(c) \in RowRules \cup {"none"}
  OBVIOUS
<1>1. SalesError(c) \in {"date", "numeric", "range", "total", "product", "none"}
  BY DEF SalesError
<1>2. MpesaError(c) \in {"date", "direction", "code", "none"}
  BY DEF MpesaError
<1> QED
  BY <1>1, <1>2 DEF Error, RowRules

\* Three or four fields are finitely many.
LEMMA FewFields ==
    ASSUME NEW a, NEW b, NEW c, NEW d
    PROVE  IsFiniteSet({a, b, c}) /\ IsFiniteSet({a, b, c, d})
<1>1. IsFiniteSet({})
  BY FS_EmptySet
<1>2. IsFiniteSet({} \cup {a})
  BY <1>1, FS_AddElement
<1>3. IsFiniteSet(({} \cup {a}) \cup {b})
  BY <1>2, FS_AddElement
<1>4. IsFiniteSet((({} \cup {a}) \cup {b}) \cup {c})
  BY <1>3, FS_AddElement
<1>5. IsFiniteSet(((({} \cup {a}) \cup {b}) \cup {c}) \cup {d})
  BY <1>4, FS_AddElement
<1>6. /\ (({} \cup {a}) \cup {b}) \cup {c} = {a, b, c}
      /\ ((({} \cup {a}) \cup {b}) \cup {c}) \cup {d} = {a, b, c, d}
  OBVIOUS
<1> QED
  BY <1>4, <1>5, <1>6

LEMMA FiniteFields ==
    SheetTypeOK => IsFiniteSet(Required[sheet.dataset]) /\ IsFiniteSet(Optional[sheet.dataset])
<1>1. /\ IsFiniteSet({"date", "product", "quantity", "price"})
      /\ IsFiniteSet({"date", "code", "details"})
      /\ IsFiniteSet({"customer", "phone", "invoice", "channel"})
      /\ IsFiniteSet({"balance", "party", "phone"})
  BY FewFields
<1>2. SheetTypeOK => sheet.dataset \in {"excel_sales", "mpesa"}
  BY DEF SheetTypeOK, IsSheet, SheetKinds
<1> QED
  BY <1>1, <1>2 DEF Required, Optional

LEMMA SheetRows == SheetTypeOK => Len(sheet.rows) \in Nat
BY DEF SheetTypeOK, IsSheet

LEMMA InitType == SheetInit => SheetTypeOK
<1> SUFFICES ASSUME SheetInit PROVE SheetTypeOK
  OBVIOUS
<1>1. IsSheet(sheet)
  BY NormalizerAssumption DEF SheetInit
<1>2. Len(sheet.rows) \in Nat
  BY <1>1 DEF IsSheet
<1> QED
  BY <1>1, <1>2 DEF SheetInit, SheetTypeOK

LEMMA SheetTypeStep == SheetTypeOK /\ [NormalizerNext]_normalizerVars => SheetTypeOK'
<1> SUFFICES ASSUME SheetTypeOK, [NormalizerNext]_normalizerVars PROVE SheetTypeOK'
  OBVIOUS
<1>0. Len(sheet.rows) \in Nat
  BY SheetRows
<1> USE DEF SheetTypeOK, Rows
<1>1. CASE Unreadable \/ Empty \/ LacksColumns
  <2>1. PICK next \in {"refused", "unreadable"}, rule \in FileRules, n \in Nat : Refused(next, rule, n)
    <3>1. Cardinality(Missing) \in Nat
      <4>1. IsFiniteSet(Missing)
        <5>1. IsFiniteSet(Required[sheet.dataset])
          BY FiniteFields
        <5> QED
          BY <5>1, FS_Subset DEF Missing
      <4> QED
        BY <4>1, FS_CardinalityType
    <3> QED
      BY <1>1, <3>1 DEF Unreadable, Empty, LacksColumns, FileRules
  <2>2. issues' \in [Rules -> Nat]
    BY <2>1 DEF Refused
  <2> QED
    BY <2>1, <2>2 DEF Refused
<1>2. CASE ApplyAliasMap
  <2>1. used' \subseteq Names
    BY <1>2 DEF ApplyAliasMap, IsSheet
  <2> QED
    BY <1>2, <2>1 DEF ApplyAliasMap
<1>7. CASE RowRaises
  BY <1>7 DEF RowRaises
<1>3. CASE ReadRow
  <2> DEFINE c == RowCells(reached)
  <2>1. issues' \in [Rules -> Nat]
    BY <1>3 DEF ReadRow
  <2>2. nulls' \in Nat
    <3>1. IsFiniteSet(Optional[sheet.dataset])
      BY FiniteFields
    <3>2. Cardinality({f \in Optional[sheet.dataset] : c[f] = None}) \in Nat
      BY <3>1, FS_Subset, FS_CardinalityType
    <3> QED
      BY <1>3, <3>2 DEF ReadRow
  <2>3. unknown' \in Nat
    BY <1>3 DEF ReadRow
  <2>4. reached \in Rows /\ reached' = reached + 1 /\ records' \subseteq Rows /\ UNCHANGED <<sheet, used, pass, todo, kept>>
    BY <1>3 DEF ReadRow
  <2>5. records \subseteq records'
    BY <1>3 DEF ReadRow
  <2> QED
    BY <1>0, <2>1, <2>2, <2>3, <2>4, <2>5
<1>4. CASE AllRead \/ Finish
  BY <1>4 DEF AllRead, Finish
<1>5. CASE Deduplicate
  <2>1. issues' \in [Rules -> Nat]
    BY <1>5 DEF Deduplicate, Rules, Warnings
  <2> QED
    BY <1>5, <2>1 DEF Deduplicate
<1>6. CASE UNCHANGED normalizerVars
  BY <1>6 DEF normalizerVars
<1> QED
  BY <1>1, <1>2, <1>3, <1>4, <1>5, <1>6, <1>7 DEF NormalizerNext

\* Every variable keeps its type: what is kept is among the records, and these are
\* rows of the file.
THEOREM SheetTypeCorrect == NormalizerSpec => []SheetTypeOK
BY InitType, SheetTypeStep, PTL DEF NormalizerSpec

-----------------------------------------------------------------------------
\* The records are the valid rows that have been read; the second loop keeps the
\* first of each key and leaves no key out.
ValidUpTo(n) == {i \in 1..n : Valid(i)}

SplitInv ==
    /\ pass = "load" => records = {} /\ todo = {} /\ kept = {} /\ reached = 1
    /\ pass = "rows" => records = ValidUpTo(reached - 1) /\ todo = {} /\ kept = {}
    /\ pass \in {"duplicates", "done"} =>
           /\ reached = Len(sheet.rows) + 1
           /\ records = ValidUpTo(Len(sheet.rows))
           /\ \A i \in records \ todo, j \in todo : i < j
           /\ kept = {i \in records \ todo : \A j \in records : j < i => KeyOf(j) # KeyOf(i)}
           /\ \A j \in records \ todo : \E k \in kept : k <= j /\ KeyOf(k) = KeyOf(j)
    /\ pass = "done" => todo = {}
    /\ pass \in {"refused", "unreadable"} => kept = {}

LEMMA SplitStep == SheetTypeOK /\ SplitInv /\ [NormalizerNext]_normalizerVars => SplitInv'
<1> SUFFICES ASSUME SheetTypeOK, SplitInv, [NormalizerNext]_normalizerVars PROVE SplitInv'
  OBVIOUS
<1>0. Len(sheet.rows) \in Nat /\ reached \in Nat
  BY SheetRows DEF SheetTypeOK
<1>1. CASE Unreadable \/ Empty \/ LacksColumns
  BY <1>1 DEF Unreadable, Empty, LacksColumns, Refused, SplitInv
<1>2. CASE ApplyAliasMap
  <2>1. ValidUpTo(reached - 1)' = {}
    BY <1>0, <1>2 DEF ApplyAliasMap, SplitInv, ValidUpTo
  <2> QED
    BY <1>2, <2>1 DEF ApplyAliasMap, SplitInv
<1>same. ASSUME UNCHANGED <<sheet, used>>
         PROVE  /\ \A i : Valid(i)' <=> Valid(i)
                /\ \A i : KeyOf(i)' = KeyOf(i)
                /\ \A n : ValidUpTo(n)' = ValidUpTo(n)
  BY <1>same DEF Valid, KeyOf, ValidUpTo, Error, RowCells, Named, Twice, Found, Key, Record
<1>8. CASE RowRaises
  BY <1>8 DEF RowRaises, SplitInv
<1>3. CASE ReadRow
  <2>1. /\ pass = "rows" /\ reached \in Rows /\ reached' = reached + 1 /\ UNCHANGED <<sheet, used, pass, todo, kept>>
        /\ records' = IF Valid(reached) THEN records \cup {reached} ELSE records
    BY <1>3 DEF ReadRow
  <2>2. 1..reached = 1..(reached - 1) \cup {reached}
    BY <1>0, <2>1 DEF Rows
  <2>3. records' = ValidUpTo(reached)
    BY <2>1, <2>2 DEF SplitInv, ValidUpTo
  <2>4. reached' - 1 = reached
    BY <1>0, <2>1
  <2>5. records' = {i \in 1..(reached' - 1) : Valid(i)'}
    BY <1>same, <2>1, <2>3, <2>4 DEF ValidUpTo
  <2>6. records' = ValidUpTo(reached - 1)'
    BY <2>5 DEF ValidUpTo
  <2> QED
    BY <2>1, <2>6 DEF SplitInv
<1>4. CASE AllRead
  <2>1. reached = Len(sheet.rows) + 1
    BY <1>0, <1>4 DEF AllRead, Rows, SheetTypeOK
  <2>2. records = ValidUpTo(Len(sheet.rows)) /\ kept = {}
    BY <1>0, <1>4, <2>1 DEF AllRead, SplitInv
  <2> QED
    BY <1>4, <1>same, <2>1, <2>2 DEF AllRead, SplitInv
<1>5. CASE Deduplicate
  <2>1. PICK i \in todo : /\ \A j \in todo : i <= j
                          /\ todo' = todo \ {i}
                          /\ \/ Seen(i) /\ kept' = kept
                             \/ ~Seen(i) /\ kept' = kept \cup {i}
    BY <1>5 DEF Deduplicate
  <2>2. pass = "duplicates" /\ UNCHANGED <<sheet, used, pass, reached, records>>
    BY <1>5 DEF Deduplicate
  <2>3. records \subseteq Nat /\ i \in records /\ todo \subseteq records
    BY <1>0 DEF SheetTypeOK, Rows
  <2>4. \A a \in records \ todo' : a \in records \ todo \/ a = i
    BY <2>1
  <2>5. \A a \in records \ todo : a < i
    BY <2>1, <2>2 DEF SplitInv
  <2>6. \A a \in records \ todo', b \in todo' : a < b
    BY <2>1, <2>2, <2>3, <2>4 DEF SplitInv
  <2>7. \A a \in records : a < i => a \in records \ todo
    BY <2>1, <2>3
  <2>8. Seen(i) <=> \E j \in records : j < i /\ KeyOf(j) = KeyOf(i)
    <3>1. ASSUME Seen(i) PROVE \E j \in records : j < i /\ KeyOf(j) = KeyOf(i)
      BY <2>2, <2>5, <3>1 DEF Seen, SplitInv
    <3>2. ASSUME NEW j \in records, j < i, KeyOf(j) = KeyOf(i) PROVE Seen(i)
      BY <2>2, <2>7, <3>2 DEF Seen, SplitInv
    <3> QED
      BY <3>1, <3>2
  <2>9. kept' = {a \in records \ todo' : \A j \in records : j < a => KeyOf(j) # KeyOf(a)}
    BY <2>1, <2>2, <2>3, <2>4, <2>8 DEF SplitInv
  <2>10. \A a \in records \ todo' : \E k \in kept' : k <= a /\ KeyOf(k) = KeyOf(a)
    <3>1. ASSUME NEW a \in records \ todo PROVE \E k \in kept' : k <= a /\ KeyOf(k) = KeyOf(a)
      BY <2>1, <2>2, <3>1 DEF SplitInv
    <3>2. \E k \in kept' : k <= i /\ KeyOf(k) = KeyOf(i)
      <4>1. CASE Seen(i)
        <5>1. PICK k \in kept : KeyOf(k) = KeyOf(i)
          BY <4>1 DEF Seen
        <5>2. k < i /\ k \in Nat /\ i \in Nat
          BY <2>2, <2>3, <2>5 DEF SplitInv
        <5> QED
          BY <2>1, <4>1, <5>1, <5>2
      <4>2. CASE ~Seen(i)
        BY <2>1, <2>3, <4>2
      <4> QED
        BY <4>1, <4>2
    <3> QED
      BY <2>4, <3>1, <3>2
  <2>11. reached' = Len(sheet.rows)' + 1 /\ records' = ValidUpTo(Len(sheet.rows))'
    BY <1>same, <2>2 DEF SplitInv
  <2>12. \A a : KeyOf(a)' = KeyOf(a)
    BY <1>same, <2>2
  <2>13. pass' = "duplicates" /\ records' = records
    BY <2>2
  <2> HIDE DEF KeyOf
  <2> QED
    BY <2>6, <2>9, <2>10, <2>11, <2>12, <2>13 DEF SplitInv
<1>6. CASE Finish
  BY <1>6, <1>same DEF Finish, SplitInv
<1>7. CASE UNCHANGED normalizerVars
  BY <1>7, <1>same DEF normalizerVars, SplitInv
<1> QED
  BY <1>1, <1>2, <1>3, <1>4, <1>5, <1>6, <1>7, <1>8 DEF NormalizerNext

LEMMA SplitCorrect == NormalizerSpec => []SplitInv
<1>1. SheetInit => SplitInv
  BY DEF SheetInit, SplitInv
<1>2. NormalizerSpec => []SheetTypeOK
  BY SheetTypeCorrect
<1> QED
  BY <1>1, <1>2, SplitStep, PTL DEF NormalizerSpec

\* Of every file that is read, the first valid row of each key is kept and nothing
\* else.
THEOREM FirstTheorem == NormalizerSpec => []FirstOfEach
<1>1. SheetTypeOK /\ SplitInv => FirstOfEach
  <2> SUFFICES ASSUME SheetTypeOK, SplitInv, pass = "done"
               PROVE  kept = {i \in Rows : Valid(i) /\ \A j \in 1..(i - 1) : Valid(j) => KeyOf(j) # KeyOf(i)}
    BY DEF FirstOfEach
  <2>0. Len(sheet.rows) \in Nat
    BY SheetRows
  <2>1. records = {i \in Rows : Valid(i)}
    BY DEF SplitInv, ValidUpTo, Rows
  <2>2. kept = {i \in records : \A j \in records : j < i => KeyOf(j) # KeyOf(i)}
    BY DEF SplitInv
  <2>3. \A i \in Rows : \A j : j \in Rows /\ j < i <=> j \in 1..(i - 1)
    BY <2>0 DEF Rows
  <2> QED
    BY <2>1, <2>2, <2>3
<1> QED
  BY <1>1, SheetTypeCorrect, SplitCorrect, PTL

-----------------------------------------------------------------------------
\* Every row that has been read is a record or has raised one error; every record
\* that the second loop has reached is kept or counted as a duplicate.
CountInv ==
    /\ pass \in {"load", "rows"} => issues["duplicate"] = 0
    /\ pass \in {"load", "rows", "duplicates", "done"} =>
           /\ issues["file"] = 0 /\ issues["columns"] = 0
           /\ Cardinality(records) + RowErrors = reached - 1
    /\ pass \in {"duplicates", "done"} =>
           Cardinality(kept) + issues["duplicate"] + Cardinality(todo) = Cardinality(records)
    /\ pass \in {"refused", "unreadable"} => issues["file"] + issues["columns"] > 0

LEMMA FiniteRows ==
    SheetTypeOK => /\ IsFiniteSet(records) /\ IsFiniteSet(todo) /\ IsFiniteSet(kept)
              /\ Cardinality(records) \in Nat /\ Cardinality(todo) \in Nat
              /\ Cardinality(kept) \in Nat
<1> SUFFICES ASSUME SheetTypeOK
             PROVE  IsFiniteSet(records) /\ IsFiniteSet(todo) /\ IsFiniteSet(kept)
  BY FS_CardinalityType
<1>1. IsFiniteSet(Rows)
  BY SheetRows, FS_Interval DEF Rows
<1> QED
  BY <1>1, FS_Subset DEF SheetTypeOK

LEMMA IssuesAreNumbers == SheetTypeOK => \A rule \in Rules : issues[rule] \in Nat
BY DEF SheetTypeOK

\* One row: a record more or one error more.
LEMMA ReadRowCounts ==
    ASSUME SheetTypeOK, SplitInv, CountInv, ReadRow
    PROVE  CountInv'
<1> DEFINE c == RowCells(reached)
           e(rule) == issues[rule] + (IF rule \in Raised(c) THEN 1 ELSE 0)
<1>1. /\ pass = "rows" /\ pass' = "rows" /\ reached \in Nat /\ reached' = reached + 1
      /\ issues' = [rule \in Rules |-> e(rule)]
      /\ records' = IF Valid(reached) THEN records \cup {reached} ELSE records
  BY DEF ReadRow, SheetTypeOK
<1>2. Valid(reached) <=> Error(c) = "none"
  BY DEF Valid
<1>3. Error(c) \in RowRules \cup {"none"}
  BY OneError
<1>4. \A rule \in RowRules : rule \in Raised(c) <=> rule = Error(c)
  BY DEF Raised, RowRules
<1>5. {"file", "columns", "duplicate"} \cap Raised(c) = {}
  BY <1>3 DEF Raised, RowRules
<1> HIDE DEF c
<1>6. \A rule \in RowRules : issues'[rule] = issues[rule] + (IF rule = Error(c) THEN 1 ELSE 0)
  BY <1>1, <1>4 DEF Rules
<1>7. /\ issues'["file"] = issues["file"] /\ issues'["columns"] = issues["columns"]
      /\ issues'["duplicate"] = issues["duplicate"]
  <2>1. {"file", "columns", "duplicate"} \subseteq Rules
    BY DEF Rules, FileRules, Warnings
  <2> QED
    BY <1>1, <1>5, <2>1, IssuesAreNumbers
<1>8. \A rule \in RowRules : issues[rule] \in Nat
  BY IssuesAreNumbers DEF Rules
<1>9. RowErrors' = RowErrors + IF Error(c) = "none" THEN 0 ELSE 1
  <2>1. CASE Error(c) = "none"
    <3>1. \A rule \in RowRules : issues'[rule] = issues[rule]
      BY <1>6, <1>8, <2>1 DEF RowRules
    <3> QED
      BY <1>8, <2>1, <3>1 DEF RowErrors, RowRules
  <2>2. CASE Error(c) # "none"
    BY <1>3, <1>6, <1>8, <2>2 DEF RowErrors, RowRules
  <2> QED
    BY <2>1, <2>2
<1>10. Cardinality(records') = Cardinality(records) + IF Error(c) = "none" THEN 1 ELSE 0
  <2>1. reached \notin records
    BY <1>1 DEF SplitInv, ValidUpTo
  <2>2. Cardinality(records \cup {reached}) = Cardinality(records) + 1
    BY <2>1, FiniteRows, FS_AddElement
  <2> QED
    BY <1>1, <1>2, <2>2, FiniteRows
<1>11. RowErrors \in Nat
  BY <1>8 DEF RowErrors, RowRules
<1>12. Cardinality(records') + RowErrors' = reached' - 1
  BY <1>1, <1>9, <1>10, <1>11, FiniteRows DEF CountInv
<1> QED
  BY <1>1, <1>7, <1>12 DEF CountInv

LEMMA DeduplicateCounts ==
    ASSUME SheetTypeOK, SplitInv, CountInv, Deduplicate
    PROVE  CountInv'
<1>1. PICK i \in todo : /\ todo' = todo \ {i}
                        /\ \/ issues' = [issues EXCEPT !["duplicate"] = @ + 1] /\ kept' = kept
                           \/ issues' = issues /\ kept' = kept \cup {i}
  BY DEF Deduplicate
<1>2. pass = "duplicates" /\ UNCHANGED <<sheet, pass, reached, records>>
  BY DEF Deduplicate
<1>3. i \notin kept
  BY <1>1, <1>2 DEF SplitInv
<1>4. Cardinality(todo') = Cardinality(todo) - 1
  BY <1>1, FiniteRows, FS_RemoveElement
<1>5. Cardinality(kept \cup {i}) = Cardinality(kept) + 1
  BY <1>3, FiniteRows, FS_AddElement
<1>6. "duplicate" \in Rules /\ issues["duplicate"] \in Nat
  BY IssuesAreNumbers DEF Rules, Warnings
<1>7. Cardinality(kept') + issues'["duplicate"] + Cardinality(todo') = Cardinality(records')
  <2>1. \/ issues'["duplicate"] = issues["duplicate"] + 1 /\ kept' = kept
        \/ issues'["duplicate"] = issues["duplicate"] /\ kept' = kept \cup {i}
    BY <1>1, <1>6 DEF SheetTypeOK
  <2>2. Cardinality(kept') + issues'["duplicate"] = Cardinality(kept) + issues["duplicate"] + 1
    <3>1. Cardinality(kept) \in Nat /\ SheetTypeOK
      BY FiniteRows
    <3>2. CASE issues'["duplicate"] = issues["duplicate"] + 1 /\ kept' = kept
      <4>1. Cardinality(kept') = Cardinality(kept)
        BY <3>2
      <4> QED
        BY <1>6, <3>1, <3>2, <4>1
    <3>3. CASE issues'["duplicate"] = issues["duplicate"] /\ kept' = kept \cup {i}
      <4>1. Cardinality(kept') = Cardinality(kept) + 1
        BY <1>5, <3>3
      <4> QED
        BY <1>6, <3>1, <3>3, <4>1
    <3> QED
      BY <2>1, <3>2, <3>3
  <2>3. Cardinality(kept) + issues["duplicate"] + Cardinality(todo) = Cardinality(records)
    BY <1>2 DEF CountInv
  <2> QED
    BY <1>2, <1>4, <1>6, <2>2, <2>3, FiniteRows
<1>8. /\ issues'["file"] = issues["file"] /\ issues'["columns"] = issues["columns"]
      /\ RowErrors' = RowErrors
  <2>1. \A rule \in Rules \ {"duplicate"} : issues'[rule] = issues[rule]
    BY <1>1 DEF SheetTypeOK
  <2> QED
    BY <2>1 DEF RowErrors, Rules, FileRules, RowRules, Warnings
<1> QED
  BY <1>2, <1>7, <1>8 DEF CountInv

LEMMA CountStep == SheetTypeOK /\ SplitInv /\ CountInv /\ [NormalizerNext]_normalizerVars => CountInv'
<1> SUFFICES ASSUME SheetTypeOK, SplitInv, CountInv, [NormalizerNext]_normalizerVars PROVE CountInv'
  OBVIOUS
<1> USE DEF CountInv
<1>1. CASE Unreadable \/ Empty \/ LacksColumns
  <2>1. CASE LacksColumns
    <3>1. IsFiniteSet(Missing) /\ Missing # {}
      BY <2>1, FiniteFields, FS_Subset DEF LacksColumns, Missing
    <3>2. Cardinality(Missing) \in Nat /\ Cardinality(Missing) # 0
      BY <3>1, FS_EmptySet, FS_CardinalityType
    <3>3. issues'["file"] = issues["file"] /\ issues'["columns"] = Cardinality(Missing)
      BY <2>1 DEF LacksColumns, Refused, SheetTypeOK, Rules, FileRules
    <3> QED
      BY <2>1, <3>2, <3>3 DEF LacksColumns, Refused
  <2>2. CASE Unreadable \/ Empty
    <3>1. issues'["file"] = 1 /\ issues'["columns"] = issues["columns"]
      BY <2>2 DEF Unreadable, Empty, Refused, SheetTypeOK, Rules, FileRules
    <3> QED
      BY <2>2, <3>1 DEF Unreadable, Empty, Refused
  <2> QED
    BY <1>1, <2>1, <2>2
<1>2. CASE ApplyAliasMap
  BY <1>2 DEF ApplyAliasMap, RowErrors
<1>3. CASE ReadRow
  BY <1>3, ReadRowCounts
<1>4. CASE AllRead
  <2>1. kept = {} /\ Cardinality({}) = 0 /\ Cardinality(records) \in Nat
    BY <1>4, FS_EmptySet, FiniteRows DEF AllRead, SplitInv
  <2> QED
    BY <1>4, <2>1 DEF AllRead, RowErrors
<1>5. CASE Deduplicate
  BY <1>5, DeduplicateCounts
<1>6. CASE Finish
  BY <1>6 DEF Finish, RowErrors
<1>7. CASE UNCHANGED normalizerVars
  BY <1>7 DEF normalizerVars, RowErrors
<1>8. CASE RowRaises
  BY <1>8 DEF RowRaises, RowErrors
<1> QED
  BY <1>1, <1>2, <1>3, <1>4, <1>5, <1>6, <1>7, <1>8 DEF NormalizerNext

\* A file that was not taken in is not of high quality.
LEMMA RefusedBand ==
    ASSUME SheetTypeOK, CountInv, pass \in {"refused", "unreadable"}
    PROVE  Band # "High"
<1>1. CASE pass = "unreadable"
  BY <1>1 DEF Band, Score
<1>2. CASE pass = "refused"
  <2>1. \A condition \in BOOLEAN : If(condition, 20) \in Nat /\ If(condition, 5) \in Nat /\ If(condition, 1) \in Nat
    BY DEF If
  <2>2. /\ issues["numeric"] \in Nat /\ issues["phone"] \in Nat
        /\ issues["file"] \in Nat /\ issues["columns"] \in Nat
    BY IssuesAreNumbers DEF Rules, FileRules, RowRules, Warnings
  <2>3. If(issues["columns"] > 0, 20) = 20 \/ If(issues["file"] > 0, 20) = 20
    BY <1>2, <2>2 DEF CountInv, If
  <2> DEFINE a == If(issues["columns"] > 0, 20)
             b == If(issues["file"] > 0, 20)
             p == If(Above(issues["date"], RowCount, 20), 20)
             q == If(Above(issues["duplicate"], RowCount, 5), 5)
             r == If(unknown > 0, 5)
             t == If(records = {} \/ Above(nulls, OptionalCells, 60), 1)
  <2>4. a \in Nat /\ b \in Nat /\ p \in Nat /\ q \in Nat /\ r \in Nat /\ t \in Nat
    BY DEF If
  <2>5. a >= 20 \/ b >= 20
    BY <2>3
  <2>6. Penalty = a + b + p + 5 * issues["numeric"] + q + r + t + issues["phone"]
    BY DEF Penalty
  <2> HIDE DEF a, b, p, q, r, t
  <2>7. Penalty \in Nat /\ Penalty >= 20
    BY <2>2, <2>4, <2>5, <2>6
  <2> QED
    BY <1>2, <2>7 DEF Band, Score
<1> QED
  BY <1>1, <1>2

\* Every row of every file is counted once, as valid, as an error or as a duplicate.
THEOREM AccountingTheorem == NormalizerSpec => []Accounting
<1>1. SheetInit => CountInv
  <2> SUFFICES ASSUME SheetInit PROVE CountInv
    OBVIOUS
  <2>1. \A rule \in Rules : issues[rule] = 0
    BY DEF SheetInit
  <2>2. Cardinality(records) = 0 /\ reached = 1 /\ pass = "load"
    BY FS_EmptySet DEF SheetInit
  <2> QED
    BY <2>1, <2>2 DEF CountInv, RowErrors, Rules, FileRules, RowRules, Warnings
<1>2. SheetTypeOK /\ SplitInv /\ CountInv => Accounting
  <2> SUFFICES ASSUME SheetTypeOK, SplitInv, CountInv PROVE Accounting
    OBVIOUS
  <2>1. \A rule \in Rules : issues[rule] \in Nat
    BY IssuesAreNumbers
  <2>2. RowErrors \in Nat
    BY <2>1 DEF RowErrors, Rules, RowRules
  <2>3. ASSUME pass = "done"
        PROVE  RowCount = Cardinality(kept) + ErrorCount + issues["duplicate"]
    <3>1. Cardinality(todo) = 0
      BY <2>3, FS_EmptySet DEF SplitInv
    <3>2. RowCount = reached - 1
      BY <2>3, SheetRows DEF SplitInv, RowCount
    <3>3. /\ ErrorCount = RowErrors /\ Cardinality(records) + RowErrors = reached - 1
          /\ Cardinality(kept) + issues["duplicate"] + Cardinality(todo) = Cardinality(records)
      BY <2>2, <2>3 DEF CountInv, ErrorCount
    <3>4. issues["duplicate"] \in Nat
      BY <2>1 DEF Rules, Warnings
    <3> QED
      BY <2>2, <3>1, <3>2, <3>3, <3>4, FiniteRows
  <2>4. ASSUME pass \in {"refused", "unreadable"} PROVE kept = {} /\ ErrorCount > 0
    <3>1. issues["file"] \in Nat /\ issues["columns"] \in Nat
      BY <2>1 DEF Rules, FileRules
    <3> QED
      BY <2>2, <2>4, <3>1 DEF SplitInv, CountInv, ErrorCount
  <2> QED
    BY <2>3, <2>4, RefusedBand DEF Accounting
<1> QED
  BY <1>1, <1>2, CountStep, SheetTypeCorrect, SplitCorrect, PTL DEF NormalizerSpec
-----------------------------------------------------------------------------
(***************************************************************************)
(* WeeklyPayloads.                                                         *)
(***************************************************************************)

LEMMA PayloadType ==
    ASSUME TypeOK, NEW r \in Requests, NEW d \in Datasets, d \in Given(bundle[r])
    PROVE  Payload(r, d) \in Row
<1>1. bundle[r] \in [range : Ranges, file : [Datasets -> Files \cup {Absent}]]
  BY PayloadAssumption DEF TypeOK
<1>2. bundle[r].range \in Ranges /\ bundle[r].file[d] \in Files
  BY <1>1 DEF Given
<1>3. Read(bundle[r].file[d]) \in SUBSET Entries
  BY <1>2, PayloadAssumption DEF Read
<1> QED
  BY <1>2, <1>3 DEF Payload, Row, TypeOK

\* An upsert leaves one row per key.
LEMMA UpsertType ==
    ASSUME rows \subseteq Row, \A x, y \in rows : SameKey(x, y) => x = y, NEW z \in Row
    PROVE  /\ Upserted(z) \subseteq Row
           /\ \A x, y \in Upserted(z) : SameKey(x, y) => x = y
BY DEF Upserted, SameKey

\* A request is only at a dataset it has a file for.
GivenInv == \A r \in Requests : at[r] \in Datasets => at[r] \in Given(bundle[r])

LEMMA FirstGiven == ASSUME NEW b \in Bundles PROVE First(b) \in Given(b) /\ First(b) \in Datasets
<1>1. PICK d \in Datasets : b.file[d] # Absent
  BY PayloadAssumption
<1> QED
  BY <1>1 DEF First, Given, Datasets

LEMMA AfterGiven ==
    ASSUME NEW b, NEW d PROVE After(b, d) = "close" \/ (After(b, d) = "mpesa" /\ "mpesa" \in Given(b))
BY DEF After, Given, Datasets

\* The rows after a step: as before, or with one payload of a request at a dataset.
LEMMA RowsStep ==
    ASSUME [Next]_vars
    PROVE  \/ rows' = rows
           \/ \E r \in Requests, d \in Datasets :
                at[r] = d /\ rows' = Upserted(Payload(r, d)) /\ UNCHANGED <<owner, asked>>
<1>1. ASSUME NEW r \in Requests, NEW d \in Datasets, Store(r, d)
      PROVE  at[r] = d /\ rows' = Upserted(Payload(r, d)) /\ UNCHANGED <<owner, asked>>
  BY <1>1 DEF Store
<1>2. ASSUME NEW r \in Requests, NEW d \in Datasets, StoreFails(r, d)
      PROVE  /\ at[r] = d /\ UNCHANGED <<owner, asked>>
             /\ rows' = rows \/ rows' = Upserted(Payload(r, d))
  BY <1>2 DEF StoreFails
<1>3. ASSUME NEW r \in Requests, Close(r) PROVE rows' = rows
  BY <1>3 DEF Close
<1>4. ASSUME NEW r \in Requests, NEW k, NEW actor, NEW b, Begin(r, k, actor, b) PROVE rows' = rows
  BY <1>4 DEF Begin
<1>5. ASSUME Restart \/ (\E o \in Orgs : Register(o)) \/ UNCHANGED vars PROVE rows' = rows
  BY <1>5 DEF Restart, Register, vars
<1> QED
  BY <1>1, <1>2, <1>3, <1>4, <1>5 DEF Next, Upload, Ingest

LEMMA TypeStep == TypeOK /\ GivenInv /\ [Next]_vars => TypeOK' /\ GivenInv'
<1> SUFFICES ASSUME TypeOK, GivenInv, [Next]_vars PROVE TypeOK' /\ GivenInv'
  OBVIOUS
<1>1. rows' \subseteq Row /\ \A x, y \in rows' : SameKey(x, y) => x = y
  <2>1. CASE rows' = rows
    BY <2>1 DEF TypeOK, Row, SameKey
  <2>2. ASSUME NEW r \in Requests, NEW d \in Datasets, at[r] = d, rows' = Upserted(Payload(r, d))
        PROVE  rows' \subseteq Row /\ \A x, y \in rows' : SameKey(x, y) => x = y
    <3>1. Payload(r, d) \in Row
      BY <2>2, PayloadType DEF GivenInv
    <3>2. rows \subseteq Row /\ \A x, y \in rows : SameKey(x, y) => x = y
      BY DEF TypeOK
    <3>3. /\ Upserted(Payload(r, d)) \subseteq Row
          /\ \A x, y \in Upserted(Payload(r, d)) : SameKey(x, y) => x = y
      BY <3>1, <3>2, UpsertType
    <3> QED
      BY <2>2, <3>3
  <2> QED
    BY <2>1, <2>2, RowsStep
<1> DEFINE Rest == /\ owner \in Orgs \cup {Null}
                   /\ kind \in [Requests -> {"upload", "ingest"}]
                   /\ bundle \in [Requests -> Bundles]
                   /\ org \in [Requests -> Orgs \cup {Default}]
                   /\ at \in [Requests -> Datasets \cup {"idle", "close", "answered", "failed", "lost"}]
                   /\ lastRun \in Requests \cup {Null}
<1>2. Rest
  BY DEF TypeOK
<1>3. Rest' /\ GivenInv'
  <2>1. ASSUME NEW o \in Orgs, Register(o) PROVE Rest' /\ GivenInv'
    BY <1>2, <2>1 DEF Register, asked, GivenInv
  <2>2. ASSUME NEW r \in Requests, NEW k \in {"upload", "ingest"}, NEW actor \in Orgs \cup {Platform},
               NEW b \in Bundles, Begin(r, k, actor, b)
        PROVE  Rest' /\ GivenInv'
    <3>1. First(b) \in Given(b) /\ First(b) \in Datasets
      BY FirstGiven
    <3>2. Resolved \in Orgs \cup {Default}
      BY <1>2 DEF Resolved
    <3>3. Rest'
      BY <1>2, <2>2, <3>1, <3>2 DEF Begin
    <3>4. \A s \in Requests : \/ at'[s] = at[s] /\ bundle'[s] = bundle[s]
                             \/ /\ s = r /\ bundle'[s] = b
                                /\ at'[s] \in {First(b), "failed"}
      BY <1>2, <2>2 DEF Begin
    <3>5. "failed" \notin Datasets
      BY DEF Datasets
    <3> QED
      BY <3>1, <3>3, <3>4, <3>5 DEF GivenInv
  <2>3. ASSUME NEW r \in Requests, NEW d \in Datasets, Store(r, d) PROVE Rest' /\ GivenInv'
    <3>1. After(bundle[r], d) = "close" \/ (After(bundle[r], d) = "mpesa" /\ "mpesa" \in Given(bundle[r]))
      BY AfterGiven
    <3>2. Rest'
      BY <1>2, <2>3, <3>1 DEF Store, asked, Datasets
    <3>3. \A s \in Requests : s # r => at'[s] = at[s]
      BY <1>2, <2>3 DEF Store
    <3>5. at'[r] = After(bundle[r], d)
      BY <1>2, <2>3 DEF Store
    <3>4. bundle' = bundle
      BY <2>3 DEF Store, asked
    <3> QED
      BY <3>1, <3>2, <3>3, <3>4, <3>5 DEF GivenInv, Datasets
  <2>4. ASSUME NEW r \in Requests, NEW d \in Datasets, StoreFails(r, d) PROVE Rest' /\ GivenInv'
    BY <1>2, <2>4 DEF StoreFails, asked, GivenInv, Datasets
  <2>5. ASSUME NEW r \in Requests, Close(r) PROVE Rest' /\ GivenInv'
    BY <1>2, <2>5 DEF Close, asked, GivenInv, Datasets
  <2>6. CASE Restart
    BY <1>2, <2>6 DEF Restart, asked, GivenInv, Datasets
  <2>7. CASE UNCHANGED vars
    BY <1>2, <2>7 DEF vars, asked, GivenInv
  <2> QED
    BY <2>1, <2>2, <2>3, <2>4, <2>5, <2>6, <2>7 DEF Next, Upload, Ingest
<1> QED
  BY <1>1, <1>3 DEF TypeOK

LEMMA TypeInitially == Init => TypeOK /\ GivenInv
<1> SUFFICES ASSUME Init PROVE TypeOK /\ GivenInv
  OBVIOUS
<1>1. /\ rows \subseteq Row /\ \A x, y \in rows : SameKey(x, y) => x = y
  BY DEF Init
<1>2. /\ owner \in Orgs \cup {Null} /\ lastRun \in Requests \cup {Null}
      /\ kind \in [Requests -> {"upload", "ingest"}] /\ org \in [Requests -> Orgs \cup {Default}]
  BY DEF Init
<1>3. bundle \in [Requests -> Bundles]
  BY PayloadAssumption DEF Init
<1>4. /\ at \in [Requests -> Datasets \cup {"idle", "close", "answered", "failed", "lost"}]
      /\ \A r \in Requests : at[r] \notin Datasets
  BY DEF Init, Datasets
<1> QED
  BY <1>1, <1>2, <1>3, <1>4 DEF TypeOK, GivenInv

\* Every variable keeps its type, and the table one row per range and dataset:
\* an upsert replaces.
THEOREM TypeCorrect == Spec => []TypeOK
<1>1. Spec => [](TypeOK /\ GivenInv)
  BY TypeInitially, TypeStep, PTL DEF Spec
<1> QED
  BY <1>1, PTL

-----------------------------------------------------------------------------
(***************************************************************************)
(* What was answered is stored.                                            *)
(***************************************************************************)
LastInv == lastRun # Null => at[lastRun] = "answered"
KeptInv == \A r \in Requests, d \in Datasets :
               d \in Stored(r) /\ Alone(r, d) => Payload(r, d) \in rows

LEMMA StoredParts == StoredInv <=> LastInv /\ GivenInv /\ KeptInv
BY DEF StoredInv, LastInv, GivenInv, KeptInv

\* Another request's upsert leaves the payload of one that is alone.
LEMMA AloneKeeps ==
    ASSUME NEW r \in Requests, NEW d \in Datasets, NEW q \in Requests, q # r, at[q] \in Datasets,
           at[q] \in Given(bundle[q]), Alone(r, d), Payload(r, d) \in rows
    PROVE  Payload(r, d) \in Upserted(Payload(q, at[q]))
<1>1. at[q] # "idle"
  BY DEF Datasets
<1>2. bundle[q].range # bundle[r].range \/ d \notin Given(bundle[q])
  BY <1>1 DEF Alone
<1>3. ~SameKey(Payload(q, at[q]), Payload(r, d))
  BY <1>2 DEF SameKey, Payload
<1> QED
  BY <1>3 DEF Upserted

\* After storing d a request has stored d, and no other dataset than before.
LEMMA StoredAfter ==
    ASSUME NEW b, NEW d \in Datasets, NEW e \in Datasets,
           e \in IF After(b, d) = "close" THEN Given(b) ELSE Given(b) \ {"mpesa"}
    PROVE  e = d \/ (d = "mpesa" /\ e \in Given(b) \ {"mpesa"})
BY DEF After, Given, Datasets

LEMMA StoredStep == TypeOK /\ StoredInv /\ [Next]_vars => StoredInv'
<1> SUFFICES ASSUME TypeOK, StoredInv, [Next]_vars PROVE StoredInv'
  OBVIOUS
<1>0. LastInv /\ GivenInv /\ KeptInv
  BY StoredParts
<1>1. GivenInv'
  BY <1>0, TypeStep
<1>2. LastInv' /\ KeptInv'
  <2>1. ASSUME NEW o \in Orgs, Register(o) PROVE LastInv' /\ KeptInv'
    BY <1>0, <2>1 DEF Register, asked, LastInv, KeptInv, Stored, Alone, Payload
  <2>2. ASSUME NEW q \in Requests, NEW k \in {"upload", "ingest"}, NEW actor \in Orgs \cup {Platform},
               NEW b \in Bundles, Begin(q, k, actor, b)
        PROVE  LastInv' /\ KeptInv'
    <3>1. /\ at[q] = "idle" /\ at'[q] \in {First(b), "failed"} /\ bundle'[q] = b
          /\ rows' = rows /\ lastRun' = lastRun
          /\ \A s \in Requests \ {q} : at'[s] = at[s] /\ bundle'[s] = bundle[s] /\ org'[s] = org[s]
      BY <2>2 DEF Begin, TypeOK
    <3>2. LastInv'
      BY <1>0, <3>1 DEF LastInv, TypeOK
    <3>3. Stored(q)' = {}
      BY <3>1 DEF Stored, First, Given, Datasets
    <3>4. ASSUME NEW r \in Requests, NEW d \in Datasets, d \in Stored(r)', Alone(r, d)'
          PROVE  Payload(r, d)' \in rows'
      <4>1. r # q
        BY <3>3, <3>4
      <4>2. Stored(r)' = Stored(r) /\ Payload(r, d)' = Payload(r, d)
        BY <3>1, <4>1 DEF Stored, Payload
      <4>3. Alone(r, d)
        BY <3>1, <3>4, <4>1 DEF Alone
      <4> QED
        BY <1>0, <3>1, <3>4, <4>2, <4>3 DEF KeptInv
    <3> QED
      BY <3>2, <3>4 DEF KeptInv
  <2>3. ASSUME NEW q \in Requests, NEW e \in Datasets, Store(q, e) \/ StoreFails(q, e)
        PROVE  LastInv' /\ KeptInv'
    <3>1. /\ at[q] = e /\ e \in Given(bundle[q])
          /\ bundle' = bundle /\ org' = org /\ lastRun' = lastRun
          /\ \A s \in Requests \ {q} : at'[s] = at[s]
      BY <1>0, <2>3 DEF Store, StoreFails, asked, TypeOK, GivenInv
    <3>2. at'[q] \in {After(bundle[q], e), "failed"} /\ at'[q] # "idle" /\ at[q] # "idle"
      BY <2>3, AfterGiven DEF Store, StoreFails, TypeOK, Datasets
    <3>3. LastInv'
      BY <1>0, <3>1 DEF LastInv, TypeOK, Datasets
    <3>4. ASSUME NEW r \in Requests, NEW d \in Datasets, d \in Stored(r)', Alone(r, d)'
          PROVE  Payload(r, d)' \in rows'
      <4>1. Alone(r, d) /\ Payload(r, d)' = Payload(r, d)
        BY <3>1, <3>2, <3>4 DEF Alone, Payload
      <4>2. CASE r # q
        <5>1. Stored(r)' = Stored(r)
          BY <3>1, <4>2 DEF Stored
        <5>2. Payload(r, d) \in rows
          BY <1>0, <3>4, <4>1, <5>1 DEF KeptInv
        <5>3. Payload(r, d) \in Upserted(Payload(q, e))
          BY <3>1, <4>1, <4>2, <5>2, AloneKeeps
        <5>4. rows' \in {rows, Upserted(Payload(q, e))}
          BY <2>3 DEF Store, StoreFails
        <5> QED
          BY <4>1, <5>2, <5>3, <5>4
      <4>3. CASE r = q
        <5>1. at'[q] = After(bundle[q], e) /\ rows' = Upserted(Payload(q, e))
          <6>1. at'[q] # "failed"
            BY <3>4, <4>3 DEF Stored, Datasets
          <6>2. ~StoreFails(q, e)
            BY <6>1 DEF StoreFails, TypeOK
          <6> QED
            BY <2>3, <6>2 DEF Store, TypeOK
        <5>2. After(bundle[q], e) \in {"close", "mpesa"}
          BY DEF After
        <5>3. d \in IF After(bundle[q], e) = "close" THEN Given(bundle[q])
                    ELSE Given(bundle[q]) \ {"mpesa"}
          BY <3>1, <3>4, <4>3, <5>1, <5>2 DEF Stored
        <5>4. d = e \/ (e = "mpesa" /\ d \in Given(bundle[q]) \ {"mpesa"})
          BY <5>3, StoredAfter
        <5>5. CASE d = e
          BY <4>1, <4>3, <5>1, <5>5 DEF Upserted
        <5>6. CASE e = "mpesa" /\ d \in Given(bundle[q]) \ {"mpesa"}
          <6>1. d \in Stored(q)
            BY <3>1, <5>6 DEF Stored
          <6>2. Payload(q, d) \in rows
            BY <1>0, <4>1, <4>3, <6>1 DEF KeptInv
          <6>3. ~SameKey(Payload(q, e), Payload(q, d))
            BY <5>6 DEF SameKey, Payload
          <6> QED
            BY <4>1, <4>3, <5>1, <6>2, <6>3 DEF Upserted
        <5> QED
          BY <5>4, <5>5, <5>6
      <4> QED
        BY <4>2, <4>3
    <3> QED
      BY <3>3, <3>4 DEF KeptInv
  <2>4. ASSUME NEW q \in Requests, Close(q) PROVE LastInv' /\ KeptInv'
    <3>1. /\ at[q] = "close" /\ at'[q] = "answered" /\ lastRun' = q
          /\ rows' = rows /\ bundle' = bundle /\ org' = org
          /\ \A s \in Requests \ {q} : at'[s] = at[s]
      BY <2>4 DEF Close, asked, TypeOK
    <3>2. \A r \in Requests : Stored(r)' = Stored(r)
      BY <3>1 DEF Stored
    <3>3. \A r \in Requests, d \in Datasets :
             (Alone(r, d)' => Alone(r, d)) /\ Payload(r, d)' = Payload(r, d)
      BY <3>1 DEF Alone, Payload
    <3> QED
      BY <1>0, <3>1, <3>2, <3>3 DEF LastInv, KeptInv
  <2>5. CASE Restart
    <3>1. /\ lastRun' = Null /\ rows' = rows /\ bundle' = bundle /\ org' = org
          /\ \A s \in Requests : at'[s] = at[s] \/ (at'[s] = "lost" /\ at[s] # "idle")
      BY <2>5 DEF Restart, asked, InFlight, Datasets
    <3>2. \A r \in Requests : Stored(r)' \subseteq Stored(r)
      BY <3>1 DEF Stored
    <3>3. \A r \in Requests, d \in Datasets :
             (Alone(r, d)' => Alone(r, d)) /\ Payload(r, d)' = Payload(r, d)
      BY <3>1 DEF Alone, Payload
    <3> QED
      BY <1>0, <3>1, <3>2, <3>3 DEF LastInv, KeptInv
  <2>6. CASE UNCHANGED vars
    BY <1>0, <2>6 DEF vars, asked, LastInv, KeptInv, Stored, Alone, Payload
  <2> QED
    BY <2>1, <2>2, <2>3, <2>4, <2>5, <2>6 DEF Next, Upload, Ingest
<1> QED
  BY <1>1, <1>2 DEF StoredInv, LastInv, GivenInv, KeptInv

LEMMA StoredInitially == Init => StoredInv
BY DEF Init, StoredInv, Stored, Datasets

\* Where a request is tells which of its payloads are in the table: the inductive
\* invariant behind AnsweredKept.
THEOREM StoredTheorem == Spec => []StoredInv
<1>1. Spec => []TypeOK
  BY TypeCorrect
<1> QED
  BY <1>1, StoredInitially, StoredStep, PTL DEF Spec

\* What an answer or LAST_RUN_SUMMARY says was persisted is in the table until
\* another request stores the same range (admin_upload_weekly, ingest_weekly).
THEOREM AnsweredTheorem == Spec => []AnsweredKept
<1>1. TypeOK /\ StoredInv => AnsweredKept
  <2> SUFFICES ASSUME TypeOK, StoredInv, NEW r \in Requests, at[r] = "answered" \/ lastRun = r,
                      NEW d \in Given(bundle[r]), Alone(r, d)
               PROVE  Payload(r, d) \in rows
    BY DEF AnsweredKept
  <2>1. at[r] = "answered"
    BY PayloadAssumption DEF StoredInv
  <2>2. d \in Datasets /\ d \in Stored(r)
    BY <2>1 DEF Stored, Given
  <2> QED
    BY <2>2 DEF StoredInv
<1> QED
  BY <1>1, TypeCorrect, StoredTheorem, PTL

-----------------------------------------------------------------------------
(***************************************************************************)
(* What reports read, of any table of the right type.                      *)
(***************************************************************************)
LEMMA RangeType ==
    ASSUME TypeOK, NEW asker, NEW d, NEW x \in Visible(asker, d)
    PROVE  /\ x.range.start \in Int /\ x.range.end \in Int /\ x.range.start <= x.range.end
           /\ x.records \subseteq Entries
<1>1. x \in Row
  BY DEF Visible, TypeOK
<1>2. x.range \in Ranges /\ x.records \subseteq Entries
  BY <1>1 DEF Row
<1>3. x.range \in [start : Int, end : Int] /\ x.range.start <= x.range.end
  BY <1>2, PayloadAssumption
<1> QED
  BY <1>2, <1>3

LEMMA VisibleType ==
    ASSUME TypeOK, NEW asker, NEW d, NEW x \in Visible(asker, d), NEW e \in x.records
    PROVE  /\ x.range.start \in Int /\ x.range.end \in Int /\ x.range.start <= x.range.end
           /\ e \in Entries /\ Day[e] \in Int
BY RangeType, PayloadAssumption

LEMMA WindowType ==
    ASSUME NEW w \in Windows
    PROVE  w.start \in Int /\ w.end \in Int /\ w.start <= w.end /\ PrevStart(w) = w.start - 7
BY PayloadAssumption DEF PrevStart

LEMMA CountedStep == TypeOK => CountedOnce
<1> SUFFICES ASSUME TypeOK, NEW asker \in Askers, Tidy(asker), NEW w \in Windows,
                    NEW e \in Entries, Day[e] \in PrevStart(w)..w.end
             PROVE  LET holding == {x \in Visible(asker, "excel_sales") : e \in x.records}
                    IN  /\ holding \subseteq Loaded(asker, w)
                        /\ \A x, y \in holding : x = y
  BY DEF CountedOnce
<1> DEFINE holding == {x \in Visible(asker, "excel_sales") : e \in x.records}
<1>1. ASSUME NEW x \in holding
      PROVE  /\ x.range.start \in Int /\ x.range.end \in Int /\ Day[e] \in Int
             /\ x.range.start <= Day[e] /\ Day[e] <= x.range.end
  <2>1. x.range.start \in Int /\ x.range.end \in Int /\ Day[e] \in Int
    BY VisibleType
  <2>2. Day[e] \in x.range.start..x.range.end
    BY DEF Tidy, Within
  <2> QED
    BY <2>1, <2>2
<1>2. ASSUME NEW x \in holding PROVE x \in Loaded(asker, w)
  <2>1. PrevStart(w) <= Day[e] /\ Day[e] <= w.end /\ PrevStart(w) \in Int /\ w.end \in Int
    BY <1>1, <1>2, WindowType
  <2>2. Overlap(x, PrevStart(w), w.end)
    BY <1>1, <1>2, <2>1 DEF Overlap
  <2> QED
    BY <2>2 DEF Loaded
<1>3. ASSUME NEW x \in holding, NEW y \in holding PROVE x = y
  <2>1. x = y \/ Apart(x, y)
    BY DEF Tidy
  <2>2. ~Apart(x, y)
    BY <1>1 DEF Apart
  <2> QED
    BY <2>1, <2>2
<1> QED
  BY <1>2, <1>3

\* Of tidy payloads a report counts each sale of its week and the week before
\* once, for any ranges, windows and sales.
THEOREM CountedTheorem == Spec => []CountedOnce
BY TypeCorrect, CountedStep, PTL

LEMMA SlowStep == TypeOK => SlowMoversSlow
<1> SUFFICES ASSUME TypeOK, NEW asker \in Askers, Tidy(asker), NEW w \in Windows,
                    NEW days \in SlowDays, NEW x \in Visible(asker, "excel_sales"),
                    NEW e \in x.records, Day[e] \in (w.end - (days - 1))..w.end,
                    Product[e] \in SlowMovers(asker, w, days)
             PROVE  FALSE
  BY DEF SlowMoversSlow
<1> DEFINE sold == UNION {y.records : y \in Loaded(asker, w)}
           from == w.end - (days - 1)
<1>1. PICK s \in sold : /\ Product[s] = Product[e]
                        /\ \A t \in sold : Product[t] = Product[s] => Day[t] < from
  BY DEF SlowMovers
<1>2. PICK y \in Loaded(asker, w) : s \in y.records
  OBVIOUS
<1>3. y \in Visible(asker, "excel_sales") /\ Overlap(y, PrevStart(w), w.end)
  BY DEF Loaded
<1>4. /\ x.range.start \in Int /\ x.range.end \in Int /\ Day[e] \in Int
      /\ y.range.start \in Int /\ y.range.end \in Int /\ Day[s] \in Int
  BY <1>2, <1>3, VisibleType
<1>5. /\ x.range.start <= Day[e] /\ Day[e] <= x.range.end
      /\ y.range.start <= Day[s] /\ Day[s] <= y.range.end
  <2>1. Day[e] \in x.range.start..x.range.end
    BY DEF Tidy, Within
  <2>2. Day[s] \in y.range.start..y.range.end
    BY <1>2, <1>3 DEF Tidy, Within
  <2> QED
    BY <1>4, <2>1, <2>2
<1>6. /\ w.end \in Int /\ PrevStart(w) \in Int /\ days \in Int
      /\ from <= Day[e] /\ Day[e] <= w.end
  BY <1>4, WindowType, PayloadAssumption
<1>7. Day[s] < from
  BY <1>1
<1>8. y.range.end >= PrevStart(w)
  BY <1>3 DEF Overlap
<1>9. x.range.end >= PrevStart(w)
  <2>1. x = y \/ Apart(x, y)
    BY <1>3 DEF Tidy
  <2>2. ~(x.range.end < y.range.start)
    BY <1>4, <1>5, <1>6, <1>7
  <2>3. x = y \/ y.range.end < x.range.start
    BY <2>1, <2>2 DEF Apart
  <2> QED
    BY <1>4, <1>5, <1>6, <1>8, <2>3
<1>10. x \in Loaded(asker, w)
  BY <1>4, <1>5, <1>6, <1>9 DEF Loaded, Overlap
<1>11. e \in sold
  BY <1>10
<1>12. Day[e] < from
  BY <1>1, <1>11
<1> QED
  BY <1>4, <1>6, <1>12

\* A product listed as slow has not been sold in the lookback, also when the
\* lookback starts before the payloads that were loaded.
THEOREM SlowTheorem == Spec => []SlowMoversSlow
BY TypeCorrect, SlowStep, PTL

-----------------------------------------------------------------------------
\* A payload has the organization its request resolved, or none.
OrgInv == \A x \in rows : x.org = Null \/ (x.by \in Requests /\ at[x.by] # "idle" /\ x.org = org[x.by])

LEMMA OrgStep == TypeOK /\ OrgInv /\ [Next]_vars => OrgInv'
<1> SUFFICES ASSUME TypeOK, OrgInv, [Next]_vars PROVE OrgInv'
  OBVIOUS
<1>1. \A r \in Requests : at[r] # "idle" => at'[r] # "idle" /\ org'[r] = org[r]
  <2>1. ASSUME NEW o \in Orgs, Register(o) PROVE at' = at /\ org' = org
    BY <2>1 DEF Register, asked
  <2>2. ASSUME NEW q \in Requests, NEW k, NEW actor, NEW b \in Bundles, Begin(q, k, actor, b)
        PROVE  \A r \in Requests : at[r] # "idle" => at'[r] # "idle" /\ org'[r] = org[r]
    BY <2>2 DEF Begin, TypeOK
  <2>3. ASSUME NEW q \in Requests, NEW d \in Datasets, Store(q, d) \/ StoreFails(q, d)
        PROVE  \A r \in Requests : at[r] # "idle" => at'[r] # "idle" /\ org'[r] = org[r]
    BY <2>3, AfterGiven DEF Store, StoreFails, asked, TypeOK
  <2>4. ASSUME NEW q \in Requests, Close(q)
        PROVE  \A r \in Requests : at[r] # "idle" => at'[r] # "idle" /\ org'[r] = org[r]
    BY <2>4 DEF Close, asked, TypeOK
  <2>5. CASE Restart
    BY <2>5 DEF Restart, asked
  <2>6. CASE UNCHANGED vars
    BY <2>6 DEF vars, asked
  <2> QED
    BY <2>1, <2>2, <2>3, <2>4, <2>5, <2>6 DEF Next, Upload, Ingest
<1>2. CASE rows' = rows
  BY <1>1, <1>2 DEF OrgInv
<1>3. ASSUME NEW r \in Requests, NEW d \in Datasets, at[r] = d, rows' = Upserted(Payload(r, d))
      PROVE  OrgInv'
  <2>1. at[r] # "idle"
    BY <1>3 DEF Datasets
  <2>2. \A x \in rows' : x \in rows \/ (x.org = org[r] /\ x.by = r)
    BY <1>3 DEF Upserted, Payload
  <2> QED
    BY <1>1, <2>1, <2>2 DEF OrgInv
<1> QED
  BY <1>2, <1>3, RowsStep

LEMMA OrgInitially == Init => OrgInv
BY DEF Init, OrgInv

\* The worker, who asks without an organization, and everybody else read the same
\* payloads, as long as every request found the organization the business has now.
THEOREM WorkerTheorem == Spec => []SameForWorker
<1>1. OrgInv => SameForWorker
  <2> SUFFICES ASSUME OrgInv, \A r \in Requests : at[r] = "idle" \/ org[r] = Resolved, NEW d \in Datasets
               PROVE  Visible(Resolved, d) = Visible(Null, d)
    BY DEF SameForWorker
  <2>1. \A x \in rows : x.org \in {Resolved, Null}
    BY DEF OrgInv
  <2> QED
    BY <2>1 DEF Visible
<1>2. Spec => []OrgInv
  BY TypeCorrect, OrgInitially, OrgStep, PTL DEF Spec
<1> QED
  BY <1>1, <1>2, PTL

-----------------------------------------------------------------------------
(***************************************************************************)
(* The trends against the weekly report.                                   *)
(***************************************************************************)

\* The table and the files in it are finite, so that their amounts add up.
FiniteInv == IsFiniteSet(rows) /\ \A x \in rows : IsFiniteSet(x.records)

LEMMA FiniteStep == TypeOK /\ GivenInv /\ FiniteInv /\ [Next]_vars => FiniteInv'
<1> SUFFICES ASSUME TypeOK, GivenInv, FiniteInv, [Next]_vars PROVE FiniteInv'
  OBVIOUS
<1>1. CASE rows' = rows
  BY <1>1 DEF FiniteInv
<1>2. ASSUME NEW r \in Requests, NEW d \in Datasets, at[r] = d, rows' = Upserted(Payload(r, d))
      PROVE  FiniteInv'
  <2>1. IsFiniteSet(Read(bundle[r].file[d]))
    <3>1. bundle[r] \in [range : Ranges, file : [Datasets -> Files \cup {Absent}]]
      BY PayloadAssumption DEF TypeOK
    <3>2. bundle[r].file[d] \in Files
      BY <1>2, <3>1 DEF GivenInv, Given
    <3> QED
      BY <3>2, FS_EmptySet, PayloadAssumption DEF Read
  <2>2. IsFiniteSet(Upserted(Payload(r, d)))
    <3>1. IsFiniteSet({y \in rows : ~SameKey(Payload(r, d), y)})
      BY FS_Subset DEF FiniteInv
    <3> QED
      BY <3>1, FS_AddElement DEF Upserted
  <2>3. \A x \in rows' : x \in rows \/ x.records = Read(bundle[r].file[d])
    BY <1>2 DEF Upserted, Payload
  <2> QED
    BY <1>2, <2>1, <2>2, <2>3 DEF FiniteInv
<1> QED
  BY <1>1, <1>2, RowsStep

LEMMA FiniteInitially == Init => FiniteInv
<1> SUFFICES ASSUME Init PROVE FiniteInv
  OBVIOUS
<1>1. rows = {} \/ \E x : rows = {x} /\ IsFiniteSet(x.records)
  BY DEF Init
<1>2. \A x : IsFiniteSet({x})
  BY FS_Singleton
<1> QED
  BY <1>1, <1>2, FS_EmptySet DEF FiniteInv

\* Of tidy payloads, the one for the days from first to last is all that is
\* counted of them, if it is loaded.
LEMMA OnlyOne ==
    ASSUME TypeOK, FiniteInv, NEW asker, Tidy(asker), NEW x \in Visible(asker, "excel_sales"),
           NEW payloads, x \in payloads, payloads \subseteq Visible(asker, "excel_sales")
    PROVE  Sum(payloads, x.range.start, x.range.end) = RecordsTotal(x)
<1> DEFINE counted(y) == Counted(y, x.range.start, x.range.end)
           F == [y \in payloads |-> SumFunctionOnSet(Amount, counted(y))]
<1>1. IsFiniteSet(payloads) /\ IsFiniteSet(x.records)
  BY FS_Subset DEF FiniteInv, Visible
<1>2. counted(x) = x.records
  BY DEF Tidy, Within, Counted
<1>3. F[x] = RecordsTotal(x)
  BY <1>2 DEF RecordsTotal
<1>4. RecordsTotal(x) \in Int
  <2>1. \A e \in x.records : Amount[e] \in Int
    BY RangeType, PayloadAssumption
  <2> QED
    BY <1>1, <2>1, SumType DEF RecordsTotal
<1>5. ASSUME NEW y \in payloads \ {x} PROVE F[y] = 0
  <2>1. Apart(y, x) /\ Within(y)
    BY DEF Tidy
  <2>2. ASSUME NEW e \in counted(y) PROVE FALSE
    <3>1. /\ e \in y.records /\ Day[e] \in Int
          /\ x.range.start \in Int /\ x.range.end \in Int
          /\ y.range.start \in Int /\ y.range.end \in Int
      BY RangeType, PayloadAssumption DEF Counted
    <3>2. Day[e] \in x.range.start..x.range.end /\ Day[e] \in y.range.start..y.range.end
      BY <2>1 DEF Within, Counted
    <3> QED
      BY <2>1, <3>1, <3>2 DEF Apart
  <2>3. counted(y) = {}
    BY <2>2
  <2> QED
    BY <2>3, SumEmpty
<1> HIDE DEF F
<1>6. SumFunctionOnSet(F, payloads) = F[x]
  BY <1>1, <1>3, <1>4, <1>5, SumOnly
<1> QED
  BY <1>3, <1>6 DEF Sum, F

LEMMA TrendStep == TypeOK /\ FiniteInv => TrendMatchesReport
<1> SUFFICES ASSUME TypeOK, FiniteInv, NEW asker \in Askers, Tidy(asker),
                    NEW x \in TrendRows(asker, "excel_sales"),
                    NEW y \in TrendRows(asker, "excel_sales")
             PROVE  /\ WeeklyRevenue(asker, x.range) = RecordsTotal(x)
                    /\ y.range.start = PrevStart(x.range) /\ y.range.end = x.range.start - 1 =>
                           PreviousRevenue(asker, x.range) = RecordsTotal(y)
  BY DEF TrendMatchesReport
<1>1. x \in Visible(asker, "excel_sales") /\ y \in Visible(asker, "excel_sales")
  BY DEF TrendRows
<1>2. /\ x.range.start \in Int /\ x.range.end \in Int /\ x.range.start <= x.range.end
      /\ y.range.start \in Int /\ y.range.end \in Int /\ y.range.start <= y.range.end
  BY <1>1, RangeType
<1>3. Loaded(asker, x.range) \subseteq Visible(asker, "excel_sales")
  BY DEF Loaded
<1>4. WeeklyRevenue(asker, x.range) = RecordsTotal(x)
  <2>1. x \in Loaded(asker, x.range)
    BY <1>1, <1>2 DEF Loaded, Overlap, PrevStart
  <2> QED
    BY <1>1, <1>3, <2>1, OnlyOne DEF WeeklyRevenue
<1>5. ASSUME y.range.start = PrevStart(x.range), y.range.end = x.range.start - 1
      PROVE  PreviousRevenue(asker, x.range) = RecordsTotal(y)
  <2>1. y \in Loaded(asker, x.range)
    BY <1>1, <1>2, <1>5 DEF Loaded, Overlap, PrevStart
  <2> QED
    BY <1>1, <1>3, <1>5, <2>1, OnlyOne DEF PreviousRevenue
<1> QED
  BY <1>4, <1>5

\* Of tidy payloads the trends and the weekly report derive the same revenue, one
\* from all records of a payload, the other from all payloads by day, for the week
\* and the week before, for any ranges, sales and amounts.
THEOREM TrendTheorem == Spec => []TrendMatchesReport
<1>1. Spec => [](TypeOK /\ GivenInv /\ FiniteInv)
  BY TypeInitially, TypeStep, FiniteInitially, FiniteStep, PTL DEF Spec
<1> QED
  BY <1>1, TrendStep, PTL
=============================================================================
