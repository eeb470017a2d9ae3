----------------------------- MODULE MCNormalizer -----------------------------
(***************************************************************************)
(* Normalizer for TLC: sheets of up to three rows with two names of the    *)
(* total, and of up to two rows with a canonical name and another one, or  *)
(* with numbers that are too long (here 10.00 and more).                   *)
(***************************************************************************)
EXTENDS Normalizer, TLC

CONSTANTS Tea, KES, Shilling, Mobile, Landline, R1, A1, A2, Till

MCNames == {"date", "item", "qty", "price", "amount", "gross", "phone", "ref", "ccy",
            "code", "narrative", "in", "out", "sold", "product", "total", "receipt", "running"}
MCAliases ==
    LET sales == [date |-> {"date", "sold"}, product |-> {"product", "item"}, quantity |-> {"qty"}, price |-> {"price"},
                  total |-> {"total", "amount", "gross"}, phone |-> {"phone"}, invoice |-> {"ref"},
                  currency |-> {"ccy"}]
        mpesa == [date |-> {"date"}, code |-> {"code", "receipt"}, details |-> {"narrative"},
                  paid_in |-> {"in"}, withdrawn |-> {"out"}, balance |-> {"running"},
                  phone |-> {"phone"}]
        full(f) == [x \in Fields |-> IF x \in DOMAIN f THEN f[x] ELSE {}]
    IN  [d \in SheetKinds |-> IF d = "excel_sales" THEN full(sales) ELSE full(mpesa)]

\* 1.50 pieces at 0.33 make 0.50; the totals beside it are 0.50, 9.00 and -1.00.
Sale == [date |-> 1, item |-> Tea, qty |-> 150, price |-> 33, gross |-> None, amount |-> 50,
         phone |-> Mobile, ref |-> None, ccy |-> KES]
SaleRows == {Sale, [Sale EXCEPT !.date = None, !.item = None], [Sale EXCEPT !.qty = None],
             [Sale EXCEPT !.qty = 0, !.phone = None], [Sale EXCEPT !.gross = -100, !.item = None],
             [Sale EXCEPT !.gross = 900, !.phone = None], [Sale EXCEPT !.amount = 900],
             [Sale EXCEPT !.ref = R1, !.ccy = None, !.phone = Landline]}

Payment == [date |-> 1, code |-> A1, narrative |-> Till, in |-> 100, out |-> None, phone |-> None]
PaymentRows == {Payment, [Payment EXCEPT !.in = 0, !.out = 200], [Payment EXCEPT !.out = 100],
                [Payment EXCEPT !.in = None], [Payment EXCEPT !.narrative = None],
                [Payment EXCEPT !.code = A2, !.phone = Mobile], [Payment EXCEPT !.date = None]}

Without(row, columns) == [n \in DOMAIN row \ columns |-> row[n]]
SheetOf(d, rows, all, less, n) ==
    {[dataset |-> d, columns |-> DOMAIN all \ less, rows |-> [i \in 1..n |-> Without(s[i], less)]] :
        s \in [1..n -> rows]}
\* A sheet of up to two rows, each with one more column.
More(d, rows, n, cells, all) ==
    UNION {SheetOf(d, {row @@ (n :> cell) : row \in rows, cell \in cells}, all @@ (n :> 0), {}, k) : k \in 1..2}
FewSales == {Sale, [Sale EXCEPT !.item = None], [Sale EXCEPT !.price = 1000],
             [Sale EXCEPT !.qty = 900, !.price = 150], [Sale EXCEPT !.date = None, !.price = 1000]}
FewPayments == {Payment, [Payment EXCEPT !.in = -1000], [Payment EXCEPT !.code = None]}

MCSheets ==
    UNION {SheetOf("excel_sales", SaleRows, Sale, less, n)
               : less \in {{}, {"gross", "phone"}, {"qty", "item"}}, n \in 0..3}
    \cup UNION {SheetOf("mpesa", PaymentRows, Payment, less, n)
               : less \in {{}, {"phone"}, {"out"}, {"code"}}, n \in 0..3}
    \cup UNION {More("excel_sales", FewSales, n, {None, Tea}, Sale) : n \in {"product", "sold"}}
    \cup More("excel_sales", FewSales, "total", {None, 50}, Sale)
    \cup More("mpesa", FewPayments, "receipt", {None, A1}, Payment)
    \cup More("mpesa", FewPayments, "running", {150, 1000}, Payment)

MCCells == {None, Tea, KES, Shilling, Mobile, Landline, R1, A1, A2, Till}
               \cup {-1000, -100, 0, 1, 33, 50, 100, 150, 200, 900, 1000}
=============================================================================
