--------------------------- MODULE MCWeeklyPayloads ---------------------------
(***************************************************************************)
(* Two whole weeks and a range across the second; sales of both weeks, one *)
(* on a first and one on a last day; files that are whole, unreadable, of  *)
(* the wrong week, or missing.                                             *)
(***************************************************************************)
EXTENDS WeeklyPayloads, TLC

CONSTANTS r1, r2, o1, o2, tea, soap, early, first, last,
    week1, week2, tail, wrong, broken

Week(start, end) == [start |-> start, end |-> end]
MCRanges == {Week(1, 7), Week(8, 14), Week(14, 16)}
MCWindows == MCRanges \cup {Week(10, 11), Week(15, 21)}

MCEntries == {early, first, last}
MCDay == early :> 3 @@ first :> 8 @@ last :> 14
MCAmount == early :> 1 @@ first :> 2 @@ last :> 4
MCProduct == early :> tea @@ first :> soap @@ last :> tea

MCContent == week1 :> {early} @@ week2 :> {first, last} @@ tail :> {last}
             @@ wrong :> {first} @@ broken :> {}

Send(range, sales, outflows) ==
    [range |-> range, file |-> "excel_sales" :> sales @@ "mpesa" :> outflows]
MCBundles ==
    {Send(Week(1, 7), week1, Absent), Send(Week(8, 14), week2, wrong),
     Send(Week(8, 14), broken, Absent), Send(Week(14, 16), tail, Absent),
     Send(Week(1, 7), wrong, week1)}

\* Requests are told apart by nothing else.
RequestSymmetry == Permutations(Requests)
=============================================================================
