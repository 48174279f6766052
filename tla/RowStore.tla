------------------------------ MODULE RowStore ------------------------------
(***************************************************************************)
(* How the stores save a row they read earlier (DbShareStore,              *)
(* DbInformationRequestStore): select the stored row, then insert the copy *)
(* when there was none, or update the columns that differ from the row     *)
(* selected.  No transaction or concurrency token joins the two            *)
(* statements.  "none" stands for the absent row.                          *)
(***************************************************************************)
EXTENDS Integers

(* Math.Max(1, n)                                                          *)
AtLeast1(n) == IF n < 1 THEN 1 ELSE n

(* EF Core writes the columns that differ from the row it selected.        *)
Column(stored, selected, copy) == IF copy = selected THEN stored ELSE copy

(* SaveChanges fails when the row to update has gone, or the key of the    *)
(* row to insert exists; with no changed column it issues no statement.    *)
Saves(none, stored, selected, copy) ==
    IF selected = none THEN stored = none
                       ELSE stored # none \/ copy = selected
=============================================================================
