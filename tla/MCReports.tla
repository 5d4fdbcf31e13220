----------------------------- MODULE MCReports -----------------------------
(***************************************************************************)
(* The reports on small ledgers around the end of a year: a day in         *)
(* December, one in January and one before the 15th of February.           *)
(***************************************************************************)
EXTENDS Reports, TLC

December20 == 354
January20 == 385
February10 == 406
OrderOn == {December20, January20}

Bank == "bank"
Till == "till"
BothAccounts == {Bank, Till}
TheTill == {Till}
OpeningSums == (Bank :> 1000) @@ (Till :> 0)

\* Piece is under Wages, which has the name of the system group "salary".
None == "-"
TheCategories == {"Wages", "Piece", "Enp", "Goods", "Sales", "Misc"}
Kinds == [c \in TheCategories |-> IF c \in {"Sales", "Misc"} THEN "INCOME" ELSE "EXPENSE"]
Parents == [c \in TheCategories |-> IF c = "Piece" THEN "Wages" ELSE None]
Groups == ("Wages" :> "FIXED") @@ ("Piece" :> "VARIABLE") @@ ("Enp" :> "TAX") @@ ("Goods" :> "PURCHASES")
          @@ ("Sales" :> "REVENUE") @@ ("Misc" :> "OTHER")
Names == [c \in TheCategories |-> IF c = "Wages" THEN "salary" ELSE "none"]
Regrouped == {<<"Misc", "CAPITAL">>}

Entry(at, type, kind, cat, acc, amount) ==
  [at |-> at, type |-> type, kind |-> kind, cat |-> cat, acc |-> acc, amount |-> amount]
TheEntries ==
  { Entry(December20, "EXPENSE", "OTHER", "Piece", Bank, 115),
    Entry(January20, "EXPENSE", "SALARY", None, Till, 85),
    Entry(January20, "EXPENSE", "OTHER", "Enp", Bank, 100),
    Entry(February10, "EXPENSE", "OTHER", "Enp", Bank, 100),
    Entry(December20, "EXPENSE", "TAX", None, Bank, 100),
    Entry(December20, "EXPENSE", "OTHER", "Goods", Bank, 100),
    Entry(December20, "INCOME", "OTHER", "Sales", Bank, 705),
    Entry(January20, "INCOME", "OTHER", "Misc", Bank, 300) }
Moves == {<<Bank, Till, 300, January20>>}
Buttons == {<<11, Bank, 300, January20>>}
PayIn == {<<Bank, 300>>}
PurchasedOn == {December20}
LostOn == {January20}
Removed == {"Piece"}

Orders == {"o", "p"}
Lines == ("o" :> 2) @@ ("p" :> 1)
PriceOf == ("o" :> 310) @@ ("p" :> 470)
DiscountOf == ("o" :> 95) @@ ("p" :> 0)
TheClient == ("o" :> "client") @@ ("p" :> "another")
Costs == <<110, 195, 330, 270>>
=============================================================================
