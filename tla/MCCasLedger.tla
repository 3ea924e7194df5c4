---------------------------- MODULE MCCasLedger ----------------------------
(* CasLedger for TLC: six transactions in two folios over two days.  2 and 3 *)
(* are near twins, 5 is printed exactly as 4, and 6 is bonus units.        *)
EXTENDS CasLedger

MCTxns == 1..6
MCFolio == <<"A", "A", "A", "B", "B", "B">>
MCDay == <<1, 2, 2, 1, 1, 2>>
MCUnits == <<5, 2, 2, 3, 3, 1>>
MCPrint == <<1, 2, 3, 4, 4, 6>>
MCNatKey == <<1, 2, 2, 4, 4, 6>>

St(k, from, to, folios, blanks, resolved) ==
  [kind |-> k, from |-> from, to |-> to, folios |-> folios, blanks |-> blanks,
   resolved |-> resolved]

MCStatements ==
  {St("cas", 1, 2, {"A", "B"}, {}, TRUE), St("cas", 2, 2, {"A"}, {}, TRUE),
   St("cas", 1, 1, {"A"}, {}, TRUE),      St("txt", 1, 2, {"A"}, {}, TRUE),
   St("xls", 1, 1, {"A", "B"}, {}, FALSE), St("cdsl", 1, 2, {"A"}, {"A"}, TRUE)}
=============================================================================
