SPECIFICATION LedgerSpec
CONSTANTS
  Txns <- MCTxns
  Folio <- MCFolio
  Day <- MCDay
  Units <- MCUnits
  Row <- MCPrint
  NatKey <- MCNatKey
  Unlisted = {6}
  Statements <- MCStatements
  Blank = "none"
  MaxDay = 2
INVARIANTS LedgerTypeOK NoDoubleCount SeriesAgrees
PROPERTIES ReuploadAddsNothing NoSecondPrint
