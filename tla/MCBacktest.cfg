SPECIFICATION Spec
CONSTANTS
    None = None
    Alerts <- MCAlerts
    Prices <- MCPrices
    Ranges <- MCRanges
    Capital = 3
    Window = 2
    Step = 2
    Day = 2
    Holding = 10
    Dims = {gex, vix}
INVARIANTS
    TypeOK
    TradesRunForward
    FoldsAddUp
    BooksBalance
