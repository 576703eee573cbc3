SPECIFICATION ConversionSpec
CONSTANTS
    Words <- MCWords
    Trim <- MCTrim
    Upper <- UpperTable
    Valid <- MCValid
    Three <- MCThree
    Letters <- MCLetters
    Halves <- MCHalves
    Known <- MCKnown
    Codes <- Capitals
    Normal <- MCNormal
    Blank = ""
    Texts <- MCTexts
    QuoteTexts = {"usd", "EUR"}
    OwnAliases <- MCOwnAliases
    Catalogs <- MCCatalogs
    CatalogCodes = {"EUR", "USD", "PLN"}
    BridgeTexts <- MCBridgeTexts
    DefaultQuotes = {"none", "EUR"}
    Prices <- MCPrices
INVARIANTS
    ReadsBack
    ReadersAgree
    FirstRouteWins
    QuotesOrdered
    FetchesCanonical
    CatalogWins
