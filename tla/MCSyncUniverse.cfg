SPECIFICATION Spec
CONSTANTS
    Symbols <- MCSymbols
    Names <- MCNames
    Capital <- MCCapital
    BaseLen <- MCBaseLen
    Alnum <- MCAlnum
    Pages <- MCPages
    Clean <- MCClean
    Links <- MCLinks
    PageClass <- MCPageClass
    NameClass <- MCNameClass
    Concurrency = 2
    Sitemaps <- MCSitemaps
    Files <- MCFiles
INVARIANTS PagesTried OddSlugsSkipped ActivatedOnPurpose TornIsReported
PROPERTY KeepsChoices
