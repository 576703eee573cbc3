--------------------------- MODULE PairConversion ---------------------------
(***************************************************************************)
(* From a request to a rate: a pair is looked up as it is, a symbol is     *)
(* converted to a quote currency, directly, by the inverse pair or through *)
(* a bridge currency.  Each lookup is one get_exchange_rate, of which      *)
(* RateLookup models the inside.  Prices are positive or rounded to zero;  *)
(* a positive price is given by its logarithm, so that a product is a sum  *)
(* and a reciprocal a negation.                                            *)
(***************************************************************************)
EXTENDS RequestText, CodeAliases, Integers, FiniteSets, FiniteSetsExt

CONSTANTS Texts,        \* what a caller may type
          QuoteTexts,   \* the quote currencies it may ask for
          OwnAliases,   \* the builder's code_alias calls: sequences of <<alias, canonical>>
          Catalogs,     \* the aliases a catalog file may have
          CatalogCodes, \* the base and quote codes of a catalog's instruments
          BridgeTexts,  \* the argument of bridge_currencies
          DefaultQuotes,\* the values of default_quote_currency
          Prices        \* the quotes the feed may have for a pair

None == "none"

ASSUME ConversionAssumption ==
    /\ Codes \subseteq Words
    /\ DOMAIN Normal = Words
    /\ None \notin Codes
    /\ Texts \subseteq Seq(Words) \ {<<>>}
    /\ QuoteTexts \subseteq Words
    /\ DefaultQuotes \subseteq Words \cup {None}
    /\ BridgeTexts \in Seq(Words)
    /\ OwnAliases \subseteq Seq(Words \X Words)
    /\ \A c \in Catalogs : c \in [DOMAIN c -> Words] /\ DOMAIN c \subseteq Words
                             /\ IsFiniteSet(DOMAIN c)
    /\ Prices \subseteq [zero : BOOLEAN, bid : Int, rate : Int, ask : Int, time : Int]
    /\ \A q \in Prices : q.zero \/ (q.bid <= q.rate /\ q.rate <= q.ask)

VARIABLES client,   \* the configuration: aliases, policies, default quote
          text,     \* what was typed, until it is acted upon
          request,  \* what it was read as
          status,   \* where the conversion stands, or how it ended
          symbol, quote,  \* the codes to convert between, aliases resolved
          route,    \* 0 for the direct route, else the index of the bridge tried
          half,     \* which leg of the route is looked for
          inverse,  \* whether the inverse pair of that leg is asked for
          first,    \* the first leg, once found
          result,   \* the rate answered with, and its route
          answers   \* history: what the feed said of each pair that was fetched

conversionVars ==
    <<client, text, request, status, symbol, quote, route, half, inverse, first,
      result, answers>>

Over == {"ok", "rejected", "failed", "noroute", "notfound", "disabled", "noquote"}

Resolve(word) == ResolveCodeAlias(client.aliases, word)

(* DukascopyClientBuilder::bridge_currencies                               *)
BridgeCurrencies ==
    LET step[n \in 0..Len(BridgeTexts)] ==
            IF n = 0 THEN <<>>
            ELSE LET code == Normal[BridgeTexts[n]]
                     seen == {step[n - 1][i] : i \in DOMAIN step[n - 1]}
                 IN  IF code \in seen \cup {Blank} THEN step[n - 1]
                     ELSE Append(step[n - 1], code)
    IN  step[Len(BridgeTexts)]

(* The client a builder makes of code_alias calls and a catalog that loads.*)
WithAliases(calls) ==
    LET step[n \in 0..Len(calls)] ==
            IF n = 0 THEN <<>>
            ELSE CodeAlias(step[n - 1], calls[n][1], calls[n][2])
    IN  step[Len(calls)]

Clients ==
    {[aliases      |-> WithInstrumentCatalog(WithAliases(own), normal),
      own          |-> own,
      catalog      |-> normal,
      synthetic    |-> synthetic,
      explicitOnly |-> explicitOnly,
      defaultQuote |-> default] :
        own \in OwnAliases,
        normal \in {f \in UNION {Normalisations(c) : c \in Catalogs} :
                       AliasesValid(f, CatalogCodes, Valid)},
        synthetic \in BOOLEAN, explicitOnly \in BOOLEAN, default \in DefaultQuotes}

ConversionInit ==
    /\ client \in Clients
    /\ text = <<>> /\ request = Rejected
    /\ status = "idle"
    /\ symbol = None /\ quote = None
    /\ route = 0 /\ half = 1 /\ inverse = FALSE
    /\ first = None /\ result = None
    /\ answers = <<>>
-----------------------------------------------------------------------------
Read(words, mode) ==
    /\ status = "idle"
    /\ text' = words
    /\ request' = ParseWithMode(words, mode)
    /\ status' = IF request'.kind = "rejected" THEN "rejected" ELSE "read"
    /\ UNCHANGED <<client, symbol, quote, route, half, inverse, first, result, answers>>

(* get_exchange_rate_in_quote_with_path, up to its first lookup.           *)
Begin(from, to) ==
    /\ symbol' = Resolve(from)
    /\ quote' = Resolve(to)
    /\ CASE symbol' # quote' -> status' = "convert" /\ UNCHANGED result
         [] symbol' = quote' /\ symbol' \notin Valid -> status' = "failed" /\ UNCHANGED result
         [] OTHER -> status' = "ok" /\ result' = [path |-> "identity", legs |-> <<>>]

(* get_exchange_rate_for_request                                           *)
AskPair ==
    /\ status = "read" /\ request.kind = "pair"
    /\ symbol' = request.from /\ quote' = request.to
    /\ status' = "explicit"
    /\ text' = <<>>
    /\ UNCHANGED <<client, request, route, half, inverse, first, result, answers>>

AskSymbol ==
    /\ status = "read" /\ request.kind = "symbol"
    /\ CASE client.explicitOnly ->
                status' = "disabled" /\ UNCHANGED <<symbol, quote, result>>
         [] ~client.explicitOnly /\ client.defaultQuote = None ->
                status' = "noquote" /\ UNCHANGED <<symbol, quote, result>>
         [] OTHER -> Begin(request.code, client.defaultQuote)
    /\ text' = <<>>
    /\ UNCHANGED <<client, request, route, half, inverse, first, answers>>

AskInQuote(to) ==
    /\ status = "read" /\ request.kind = "symbol"
    /\ Begin(request.code, to)
    /\ text' = <<>>
    /\ UNCHANGED <<client, request, route, half, inverse, first, answers>>
-----------------------------------------------------------------------------
(* invert_exchange and its mutant, which leaves bid and ask in their place.*)
InvertInPlace(q) ==
    [q EXCEPT !.rate = -q.rate, !.ask = -q.ask, !.bid = -q.bid]

Invert(q) ==
    [q EXCEPT !.rate = -q.rate, !.ask = -q.bid, !.bid = -q.ask]

(* build_synthetic_exchange                                                *)
Synthetic(q1, q2) ==
    [zero |-> q1.zero \/ q2.zero,
     rate |-> q1.rate + q2.rate,
     bid  |-> Min({q1.bid + q2.bid, q1.ask + q2.ask}),
     ask  |-> Max({q1.bid + q2.bid, q1.ask + q2.ask}),
     time |-> Min({q1.time, q2.time})]

(* The bridges still to be tried after the route that has none.            *)
Eligible(after) ==
    {i \in DOMAIN BridgeCurrencies :
        i > after /\ BridgeCurrencies[i] \notin {symbol, quote}}

Leg == CASE route = 0              -> <<symbol, quote>>
         [] route # 0 /\ half = 1  -> <<symbol, BridgeCurrencies[route]>>
         [] OTHER                  -> <<BridgeCurrencies[route], quote>>

Asked == IF inverse THEN <<Leg[2], Leg[1]>> ELSE Leg

(* get_exchange_rate resolves aliases again and validates; the feed has no *)
(* file for a code against itself, and the same answer for a pair whenever *)
(* it is asked.                                                            *)
Fetched == <<Resolve(Asked[1]), Resolve(Asked[2])>>

Answers == {[kind |-> "none"], [kind |-> "error"]} \cup [kind : {"quote"}, quote : Prices]

AnswerTo(pair) ==
    IF pair[1] = pair[2] THEN {[kind |-> "none"]}
    ELSE IF pair \in DOMAIN answers THEN {answers[pair]}
    ELSE Answers

Ends(how) == status' = how /\ UNCHANGED <<route, half, inverse, first, result>>

Found(q) ==
    CASE route = 0 ->
            /\ status' = "ok"
            /\ result' = [path |-> "direct", legs |-> <<q>>, rate |-> q]
            /\ UNCHANGED <<route, half, inverse, first>>
      [] route # 0 /\ half = 1 ->
            /\ half' = 2 /\ inverse' = FALSE /\ first' = q
            /\ UNCHANGED <<status, route, result>>
      [] OTHER ->
            /\ status' = "ok"
            /\ result' = [path |-> "synthetic", legs |-> <<first, q>>,
                          rate |-> Synthetic(first, q)]
            /\ UNCHANGED <<route, half, inverse, first>>

(* Mutant of NextRoute: the inverse flag of the leg that failed is kept.   *)
NextRouteStillInverse ==
    IF (route = 0 /\ ~client.synthetic) \/ Eligible(route) = {} THEN Ends("noroute")
    ELSE /\ route' = Min(Eligible(route))
         /\ half' = 1 /\ first' = None
         /\ UNCHANGED <<status, inverse, result>>

NextRoute ==
    IF (route = 0 /\ ~client.synthetic) \/ Eligible(route) = {} THEN Ends("noroute")
    ELSE /\ route' = Min(Eligible(route))
         /\ half' = 1 /\ inverse' = FALSE /\ first' = None
         /\ UNCHANGED <<status, result>>

(* get_exchange_rate_direct_or_inverse, one lookup at a time.              *)
LookUp ==
    /\ status = "convert"
    /\ IF ~({Asked[1], Asked[2], Fetched[1], Fetched[2]} \subseteq Valid)
       THEN Ends("failed") /\ UNCHANGED answers
       ELSE \E a \in AnswerTo(Fetched) :
              /\ answers' = Overlay([p \in {Fetched} |-> a], answers)
              /\ CASE a.kind = "error"             -> Ends("failed")
                   [] a.kind = "none" /\ ~inverse  ->
                        inverse' = TRUE /\ UNCHANGED <<status, route, half, first, result>>
                   [] a.kind = "none" /\ inverse   -> NextRoute
                   [] a.kind = "quote" /\ ~inverse -> Found(a.quote)
                   [] OTHER -> IF a.quote.zero THEN Ends("failed") ELSE Found(Invert(a.quote))
    /\ UNCHANGED <<client, text, request, symbol, quote>>

(* The lookup of an explicit pair: that pair and nothing else.             *)
LookUpPair ==
    /\ status = "explicit"
    /\ LET pair == <<Resolve(symbol), Resolve(quote)>>
       IN  IF ~({pair[1], pair[2]} \subseteq Valid)
           THEN Ends("failed") /\ UNCHANGED answers
           ELSE \E a \in AnswerTo(pair) :
                  /\ answers' = Overlay([p \in {pair} |-> a], answers)
                  /\ CASE a.kind = "error" -> Ends("failed")
                       [] a.kind = "none"  -> Ends("notfound")
                       [] OTHER -> /\ status' = "ok"
                                   /\ result' = [path |-> "explicit", legs |-> <<a.quote>>,
                                                 rate |-> a.quote]
                                   /\ UNCHANGED <<route, half, inverse, first>>
    /\ UNCHANGED <<client, text, request, symbol, quote>>

(* The caller asks again.                                                  *)
Again ==
    /\ status \in Over
    /\ text' = <<>> /\ request' = Rejected
    /\ status' = "idle"
    /\ symbol' = None /\ quote' = None
    /\ route' = 0 /\ half' = 1 /\ inverse' = FALSE
    /\ first' = None /\ result' = None
    /\ answers' = <<>>
    /\ UNCHANGED client

ConversionNext ==
    \/ \E words \in Texts, mode \in Modes : Read(words, mode)
    \/ AskPair
    \/ AskSymbol
    \/ \E to \in QuoteTexts : AskInQuote(to)
    \/ LookUp
    \/ LookUpPair
    \/ Again

ConversionSpec == ConversionInit /\ [][ConversionNext]_conversionVars
-----------------------------------------------------------------------------
(* Reading a request: what a text is read as, in the modes that tell pairs *)
(* from symbols, is displayed as a text that Auto reads as the same, and   *)
(* the capitals do not matter.  It is not so in SymbolOnly: the symbol     *)
(* EURUSD is displayed as EURUSD, which Auto reads as a pair.              *)
ReadsBack ==
    text # <<>> =>
        \A mode \in {"Auto", "PairOnly"} :
            LET r == ParseWithMode(text, mode)
            IN  r # Rejected =>
                    /\ ParseWithMode(Display(r), "Auto") = r
                    /\ ParseWithMode([i \in DOMAIN text |-> Upper[text[i]]], mode) = r

(* The readers agree: the quick path for compact pairs accepts only what   *)
(* validation would, and a text that Auto reads as a pair is that pair to  *)
(* PairOnly and to Ticker::parse.                                          *)
ReadersAgree ==
    text # <<>> =>
        /\ IsCompactPair(text) => NewPair(text[1], text[2]) = ParsePairWithSlash(text)
        /\ LET r == ParseWithMode(text, "Auto")
           IN  r.kind = "pair" => r = ParseWithMode(text, "PairOnly") /\ r = ParsePair(text)

(* What the feed said of the leg from one code to another.                 *)
Quoted(from, to) ==
    {answers[p].quote : p \in {d \in DOMAIN answers :
                                  d = <<Resolve(from), Resolve(to)>> /\ answers[d].kind = "quote"}}

LegQuotes(from, to) ==
    Quoted(from, to) \cup {Invert(q) : q \in Quoted(to, from)}

LegMissing(from, to) ==
    LET a == Resolve(from)
        b == Resolve(to)
    IN  \A pair \in {<<a, b>>, <<b, a>>} :
            pair \in DOMAIN answers /\ answers[pair].kind = "none"

RouteMissing(i) ==
    \/ LegMissing(symbol, BridgeCurrencies[i])
    \/ LegMissing(BridgeCurrencies[i], quote)

(* A symbol is converted by the first route there is, the direct one and   *)
(* then the bridges in the order configured, from quotes the feed has for  *)
(* its legs; no route is reported only when every route was looked for.    *)
FirstRouteWins ==
    /\ status = "ok" /\ result.path = "direct" =>
           result.legs[1] \in LegQuotes(symbol, quote)
    /\ status = "ok" /\ result.path = "synthetic" =>
           /\ client.synthetic /\ LegMissing(symbol, quote)
           /\ \E i \in Eligible(0) :
                  /\ result.legs[1] \in LegQuotes(symbol, BridgeCurrencies[i])
                  /\ result.legs[2] \in LegQuotes(BridgeCurrencies[i], quote)
                  /\ \A j \in Eligible(0) : j < i => RouteMissing(j)
    /\ status = "noroute" =>
           /\ LegMissing(symbol, quote)
           /\ client.synthetic => \A i \in Eligible(0) : RouteMissing(i)

(* However a rate is put together, by inversion or over a bridge, its bid  *)
(* is not above it and its ask not below it.                               *)
QuotesOrdered ==
    status = "ok" /\ result.path # "identity" =>
        result.rate.zero \/ (/\ result.rate.bid <= result.rate.rate
                             /\ result.rate.rate <= result.rate.ask)

(* A conversion resolves aliases before its lookups and each lookup again: *)
(* what is fetched is a code at the end of its chain, or on its cycle, so  *)
(* that resolving twice is resolving once.                                 *)
FetchesCanonical ==
    \A pair \in DOMAIN answers : \A i \in 1..2 : Resolve(pair[i]) = pair[i]

(* CHANGELOG.md: "Alias handling in client/catalog now resolves to final   *)
(* canonical code consistently."  A code the catalog has an alias for is   *)
(* resolved by the client as by the catalog, whatever code_alias said of   *)
(* it, unless code_alias gave the canonical code another meaning.          *)
CatalogWins ==
    \A w \in Words :
        LET c == CatalogResolve(client.catalog, w)
        IN  /\ Normal[w] \in DOMAIN client.catalog
            /\ c \notin {Normal[client.own[i][1]] : i \in DOMAIN client.own}
            => Resolve(w) = c /\ c \in CatalogCodes
=============================================================================
