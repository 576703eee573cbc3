-------------------------- MODULE MCPairConversion --------------------------
(* Requests and conversions over a dozen words: pairs and symbols in all   *)
(* spellings, chains and cycles of aliases, two bridges, prices that are   *)
(* above one, below one and rounded to zero.                               *)
EXTENDS PairConversion, TLC

Capitals == {"EUR", "USD", "PLN", "ABCDEF", "EURUSD", "ABC", "DEF", "SP500", "US500", "X",
             "U$D", ""}

UpperTable ==
    ("eur" :> "EUR") @@ ("usd" :> "USD") @@ ("eurusd" :> "EURUSD") @@ (" usd" :> " USD")
        @@ [w \in Capitals \cup {" USD"} |-> w]
MCWords  == DOMAIN UpperTable
MCTrim   == (" usd" :> "usd") @@ (" USD" :> "USD") @@ [w \in MCWords |-> w]
MCNormal == [w \in MCWords |-> UpperTable[MCTrim[w]]]
MCThree  == {"EUR", "eur", "USD", "usd", "PLN", "ABC", "DEF"}
MCValid  == MCThree \cup {"ABCDEF", "EURUSD", "eurusd", "SP500", "US500"}
MCLetters == MCThree \cup {"ABCDEF", "EURUSD", "eurusd", "X"}
MCHalves == ("EURUSD" :> <<"EUR", "USD">>) @@ ("eurusd" :> <<"eur", "usd">>)
                @@ ("ABCDEF" :> <<"ABC", "DEF">>)
MCKnown  == {"EUR", "USD", "PLN"}

MCTexts ==
    {<<"EUR", "USD">>, <<"eur", " usd">>, <<"PLN", "U$D">>, <<"EUR", "USD", "PLN">>,
     <<"SP500", "USD">>, <<"eurusd">>, <<"EURUSD">>, <<"ABCDEF">>, <<"SP500">>, <<"PLN">>,
     <<"usd">>, <<"X">>, <<"">>}

MCOwnAliases ==
    {<<>>,
     << <<"SP500", "eur">>, <<"", "PLN">>, <<"usd", "USD">> >>,
     << <<"SP500", "US500">>, <<"US500", "ABCDEF">>, <<"ABCDEF", "PLN">> >>,
     << <<"SP500", "US500">>, <<"US500", "SP500">> >>,
     << <<"EUR", "USD">>, <<"PLN", "X">> >>}

MCBridgeTexts == <<"usd", "", "PLN", "USD", "EUR">>

NoAliases == [w \in {} |-> ""]
MCCatalogs ==
    {NoAliases,
     ("SP500" :> "US500") @@ ("US500" :> "PLN"),
     ("EUR" :> "SP500") @@ ("eur" :> "USD")}

MCPrices ==
    {[zero |-> FALSE, bid |-> 1, rate |-> 2, ask |-> 4, time |-> 1],
     [zero |-> FALSE, bid |-> -3, rate |-> -1, ask |-> -1, time |-> 2],
     [zero |-> TRUE, bid |-> 0, rate |-> 0, ask |-> 0, time |-> 2]}
=============================================================================
