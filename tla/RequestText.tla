---------------------------- MODULE RequestText ----------------------------
(***************************************************************************)
(* models.rs: from what a caller types to a pair or a symbol.  A text is   *)
(* the sequence of the words between its slashes, after the blanks around  *)
(* the whole of it are dropped; a word is an atom of which the code tells  *)
(* only what the constants say.                                            *)
(***************************************************************************)
EXTENDS Naturals, Sequences

CONSTANTS Words,    \* texts without a slash
          Trim,     \* a word without the blanks around it
          Upper,    \* a word in capitals
          Valid,    \* the words of 2 to 12 letters or digits, and no other byte
          Three,    \* those of three of them
          Letters,  \* the words of letters only
          Halves,   \* the two halves of the words of six bytes
          Known     \* the currency codes the library knows

ASSUME TextAssumption ==
    /\ Trim \in [Words -> Words]
    /\ Upper \in [Words -> Words]
    /\ Three \subseteq Valid
    /\ Valid \subseteq Words
    /\ Letters \subseteq Words
    /\ Known \subseteq Three
    /\ DOMAIN Halves \subseteq Words
    /\ \A w \in DOMAIN Halves : Halves[w] \in Words \X Words
    /\ \A w \in DOMAIN Halves \cap Letters : Halves[w] \in Three \X Three
    /\ \A w \in Words : Upper[Upper[w]] = Upper[w] /\ Trim[Trim[w]] = Trim[w]
    /\ \A w \in Words : Trim[Upper[w]] = Upper[Trim[w]]
    /\ \A w \in Valid : Trim[w] = w
    /\ \A kind \in {Valid, Three, Letters, DOMAIN Halves} : \A w \in Words :
           Upper[w] \in kind <=> w \in kind
    /\ \A w \in DOMAIN Halves :
           Halves[Upper[w]] = <<Upper[Halves[w][1]], Upper[Halves[w][2]]>>

Rejected       == [kind |-> "rejected"]
Symbol(code)   == [kind |-> "symbol", code |-> code]
Pair(from, to) == [kind |-> "pair", from |-> from, to |-> to]

(* CurrencyPair::new and CurrencyPair::try_new                             *)
NewPair(from, to) == Pair(Upper[from], Upper[to])

TryNewPair(from, to) == IF {from, to} \subseteq Valid THEN NewPair(from, to) ELSE Rejected

ParseSymbol(text) ==
    IF Len(text) = 1 /\ text[1] \in Valid THEN Symbol(Upper[text[1]]) ELSE Rejected

(* The quick path for EUR/USD, which skips the validation; its mutant does *)
(* not look at the second code.                                            *)
IsCompactPairOneSided(text) ==
    Len(text) = 2 /\ text[1] \in Three

IsCompactPair(text) ==
    Len(text) = 2 /\ {text[1], text[2]} \subseteq Three

HasSlash(text) == Len(text) > 1

ParsePairWithSlash(text) ==
    IF Len(text) = 2 THEN TryNewPair(Trim[text[1]], Trim[text[2]]) ELSE Rejected

IsPairShorthand(text) ==
    Len(text) = 1 /\ text[1] \in DOMAIN Halves \cap Letters

(* Mutant of IsKnownShorthand: the codes must be typed in capitals.        *)
IsKnownShorthandInCapitals(text) ==
    /\ IsPairShorthand(text)
    /\ Halves[text[1]] \in Known \X Known

IsKnownShorthand(text) ==
    /\ IsPairShorthand(text)
    /\ \A i \in 1..2 : Upper[Halves[text[1]][i]] \in Known

FromHalves(text) == NewPair(Halves[text[1]][1], Halves[text[1]][2])

Modes == {"Auto", "PairOnly", "SymbolOnly"}

(* RateRequest::parse_with_mode                                            *)
ParseWithMode(text, mode) ==
    IF mode = "SymbolOnly" THEN ParseSymbol(text)
    ELSE IF IsCompactPair(text) THEN NewPair(text[1], text[2])
    ELSE IF HasSlash(text) THEN ParsePairWithSlash(text)
    ELSE IF mode = "Auto"
         THEN IF IsKnownShorthand(text) THEN FromHalves(text) ELSE ParseSymbol(text)
    ELSE IF IsPairShorthand(text) THEN FromHalves(text)
    ELSE Rejected

(* CurrencyPair::from_str, which Ticker::parse uses.                       *)
ParsePair(text) ==
    IF HasSlash(text) THEN ParsePairWithSlash(text)
    ELSE IF text[1] \in DOMAIN Halves
         THEN TryNewPair(Halves[text[1]][1], Halves[text[1]][2])
    ELSE Rejected

(* fmt::Display                                                            *)
Display(request) ==
    IF request.kind = "pair" THEN <<request.from, request.to>> ELSE <<request.code>>
=============================================================================
