---------------------------- MODULE CodeAliases ----------------------------
(***************************************************************************)
(* Aliases of instrument codes: the table a client resolves codes with,    *)
(* how the builder and a catalog fill it, and how a chain is followed.     *)
(* A table is a function from some codes to codes.                         *)
(***************************************************************************)
EXTENDS Integers, FiniteSetsExt

CONSTANTS Codes,   \* normalised codes: capitals without blanks
          Normal,  \* the code a spelling of it is normalised to
          Blank    \* the code without a character

ASSUME AliasAssumption ==
    /\ Codes \subseteq DOMAIN Normal
    /\ \A w \in DOMAIN Normal : Normal[w] \in Codes
    /\ \A c \in Codes : Normal[c] = c
    /\ Blank \in Codes

Spellings == DOMAIN Normal

(* The codes met when the aliases of a code are followed, far enough for   *)
(* every chain to have ended or to have come back to a code it has met.    *)
Trail(aliases, code) ==
    LET at[n \in 0..(Cardinality(DOMAIN aliases) + 1)] ==
            IF n = 0 THEN code
            ELSE IF at[n - 1] \in DOMAIN aliases THEN aliases[at[n - 1]]
            ELSE at[n - 1]
    IN  at

Visited(trail, n) == {trail[m] : m \in 0..(n - 1)}

(* ConfiguredClient::resolve_code_alias, and its mutant, which follows one *)
(* alias and not the chain.                                                *)
ResolveOneAlias(aliases, word) ==
    LET code == Normal[word]
    IN  IF code \in DOMAIN aliases THEN aliases[code] ELSE code

ResolveCodeAlias(aliases, word) ==
    LET trail   == Trail(aliases, Normal[word])
        Stop(n) == \/ trail[n] \notin DOMAIN aliases
                   \/ aliases[trail[n]] = trail[n]
                   \/ trail[n] \in Visited(trail, n)
    IN  trail[Min({n \in DOMAIN trail : Stop(n)})]

(* catalog.rs, resolve_alias_chain                                         *)
ResolveAliasChain(aliases, code) ==
    LET trail   == Trail(aliases, code)
        Stop(n) == \/ trail[n] \notin DOMAIN aliases
                   \/ trail[n] \in Visited(trail, n)
                   \/ aliases[trail[n]] = trail[n]
    IN  trail[Min({n \in DOMAIN trail : Stop(n)})]

(* The spellings in a catalog file, normalised; of two spellings of one    *)
(* alias the one collected last counts, and the order is that of a HashMap.*)
Normalisations(written) ==
    {f \in [{Normal[w] : w \in DOMAIN written} -> Codes] :
        \A a \in DOMAIN f : \E w \in DOMAIN written :
            Normal[w] = a /\ f[a] = Normal[written[w]]}

(* InstrumentCatalog::normalized_code_aliases                              *)
NormalizedCodeAliases(normal) ==
    [a \in DOMAIN normal |-> ResolveAliasChain(normal, a)]

(* InstrumentCatalog::resolve_code_alias                                   *)
CatalogResolve(normal, word) ==
    ResolveAliasChain(NormalizedCodeAliases(normal), Normal[word])

(* The part of InstrumentCatalog::validate that is about aliases.          *)
AliasesValid(normal, known, valid) ==
    LET aliases == NormalizedCodeAliases(normal)
    IN  \A a \in DOMAIN aliases : {a, aliases[a]} \subseteq valid /\ aliases[a] \in known

(* A table with the entries of another put over its own, as HashMap's      *)
(* insert and extend do.                                                   *)
Overlay(entries, table) ==
    [k \in DOMAIN entries \cup DOMAIN table |->
        IF k \in DOMAIN entries THEN entries[k] ELSE table[k]]

(* The builder's code_alias and with_instrument_catalog; a later entry     *)
(* replaces an earlier one.                                                *)
CodeAlias(aliases, alias, canonical) ==
    IF Normal[alias] # Normal[canonical] /\ Blank \notin {Normal[alias], Normal[canonical]}
    THEN Overlay([k \in {Normal[alias]} |-> Normal[canonical]], aliases)
    ELSE aliases

(* Mutant of WithInstrumentCatalog: entries that are there already are kept.*)
WithInstrumentCatalogKept(aliases, normal) == Overlay(aliases, NormalizedCodeAliases(normal))

WithInstrumentCatalog(aliases, normal) == Overlay(NormalizedCodeAliases(normal), aliases)
=============================================================================
