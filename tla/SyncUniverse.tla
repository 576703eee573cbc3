---------------------------- MODULE SyncUniverse ----------------------------
(***************************************************************************)
(* fx_fetcher sync-universe: the instruments a site lists are merged into  *)
(* the catalog file, which its user edits and other commands select from.  *)
(* The file is read, then the site is asked, page by page, and the file is *)
(* written in place: it is empty until the write is complete.              *)
(***************************************************************************)
EXTENDS Integers, Sequences, FiniteSets, FiniteSetsExt, Functions

CONSTANTS Symbols,      \* symbols in capitals; a slug of the site is one of them
          Names,        \* the spellings of symbols in the file
          Capital,      \* the symbol a name spells
          BaseLen,      \* the characters of a symbol before the last three
          Alnum,        \* the symbols of letters and digits only
          Clean,        \* those and the categories that dashes may be in as well
          Pages,        \* the categories of the site: slugs of pages
          Links,        \* the instruments a page links to
          PageClass,    \* the class that being on a page means, or "Other" for none
          NameClass,    \* the class a symbol looks like by its codes
          Concurrency,  \* CATEGORY_FETCH_CONCURRENCY
          Sitemaps,     \* what the site may list, in order, up to an error in it
          Files         \* what the user may write into the file

Classes == <<"Metal", "Fx", "Index", "Crypto", "Commodity", "Equity">>

ClassNames == {Classes[i] : i \in DOMAIN Classes} \cup {"Other"}

Entries == [name : Names, class : ClassNames, active : BOOLEAN]

(* InstrumentCatalog::validate                                             *)
ValidSymbol(s) == s \in Alnum /\ BaseLen[s] + 3 >= 6 /\ BaseLen[s] \in 2..12

ValidCatalog(entries) == entries # {} /\ \A e \in entries : ValidSymbol(Capital[e.name])

ASSUME UniverseAssumption ==
    /\ Symbols \subseteq Names
    /\ Capital \in [Names -> Symbols]
    /\ \A s \in Symbols : Capital[s] = s
    /\ BaseLen \in [Symbols -> Nat]
    /\ Alnum \subseteq Clean
    /\ Links \in [Pages -> SUBSET Symbols]
    /\ PageClass \in [Pages -> ClassNames]
    /\ NameClass \in [Symbols -> ClassNames]
    /\ Sitemaps \subseteq Seq([under : {"instrument"}, slug : Symbols]
                                \cup [under : {"instruments"}, slug : Pages]
                                \cup [under : {"broken"}])
    /\ Concurrency \in Nat \ {0}
    /\ \A f \in Files : f \subseteq Entries /\ ValidCatalog(f)

VARIABLES file,      \* what the file holds, or held before the write under way
          torn,      \* whether it is incomplete, so that it does not open
          phase,     \* where the sync stands
          last,      \* how the last sync ended
          options,   \* dry_run and activate_new
          seen,      \* existing_catalog
          listed,    \* instrument_slugs
          pending,   \* pages not yet asked for
          inFlight,  \* pages being fetched
          obtained,  \* pages fetched: the keys of category_membership
          merged,    \* merged_catalog
          edited,    \* history: the file was edited since the sync read it
          wanted     \* history: the symbols a user or --activate-new made active

vars == <<file, torn, phase, last, options, seen, listed, pending, inFlight, obtained,
          merged, edited, wanted>>
disk == <<file, torn>>
site == <<listed, pending, inFlight, obtained>>
user == <<edited, wanted>>

NoOptions == [dryRun |-> FALSE, activateNew |-> FALSE]

Spelled(entries) == {Capital[e.name] : e \in entries}
ActiveIn(entries) == {Capital[e.name] : e \in {k \in entries : k.active}}

(* One entry for each key: where the code takes the first or the last in   *)
(* the order of the file, which the model does not keep.                   *)
OneEach(entries, key) ==
    {k \in SUBSET entries : LET keys == {key[e] : e \in entries}
                            IN  {key[e] : e \in k} = keys /\ Cardinality(k) = Cardinality(keys)}

Init ==
    /\ file \in Files /\ torn = FALSE
    /\ phase = "idle" /\ last = "ok" /\ options = NoOptions
    /\ seen = {} /\ listed = {} /\ pending = {} /\ inFlight = {} /\ obtained = {}
    /\ merged = {}
    /\ edited = FALSE /\ wanted = ActiveIn(file)
-----------------------------------------------------------------------------
(* The sync returns, or its process dies: nothing of it is left.           *)
End(how) ==
    /\ phase' = "idle" /\ last' = how /\ options' = NoOptions
    /\ seen' = {} /\ listed' = {} /\ pending' = {} /\ inFlight' = {} /\ obtained' = {}
    /\ merged' = {}
    /\ edited' = FALSE

(* run_sync_universe: the options, and the file, which must open.          *)
StartSync(dryRun, activateNew) ==
    /\ phase = "idle"
    /\ IF torn
       THEN End("failed")
       ELSE /\ phase' = "sitemap"
            /\ seen' = file
            /\ options' = [dryRun |-> dryRun, activateNew |-> activateNew]
            /\ UNCHANGED <<last, site, merged, edited>>
    /\ UNCHANGED <<disk, wanted>>

SitemapFails ==
    /\ phase = "sitemap"
    /\ End("failed")
    /\ UNCHANGED <<disk, wanted>>

(* extract_slugs_from_sitemap: the slugs below an address, of the entries  *)
(* before the first that is not well-formed.                               *)
SlugsUnder(sitemap, address) ==
    {sitemap[i].slug : i \in {k \in DOMAIN sitemap :
        /\ sitemap[k].under = address /\ sitemap[k].slug \in Clean
        /\ \A j \in 1..k : sitemap[j].under # "broken"}}

(* extract_instrument_slugs_from_html                                      *)
SlugsOn(page) == {s \in Links[page] : s \in Clean /\ BaseLen[s] + 3 >= 4}

(* discover_instruments_from_source: a sitemap without instruments is an   *)
(* error.  As many pages as are allowed are asked for; without a client    *)
(* for them none is, as if all had failed.                                 *)
SitemapRead(sitemap, hasClient) ==
    LET categories == SlugsUnder(sitemap, "instruments")
        instruments == SlugsUnder(sitemap, "instrument")
    IN  /\ phase = "sitemap"
        /\ instruments # {}
        /\ listed' = instruments
        /\ IF hasClient
           THEN \E first \in kSubset(Min({Concurrency, Cardinality(categories)}), categories) :
                    inFlight' = first /\ pending' = categories \ first
           ELSE UNCHANGED <<inFlight, pending>>
        /\ phase' = "pages"
        /\ UNCHANGED <<disk, last, options, seen, obtained, merged, user>>

SitemapEmpty(sitemap) ==
    /\ phase = "sitemap"
    /\ SlugsUnder(sitemap, "instrument") = {}
    /\ End("failed")
    /\ UNCHANGED <<disk, wanted>>

(* fetch_category_membership: a page arrives or fails, and the next is     *)
(* asked for; one without a link to an instrument counts as failed.        *)
(* Mutant: after a failure no further page is asked for.                   *)
PageEndsNoRefill(page, arrives) ==
    /\ phase = "pages"
    /\ page \in inFlight
    /\ arrives => SlugsOn(page) # {}
    /\ obtained' = IF arrives THEN obtained \cup {page} ELSE obtained
    /\ IF pending = {} \/ ~arrives
       THEN inFlight' = inFlight \ {page} /\ UNCHANGED pending
       ELSE \E next \in pending : /\ inFlight' = (inFlight \ {page}) \cup {next}
                                  /\ pending' = pending \ {next}
    /\ UNCHANGED <<disk, phase, last, options, seen, listed, merged, user>>

PageEnds(page, arrives) ==
    /\ phase = "pages"
    /\ page \in inFlight
    /\ arrives => SlugsOn(page) # {}
    /\ obtained' = IF arrives THEN obtained \cup {page} ELSE obtained
    /\ IF pending = {}
       THEN inFlight' = inFlight \ {page} /\ UNCHANGED pending
       ELSE \E next \in pending : /\ inFlight' = (inFlight \ {page}) \cup {next}
                                  /\ pending' = pending \ {next}
    /\ UNCHANGED <<disk, phase, last, options, seen, listed, merged, user>>
-----------------------------------------------------------------------------
(* split_symbol_slug, and its mutant without the bound of the base.        *)
SplitsAnyLength(s) == s \in Alnum /\ BaseLen[s] + 3 >= 6

Splits(s) == s \in Alnum /\ BaseLen[s] + 3 >= 6 /\ BaseLen[s] \in 2..12

(* infer_asset_class: the pages in order of weight, then the name.         *)
InferAssetClass(s) ==
    LET classes == {PageClass[p] : p \in {q \in obtained : s \in SlugsOn(q)}}
        known   == {i \in DOMAIN Classes : Classes[i] \in classes}
    IN  IF known = {} THEN NameClass[s] ELSE Classes[Min(known)]

Discovered == [s \in {t \in listed : Splits(t)} |-> InferAssetClass(s)]

(* Mutants of Merge: the index is by name and not by symbol in capitals;   *)
(* new instruments are active, which is the default of the file's format.  *)
MergeByName(index, found) ==
    {IF e \in index /\ e.name \in DOMAIN found /\ e.class = "Other"
     THEN [e EXCEPT !.class = found[e.name]] ELSE e : e \in seen}
    \cup {[name |-> s, class |-> found[s], active |-> options.activateNew] :
              s \in DOMAIN found \ {e.name : e \in seen}}

MergeActive(index, found) ==
    {IF e \in index /\ Capital[e.name] \in DOMAIN found /\ e.class = "Other"
     THEN [e EXCEPT !.class = found[Capital[e.name]]] ELSE e : e \in seen}
    \cup {[name |-> s, class |-> found[s], active |-> TRUE] :
              s \in DOMAIN found \ Spelled(seen)}

(* merge_catalog_with_discovery: entries stay as they are, but for a class *)
(* that was Other; symbols that no entry has are added.                    *)
Merge(index, found) ==
    {IF e \in index /\ Capital[e.name] \in DOMAIN found /\ e.class = "Other"
     THEN [e EXCEPT !.class = found[Capital[e.name]]] ELSE e : e \in seen}
    \cup {[name |-> s, class |-> found[s], active |-> options.activateNew] :
              s \in DOMAIN found \ Spelled(seen)}

(* write_catalog_file validates what it is about to write.                 *)
MergeDiscovered ==
    /\ phase = "pages" /\ inFlight = {}
    /\ \E index \in OneEach(seen, [e \in seen |-> Capital[e.name]]) :
           LET catalog == Merge(index, Discovered)
           IN  CASE options.dryRun -> End("dry run")
                 [] ~options.dryRun /\ ~ValidCatalog(catalog) -> End("invalid")
                 [] OTHER -> /\ merged' = catalog
                             /\ phase' = "write"
                             /\ UNCHANGED <<last, options, seen, site, edited>>
    /\ UNCHANGED <<disk, wanted>>

(* fs::write: the file is truncated, then filled.                          *)
BeginWrite ==
    /\ phase = "write"
    /\ torn' = TRUE
    /\ phase' = "writing"
    /\ UNCHANGED <<file, last, options, seen, site, merged, user>>

EndWrite ==
    /\ phase = "writing"
    /\ file' = merged /\ torn' = FALSE
    /\ wanted' = IF options.activateNew THEN wanted \cup ActiveIn(merged) ELSE wanted
    /\ End("ok")

(* Mutant of WriteFails: the error of the write is not passed on.          *)
WriteFailsSilently ==
    /\ phase = "writing"
    /\ End("ok")
    /\ UNCHANGED <<disk, wanted>>

WriteFails ==
    /\ phase = "writing"
    /\ End("failed")
    /\ UNCHANGED <<disk, wanted>>

Crash ==
    /\ phase # "idle"
    /\ End("crashed")
    /\ UNCHANGED <<disk, wanted>>
-----------------------------------------------------------------------------
(* The user saves the file, with an editor that replaces it whole, but not *)
(* in the moment of the sync's own write.                                  *)
Edit(entries) ==
    /\ phase # "writing"
    /\ file' = entries /\ torn' = FALSE
    /\ edited' = (phase # "idle")
    /\ wanted' = wanted \cup ActiveIn(entries)
    /\ UNCHANGED <<phase, last, options, seen, site, merged>>

(* InstrumentCatalog::active_instruments, which list-instruments shows     *)
ActiveInstruments(entries) == {e \in entries : e.active}

(* InstrumentCatalog::find, for each of some symbols: they are put in      *)
(* capitals, the symbols of the file are not.                              *)
Finds(entries, symbols) ==
    OneEach({e \in entries : e.name \in symbols}, [e \in entries |-> e.name])

(* InstrumentCatalog::select_active: all that are active, or those named;  *)
(* a name that is not found or not active is an error.                     *)
SelectActive(found, symbols) ==
    IF symbols = {} THEN ActiveInstruments(file)
    ELSE IF {e.name : e \in found} = symbols /\ \A e \in found : e.active THEN found
    ELSE {}

(* What list-instruments, backfill or update may select if it opens the    *)
(* catalog now.                                                            *)
Selections(symbols) ==
    IF torn THEN {{}} ELSE {SelectActive(found, symbols) : found \in Finds(file, symbols)}

Next ==
    \/ \E dryRun, activateNew \in BOOLEAN : StartSync(dryRun, activateNew)
    \/ SitemapFails
    \/ \E sitemap \in Sitemaps, hasClient \in BOOLEAN : SitemapRead(sitemap, hasClient)
    \/ \E sitemap \in Sitemaps : SitemapEmpty(sitemap)
    \/ \E page \in Pages, arrives \in BOOLEAN : PageEnds(page, arrives)
    \/ MergeDiscovered
    \/ BeginWrite
    \/ EndWrite
    \/ WriteFails
    \/ Crash
    \/ \E entries \in Files : Edit(entries)

Spec == Init /\ [][Next]_vars
-----------------------------------------------------------------------------
TypeOK ==
    /\ file \in SUBSET Entries /\ seen \in SUBSET Entries /\ merged \in SUBSET Entries
    /\ phase \in {"idle", "sitemap", "pages", "write", "writing"}
    /\ last \in {"ok", "dry run", "invalid", "failed", "crashed"}
    /\ options \in [dryRun : BOOLEAN, activateNew : BOOLEAN]
    /\ listed \in SUBSET Symbols /\ wanted \in SUBSET Symbols
    /\ {pending, inFlight, obtained} \subseteq SUBSET Pages
    /\ {torn, edited} \subseteq BOOLEAN

(* A sync that is not overtaken by the user's edit keeps what the user has *)
(* decided: every instrument of the file stays, under the spelling it has, *)
(* switched on or off as it was, in its class unless that was Other; and   *)
(* an instrument that is new is one that no spelling in the file names.    *)
KeepsChoices ==
    [][phase = "writing" /\ last' = "ok" /\ phase' = "idle" /\ ~edited =>
          /\ \A e \in file : \E k \in file' :
                 /\ k.name = e.name /\ k.active = e.active
                 /\ e.class \in {"Other", k.class}
          /\ \A k \in file' : \/ k.name \in {e.name : e \in file}
                              \/ /\ Capital[k.name] \notin Spelled(file)
                                 /\ k.active = options.activateNew]_vars

(* No page is forgotten because another failed, and no more are asked for  *)
(* at once than is allowed: when no answer is awaited none is left to ask. *)
PagesTried ==
    /\ Cardinality(inFlight) <= Concurrency
    /\ phase = "pages" /\ inFlight = {} => pending = {}

(* A slug that is not a symbol is passed over: whatever the site lists, a  *)
(* sync does not fail for a catalog that would not open again.             *)
OddSlugsSkipped == last # "invalid"

(* Whatever command is run, and whenever, what it works on was switched on *)
(* by the user or by a sync with --activate-new.                           *)
ActivatedOnPurpose ==
    \A symbols \in SUBSET Symbols : \A chosen \in Selections(symbols) :
        Spelled(chosen) \subseteq wanted

(* A universe that does not open is never left without a sync that failed. *)
TornIsReported == torn => phase = "writing" \/ last \in {"failed", "crashed"}
=============================================================================
