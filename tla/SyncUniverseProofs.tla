------------------------- MODULE SyncUniverseProofs -------------------------
(***************************************************************************)
(* What syncs leave of the user's universe, for every site, every catalog  *)
(* file and every sequence of syncs, edits, failures and crashes.          *)
(***************************************************************************)
EXTENDS SyncUniverse, FiniteSetTheorems, TLAPS

(* A file that a command has read or that a sync has written is valid.     *)
FileIsValid ==
    /\ ValidCatalog(file)
    /\ phase # "idle" => ValidCatalog(seen)
    /\ phase \in {"write", "writing"} => ValidCatalog(merged)
    /\ OddSlugsSkipped

(* While nobody edits the file it is what the sync has read.               *)
SeenIsFile == phase # "idle" /\ ~edited => seen = file

(* What KeepsChoices says of the file before and after.                    *)
Keeps(old, new) ==
    /\ \A e \in old : \E k \in new :
           /\ k.name = e.name /\ k.active = e.active
           /\ e.class \in {"Other", k.class}
    /\ \A k \in new : \/ k.name \in {e.name : e \in old}
                      \/ /\ Capital[k.name] \notin Spelled(old)
                         /\ k.active = options.activateNew

MergedKeeps == phase \in {"write", "writing"} => Keeps(seen, merged)

(* What is active is wanted, in the file, in the copy of it the sync works *)
(* with and in what the sync is about to write.                            *)
ActiveIsWanted ==
    /\ ActiveIn(file) \subseteq wanted
    /\ ActiveIn(seen) \subseteq wanted
    /\ phase \in {"write", "writing"} /\ ~options.activateNew => ActiveIn(merged) \subseteq wanted

(* Pages are asked for only between the sitemap and the merge.             *)
PagesInv ==
    /\ IsFiniteSet(inFlight)
    /\ phase \in {"idle", "sitemap"} => pending = {} /\ inFlight = {}
    /\ PagesTried

(* Only the write itself, or a sync that ended in it, leaves the file torn.*)
TornInv ==
    torn => \/ phase = "writing"
            \/ phase = "idle" /\ last \in {"failed", "crashed"}

SyncInv ==
    /\ TypeOK
    /\ FileIsValid
    /\ SeenIsFile
    /\ MergedKeeps
    /\ ActiveIsWanted
    /\ PagesInv
    /\ TornInv
-----------------------------------------------------------------------------
(* The least of some of six numbers is one of them.                        *)
LEMMA LeastIsOne ==
    ASSUME NEW S, S \subseteq 1..6, S # {} PROVE Min(S) \in S
<1>1. \E i \in S : \A j \in S : i <= j
  <2> SUFFICES ASSUME \A i \in S : \E j \in S : j < i PROVE FALSE
    OBVIOUS
  <2>1. 1 \notin S /\ 2 \notin S
    OBVIOUS
  <2>2. 3 \notin S /\ 4 \notin S
    BY <2>1
  <2>3. 5 \notin S /\ 6 \notin S
    BY <2>1, <2>2
  <2>4. PICK i \in S : i \in 1..6
    OBVIOUS
  <2> QED BY <2>1, <2>2, <2>3, <2>4
<1> QED BY <1>1, Zenon DEF Min

(* The class inferred for a symbol is a class.                             *)
LEMMA InferredIsClass ==
    ASSUME TypeOK, NEW s \in Symbols
    PROVE  InferAssetClass(s) \in ClassNames
<1> DEFINE classes == {PageClass[p] : p \in {q \in obtained : s \in SlugsOn(q)}}
           known   == {i \in DOMAIN Classes : Classes[i] \in classes}
<1>1. CASE known = {}
  BY <1>1, UniverseAssumption DEF InferAssetClass
<1>2. CASE known # {}
  <2>1. known \subseteq 1..6 /\ \A i \in known : Classes[i] \in ClassNames
    BY DEF Classes, ClassNames
  <2>3. Min(known) \in known
    BY <2>1, <1>2, LeastIsOne
  <2>4. InferAssetClass(s) = Classes[Min(known)]
    BY <1>2 DEF InferAssetClass, known
  <2> QED BY <2>1, <2>3, <2>4
<1> QED BY <1>1, <1>2

(* Discovered gives a class to symbols the catalog may have.               *)
LEMMA DiscoveredTyped ==
    ASSUME TypeOK
    PROVE  /\ DOMAIN Discovered \subseteq Symbols
           /\ \A s \in DOMAIN Discovered : Splits(s) /\ Discovered[s] \in ClassNames
<1>1. \A s \in listed : s \in Symbols
  BY DEF TypeOK
<1>2. \A s \in Symbols : InferAssetClass(s) \in ClassNames
  BY InferredIsClass
<1> QED BY <1>1, <1>2 DEF Discovered

(* A merge keeps what the catalog has, whichever entry the index has for a *)
(* symbol, adds only symbols the catalog may have, and switches nothing on *)
(* unless it was asked to.                                                 *)
LEMMA MergeKeeps ==
    ASSUME TypeOK, ValidCatalog(seen), NEW index
    PROVE  LET catalog == Merge(index, Discovered)
           IN  /\ catalog \in SUBSET Entries
               /\ Keeps(seen, catalog)
               /\ ValidCatalog(catalog)
               /\ ~options.activateNew => ActiveIn(catalog) \subseteq ActiveIn(seen)
<1> DEFINE found   == Discovered
           old(e)  == IF e \in index /\ Capital[e.name] \in DOMAIN found /\ e.class = "Other"
                      THEN [e EXCEPT !.class = found[Capital[e.name]]] ELSE e
           new(s)  == [name |-> s, class |-> found[s], active |-> options.activateNew]
           fresh   == DOMAIN found \ Spelled(seen)
           catalog == Merge(index, found)
<1>1. catalog = {old(e) : e \in seen} \cup {new(s) : s \in fresh}
  BY DEF Merge
<1>2. /\ DOMAIN found \subseteq Symbols
      /\ \A s \in DOMAIN found : Splits(s) /\ found[s] \in ClassNames
  BY DiscoveredTyped
<1> HIDE DEF found
<1>3. \A e \in seen : e \in Entries
  BY DEF TypeOK
<1>4. \A e \in seen : /\ old(e) \in Entries
                      /\ old(e).name = e.name /\ old(e).active = e.active
                      /\ e.class \in {"Other", old(e).class}
  BY <1>2, <1>3 DEF Entries
<1>5. \A s \in fresh : /\ new(s) \in Entries
                       /\ new(s).name = s /\ new(s).active = options.activateNew
                       /\ Capital[s] = s /\ s \notin Spelled(seen) /\ ValidSymbol(s)
  <2> SUFFICES ASSUME NEW s \in fresh
               PROVE  /\ new(s) \in Entries
                      /\ new(s).name = s /\ new(s).active = options.activateNew
                      /\ Capital[s] = s /\ s \notin Spelled(seen) /\ ValidSymbol(s)
    OBVIOUS
  <2>1. s \in Symbols /\ s \in Names /\ Capital[s] = s
    BY <1>2, UniverseAssumption
  <2>2. options.activateNew \in BOOLEAN
    BY DEF TypeOK
  <2>3. ValidSymbol(s)
    BY <1>2 DEF Splits, ValidSymbol
  <2> QED BY <1>2, <2>1, <2>2, <2>3 DEF Entries
<1> HIDE DEF old, new, fresh, catalog
<1>6. catalog \in SUBSET Entries
  BY <1>1, <1>4, <1>5
<1>7. Keeps(seen, catalog)
  <2>1. ASSUME NEW e \in seen
        PROVE  \E k \in catalog : /\ k.name = e.name /\ k.active = e.active
                                  /\ e.class \in {"Other", k.class}
    BY <1>1, <1>4
  <2>2. ASSUME NEW k \in catalog
        PROVE  \/ k.name \in {e.name : e \in seen}
               \/ Capital[k.name] \notin Spelled(seen) /\ k.active = options.activateNew
    BY <1>1, <1>4, <1>5
  <2> QED BY <2>1, <2>2 DEF Keeps
<1>8. ValidCatalog(catalog)
  <2>1. catalog # {}
    BY <1>1 DEF ValidCatalog
  <2>2. \A e \in seen : ValidSymbol(Capital[e.name])
    BY DEF ValidCatalog
  <2>3. \A k \in catalog : ValidSymbol(Capital[k.name])
    BY <1>1, <1>4, <1>5, <2>2
  <2> QED BY <2>1, <2>3 DEF ValidCatalog
<1>9. ASSUME ~options.activateNew PROVE ActiveIn(catalog) \subseteq ActiveIn(seen)
  BY <1>1, <1>4, <1>5, <1>9 DEF ActiveIn
<1> QED BY <1>6, <1>7, <1>8, <1>9 DEF catalog, found

(* What a sitemap lists are symbols and finitely many pages.               *)
LEMMA SlugsTyped ==
    ASSUME NEW sitemap \in Sitemaps
    PROVE  /\ SlugsUnder(sitemap, "instrument") \subseteq Symbols
           /\ SlugsUnder(sitemap, "instruments") \subseteq Pages
           /\ IsFiniteSet(SlugsUnder(sitemap, "instruments"))
<1> DEFINE Listed == [under : {"instrument"}, slug : Symbols]
                         \cup [under : {"instruments"}, slug : Pages]
                         \cup [under : {"broken"}]
           at  == {k \in DOMAIN sitemap :
                      /\ sitemap[k].under = "instruments" /\ sitemap[k].slug \in Clean
                      /\ \A j \in 1..k : sitemap[j].under # "broken"}
           f   == [k \in at |-> sitemap[k].slug]
           pages == SlugsUnder(sitemap, "instruments")
<1>1. sitemap \in Seq(Listed)
  BY UniverseAssumption
<1>2. Len(sitemap) \in Nat /\ DOMAIN sitemap = 1..Len(sitemap)
         /\ \A k \in DOMAIN sitemap : sitemap[k] \in Listed
  BY <1>1
<1>3. SlugsUnder(sitemap, "instrument") \subseteq Symbols
  BY <1>2 DEF SlugsUnder
<1>4. pages \subseteq Pages
  BY <1>2 DEF SlugsUnder
<1>5. IsFiniteSet(at)
  <2>1. IsFiniteSet(1..Len(sitemap))
    BY <1>2, FS_Interval
  <2> QED BY <1>2, <2>1, FS_Subset
<1>6. f \in Surjection(at, pages)
  BY DEF Surjection, SlugsUnder
<1>7. IsFiniteSet(pages)
  BY <1>5, <1>6, FS_Surjection
<1> QED BY <1>3, <1>4, <1>7

(* Of some categories as many are asked for at first as are allowed: none  *)
(* only if there is none.                                                  *)
LEMMA FirstPages ==
    ASSUME NEW categories, IsFiniteSet(categories),
           NEW first \in kSubset(Min({Concurrency, Cardinality(categories)}), categories)
    PROVE  /\ first \subseteq categories /\ IsFiniteSet(first)
           /\ Cardinality(first) <= Concurrency
           /\ first = {} => categories = {}
<1> DEFINE n == Cardinality(categories)
           least == Min({Concurrency, n})
<1>1. first \subseteq categories /\ Cardinality(first) = least
  BY DEF kSubset
<1>2. n \in Nat /\ IsFiniteSet(first)
  BY <1>1, FS_CardinalityType, FS_Subset
<1>3. Concurrency \in Nat \ {0}
  BY UniverseAssumption
<1> HIDE DEF n
<1>4. least \in {Concurrency, n} /\ least <= Concurrency
  <2>1. \E x \in {Concurrency, n} : \A y \in {Concurrency, n} : x <= y
    BY <1>2, <1>3
  <2>2. least \in {Concurrency, n} /\ \A y \in {Concurrency, n} : least <= y
    BY <2>1, Zenon DEF Min
  <2> QED BY <2>2
<1>5. ASSUME first = {} PROVE categories = {}
  <2>1. least = 0
    BY <1>1, <1>5, FS_EmptySet
  <2>2. n = 0
    BY <1>3, <1>4, <2>1
  <2> QED BY <2>2, FS_EmptySet DEF n
<1> QED BY <1>1, <1>2, <1>4, <1>5
-----------------------------------------------------------------------------
(* No sync is under way at the start, and the file is the user's.          *)
LEMMA InvInit == Init => SyncInv
<1> SUFFICES ASSUME Init PROVE SyncInv
  OBVIOUS
<1>1. file \in SUBSET Entries /\ ValidCatalog(file)
  BY UniverseAssumption DEF Init
<1>2. ActiveIn(file) \subseteq Symbols
  BY <1>1, UniverseAssumption DEF ActiveIn, Entries
<1>3. TypeOK
  BY <1>1, <1>2 DEF Init, TypeOK, NoOptions
<1>4. FileIsValid
  BY <1>1 DEF Init, FileIsValid, OddSlugsSkipped
<1>5. SeenIsFile /\ MergedKeeps /\ TornInv
  BY DEF Init, SeenIsFile, MergedKeeps, TornInv
<1>6. ActiveIsWanted
  BY DEF Init, ActiveIsWanted, ActiveIn
<1>7. PagesInv
  <2>1. IsFiniteSet({}) /\ Cardinality({}) = 0
    BY FS_EmptySet
  <2> QED BY <2>1, UniverseAssumption DEF Init, PagesInv, PagesTried
<1> QED BY <1>3, <1>4, <1>5, <1>6, <1>7 DEF SyncInv

(* Every action keeps the types.                                           *)
LEMMA TypeStep == TypeOK /\ FileIsValid /\ [Next]_vars => TypeOK'
<1> SUFFICES ASSUME TypeOK, FileIsValid, [Next]_vars PROVE TypeOK'
  OBVIOUS
<1> USE DEF disk, site, user
<1>1. ASSUME NEW how \in {"ok", "dry run", "invalid", "failed", "crashed"}, End(how),
             UNCHANGED <<disk, wanted>>
      PROVE  TypeOK'
  BY <1>1 DEF TypeOK, End, NoOptions
<1>2. ASSUME NEW dryRun \in BOOLEAN, NEW activateNew \in BOOLEAN,
             StartSync(dryRun, activateNew)
      PROVE  TypeOK'
  <2>1. CASE torn
    BY <1>1, <1>2, <2>1 DEF StartSync
  <2>2. CASE ~torn
    <3>1. [dryRun |-> dryRun, activateNew |-> activateNew]
              \in [dryRun : BOOLEAN, activateNew : BOOLEAN]
      BY <1>2
    <3>2. options' \in [dryRun : BOOLEAN, activateNew : BOOLEAN] /\ phase' = "sitemap"
      BY <1>2, <2>2, <3>1 DEF StartSync
    <3> QED BY <1>2, <2>2, <3>2 DEF StartSync, TypeOK
  <2> QED BY <2>1, <2>2
<1>3. CASE SitemapFails
  BY <1>1, <1>3 DEF SitemapFails
<1>4. ASSUME NEW sitemap \in Sitemaps, NEW hasClient \in BOOLEAN,
             SitemapRead(sitemap, hasClient)
      PROVE  TypeOK'
  <2>1. listed' \subseteq Symbols
    BY <1>4, SlugsTyped DEF SitemapRead
  <2>2. inFlight' \subseteq Pages /\ pending' \subseteq Pages
    <3>1. CASE hasClient
      <4>1. PICK first \in kSubset(Min({Concurrency,
                                        Cardinality(SlugsUnder(sitemap, "instruments"))}),
                                   SlugsUnder(sitemap, "instruments")) :
                inFlight' = first /\ pending' = SlugsUnder(sitemap, "instruments") \ first
        BY <1>4, <3>1 DEF SitemapRead
      <4> QED BY <4>1, SlugsTyped DEF kSubset
    <3>2. CASE ~hasClient
      BY <1>4, <3>2 DEF SitemapRead, TypeOK
    <3> QED BY <3>1, <3>2
  <2> QED BY <1>4, <2>1, <2>2 DEF SitemapRead, TypeOK
<1>5. ASSUME NEW sitemap \in Sitemaps, SitemapEmpty(sitemap)
      PROVE  TypeOK'
  BY <1>1, <1>5 DEF SitemapEmpty
<1>6. ASSUME NEW page \in Pages, NEW arrives \in BOOLEAN, PageEnds(page, arrives)
      PROVE  TypeOK'
  <2>1. inFlight' \subseteq Pages /\ pending' \subseteq Pages /\ obtained' \subseteq Pages
    BY <1>6 DEF PageEnds, TypeOK
  <2> QED BY <1>6, <2>1 DEF PageEnds, TypeOK
<1>7. CASE MergeDiscovered
  <2>1. PICK index \in OneEach(seen, [e \in seen |-> Capital[e.name]]) :
            LET catalog == Merge(index, Discovered)
            IN  CASE options.dryRun -> End("dry run")
                  [] ~options.dryRun /\ ~ValidCatalog(catalog) -> End("invalid")
                  [] OTHER -> /\ merged' = catalog
                              /\ phase' = "write"
                              /\ UNCHANGED <<last, options, seen, site, edited>>
    BY <1>7 DEF MergeDiscovered
  <2>2. ValidCatalog(seen)
    BY <1>7 DEF MergeDiscovered, FileIsValid
  <2>3. Merge(index, Discovered) \in SUBSET Entries
    BY <2>2, MergeKeeps
  <2>4. \/ End("dry run") \/ End("invalid")
        \/ /\ merged' = Merge(index, Discovered)
           /\ phase' = "write"
           /\ UNCHANGED <<last, options, seen, site, edited>>
    BY <2>1
  <2>5. CASE End("dry run") \/ End("invalid")
    BY <1>1, <1>7, <2>5 DEF MergeDiscovered
  <2>6. CASE /\ merged' = Merge(index, Discovered)
             /\ phase' = "write"
             /\ UNCHANGED <<last, options, seen, site, edited>>
    BY <1>7, <2>3, <2>6 DEF MergeDiscovered, TypeOK
  <2> QED BY <2>4, <2>5, <2>6
<1>8. CASE BeginWrite
  BY <1>8 DEF BeginWrite, TypeOK
<1>9. CASE EndWrite
  <2>1. ActiveIn(merged) \subseteq Symbols
    BY UniverseAssumption DEF TypeOK, ActiveIn, Entries
  <2> QED BY <1>9, <2>1 DEF EndWrite, TypeOK, End, NoOptions
<1>10. CASE WriteFails
  BY <1>1, <1>10 DEF WriteFails
<1>11. CASE Crash
  BY <1>1, <1>11 DEF Crash
<1>12. ASSUME NEW entries \in Files, Edit(entries)
       PROVE  TypeOK'
  <2>1. entries \in SUBSET Entries
    BY UniverseAssumption
  <2>2. ActiveIn(entries) \subseteq Symbols
    BY <2>1, UniverseAssumption DEF ActiveIn, Entries
  <2> QED BY <1>12, <2>1, <2>2 DEF Edit, TypeOK
<1>13. CASE UNCHANGED vars
  BY <1>13 DEF vars, TypeOK
<1> QED BY <1>2, <1>3, <1>4, <1>5, <1>6, <1>7, <1>8, <1>9, <1>10, <1>11, <1>12, <1>13
        DEF Next

(* A merge that is to be written has been validated and keeps what the     *)
(* sync has read; one that is found invalid there is none.                 *)
LEMMA MergeStep ==
    ASSUME TypeOK, ValidCatalog(seen), MergeDiscovered
    PROVE  \/ End("dry run")
           \/ /\ phase' = "write"
              /\ UNCHANGED <<last, options, seen, edited>>
              /\ ValidCatalog(merged') /\ Keeps(seen, merged')
              /\ ~options.activateNew => ActiveIn(merged') \subseteq ActiveIn(seen)
<1>1. PICK index \in OneEach(seen, [e \in seen |-> Capital[e.name]]) :
          LET catalog == Merge(index, Discovered)
          IN  CASE options.dryRun -> End("dry run")
                [] ~options.dryRun /\ ~ValidCatalog(catalog) -> End("invalid")
                [] OTHER -> /\ merged' = catalog
                            /\ phase' = "write"
                            /\ UNCHANGED <<last, options, seen, site, edited>>
  BY DEF MergeDiscovered
<1> DEFINE catalog == Merge(index, Discovered)
<1>2. /\ Keeps(seen, catalog) /\ ValidCatalog(catalog)
      /\ ~options.activateNew => ActiveIn(catalog) \subseteq ActiveIn(seen)
  BY MergeKeeps
<1>3. \/ End("dry run")
      \/ /\ merged' = catalog
         /\ phase' = "write"
         /\ UNCHANGED <<last, options, seen, edited>>
  BY <1>1, <1>2
<1> QED BY <1>2, <1>3

(* What is read, merged and written opens again.                           *)
LEMMA ValidStep == TypeOK /\ FileIsValid /\ [Next]_vars => FileIsValid'
<1> SUFFICES ASSUME TypeOK, FileIsValid, [Next]_vars PROVE FileIsValid'
  OBVIOUS
<1> USE DEF disk, site, user
<1>1. ASSUME NEW how \in {"ok", "dry run", "failed", "crashed"}, End(how), UNCHANGED file
      PROVE  FileIsValid'
  <2>1. ValidCatalog(file)'
    BY <1>1 DEF FileIsValid, ValidCatalog
  <2> QED BY <1>1, <2>1 DEF FileIsValid, End, OddSlugsSkipped
<1>2. ASSUME NEW dryRun \in BOOLEAN, NEW activateNew \in BOOLEAN,
             StartSync(dryRun, activateNew)
      PROVE  FileIsValid'
  <2>1. CASE torn
    BY <1>1, <1>2, <2>1 DEF StartSync
  <2>2. CASE ~torn
    BY <1>2, <2>2 DEF StartSync, FileIsValid, OddSlugsSkipped, ValidCatalog
  <2> QED BY <2>1, <2>2
<1>3. CASE \/ SitemapFails \/ WriteFails \/ Crash
           \/ \E sitemap \in Sitemaps : SitemapEmpty(sitemap)
  BY <1>1, <1>3 DEF SitemapFails, WriteFails, Crash, SitemapEmpty
<1>4. CASE \/ \E sitemap \in Sitemaps, hasClient \in BOOLEAN : SitemapRead(sitemap, hasClient)
           \/ \E page \in Pages, arrives \in BOOLEAN : PageEnds(page, arrives)
           \/ BeginWrite
  <2>1. /\ UNCHANGED <<file, seen, merged, last>>
        /\ phase # "idle" /\ (phase' \in {"write", "writing"} => phase = "write")
    BY <1>4 DEF SitemapRead, PageEnds, BeginWrite
  <2> QED BY <2>1 DEF FileIsValid, OddSlugsSkipped, ValidCatalog
<1>5. CASE MergeDiscovered
  <2>1. ValidCatalog(seen) /\ UNCHANGED file
    BY <1>5 DEF MergeDiscovered, FileIsValid
  <2>2. CASE End("dry run")
    BY <1>1, <2>1, <2>2
  <2>3. CASE ~End("dry run")
    <3>1. ValidCatalog(merged') /\ UNCHANGED <<last, seen>> /\ phase' = "write"
      BY <1>5, <2>1, <2>3, MergeStep
    <3> QED BY <2>1, <3>1 DEF FileIsValid, OddSlugsSkipped, ValidCatalog
  <2> QED BY <2>2, <2>3
<1>6. CASE EndWrite
  <2>1. ValidCatalog(file')
    BY <1>6 DEF EndWrite, FileIsValid
  <2> QED BY <1>6, <2>1 DEF EndWrite, End, FileIsValid, OddSlugsSkipped, ValidCatalog
<1>7. ASSUME NEW entries \in Files, Edit(entries)
      PROVE  FileIsValid'
  <2>1. ValidCatalog(file')
    BY <1>7, UniverseAssumption DEF Edit
  <2> QED BY <1>7, <2>1 DEF Edit, FileIsValid, OddSlugsSkipped, ValidCatalog
<1>8. CASE UNCHANGED vars
  BY <1>8 DEF vars, FileIsValid, OddSlugsSkipped, ValidCatalog
<1> QED BY <1>2, <1>3, <1>4, <1>5, <1>6, <1>7, <1>8 DEF Next

(* The copy a sync works with, and what it is about to write.              *)
LEMMA ChoiceStep ==
    TypeOK /\ FileIsValid /\ SeenIsFile /\ MergedKeeps /\ ActiveIsWanted /\ [Next]_vars
        => SeenIsFile' /\ MergedKeeps' /\ ActiveIsWanted'
<1> SUFFICES ASSUME TypeOK, FileIsValid, SeenIsFile, MergedKeeps, ActiveIsWanted, [Next]_vars
             PROVE  SeenIsFile' /\ MergedKeeps' /\ ActiveIsWanted'
  OBVIOUS
<1> USE DEF disk, site, user
<1>1. ASSUME NEW how, End(how), UNCHANGED <<file, wanted>>
      PROVE  SeenIsFile' /\ MergedKeeps' /\ ActiveIsWanted'
  <2>1. phase' = "idle" /\ seen' = {}
    BY <1>1 DEF End
  <2>2. ActiveIn({}) = {}
    BY DEF ActiveIn
  <2> QED BY <1>1, <2>1, <2>2 DEF SeenIsFile, MergedKeeps, ActiveIsWanted, ActiveIn
<1>2. ASSUME NEW dryRun \in BOOLEAN, NEW activateNew \in BOOLEAN,
             StartSync(dryRun, activateNew)
      PROVE  SeenIsFile' /\ MergedKeeps' /\ ActiveIsWanted'
  <2>1. CASE torn
    BY <1>1, <1>2, <2>1 DEF StartSync
  <2>2. CASE ~torn
    <3>1. phase' = "sitemap" /\ seen' = file /\ UNCHANGED <<file, wanted>>
      BY <1>2, <2>2 DEF StartSync
    <3> QED BY <3>1 DEF SeenIsFile, MergedKeeps, ActiveIsWanted, ActiveIn
  <2> QED BY <2>1, <2>2
<1>3. CASE \/ SitemapFails \/ WriteFails \/ Crash
           \/ \E sitemap \in Sitemaps : SitemapEmpty(sitemap)
  BY <1>1, <1>3 DEF SitemapFails, WriteFails, Crash, SitemapEmpty
<1>4. ASSUME \/ \E sitemap \in Sitemaps, hasClient \in BOOLEAN :
                    SitemapRead(sitemap, hasClient)
             \/ \E page \in Pages, arrives \in BOOLEAN : PageEnds(page, arrives)
             \/ BeginWrite
      PROVE  SeenIsFile' /\ MergedKeeps' /\ ActiveIsWanted'
  <2>1. /\ UNCHANGED <<file, seen, merged, options, edited, wanted>>
        /\ phase # "idle" /\ (phase' \in {"write", "writing"} => phase = "write")
    BY <1>4 DEF SitemapRead, PageEnds, BeginWrite
  <2> QED BY <2>1 DEF SeenIsFile, MergedKeeps, ActiveIsWanted, Keeps, Spelled, ActiveIn
<1>5. CASE MergeDiscovered
  <2>1. ValidCatalog(seen) /\ phase # "idle" /\ UNCHANGED <<file, wanted>>
    BY <1>5 DEF MergeDiscovered, FileIsValid
  <2>2. CASE End("dry run")
    BY <1>1, <2>1, <2>2
  <2>3. CASE ~End("dry run")
    <3>1. /\ Keeps(seen, merged') /\ UNCHANGED <<options, seen, edited>>
          /\ ~options.activateNew => ActiveIn(merged') \subseteq ActiveIn(seen)
      BY <1>5, <2>1, <2>3, MergeStep
    <3>2. MergedKeeps' /\ SeenIsFile'
      BY <2>1, <3>1 DEF MergedKeeps, SeenIsFile, Keeps, Spelled
    <3>3. ActiveIsWanted'
      BY <2>1, <3>1 DEF ActiveIsWanted, ActiveIn
    <3> QED BY <3>2, <3>3
  <2> QED BY <2>2, <2>3
<1>6. CASE EndWrite
  <2>1. phase' = "idle" /\ seen' = {}
    BY <1>6 DEF EndWrite, End
  <2>2. ActiveIn(file') \subseteq wanted'
    BY <1>6 DEF EndWrite, ActiveIsWanted
  <2> QED BY <2>1, <2>2 DEF SeenIsFile, MergedKeeps, ActiveIsWanted, ActiveIn
<1>7. ASSUME NEW entries \in Files, Edit(entries)
      PROVE  SeenIsFile' /\ MergedKeeps' /\ ActiveIsWanted'
  <2>1. /\ UNCHANGED <<phase, options, seen, merged>>
        /\ wanted' = wanted \cup ActiveIn(file')
        /\ edited' = (phase # "idle")
    BY <1>7 DEF Edit
  <2> QED BY <2>1 DEF SeenIsFile, MergedKeeps, ActiveIsWanted, Keeps, Spelled, ActiveIn
<1>8. CASE UNCHANGED vars
  BY <1>8 DEF vars, SeenIsFile, MergedKeeps, ActiveIsWanted, Keeps, Spelled, ActiveIn
<1> QED BY <1>2, <1>3, <1>4, <1>5, <1>6, <1>7, <1>8 DEF Next

(* A page that ends makes room for the next one, however it ends.          *)
LEMMA PageEndsStep ==
    ASSUME TypeOK, PagesInv, NEW page \in Pages, NEW arrives \in BOOLEAN,
           PageEnds(page, arrives)
    PROVE  PagesInv'
<1>1. page \in inFlight /\ IsFiniteSet(inFlight) /\ Cardinality(inFlight) <= Concurrency
         /\ phase = "pages" /\ phase' = "pages"
  BY DEF PageEnds, PagesInv, PagesTried
<1>2. /\ IsFiniteSet(inFlight \ {page})
      /\ Cardinality(inFlight \ {page}) = Cardinality(inFlight) - 1
      /\ Cardinality(inFlight) \in Nat
  BY <1>1, FS_RemoveElement, FS_CardinalityType
<1>3. Concurrency \in Nat
  BY UniverseAssumption
<1>4. CASE pending = {}
  <2>1. inFlight' = inFlight \ {page} /\ pending' = {}
    BY <1>4 DEF PageEnds
  <2>2. Cardinality(inFlight') <= Concurrency
    BY <1>1, <1>2, <1>3, <2>1
  <2> QED BY <1>1, <1>2, <2>1, <2>2 DEF PagesInv, PagesTried
<1>5. CASE pending # {}
  <2>1. PICK next \in pending : inFlight' = (inFlight \ {page}) \cup {next}
    BY <1>5 DEF PageEnds
  <2> DEFINE rest == inFlight \ {page}
  <2>2. IsFiniteSet(rest) /\ Cardinality(rest) = Cardinality(inFlight) - 1
    BY <1>2
  <2> HIDE DEF rest
  <2>3. /\ IsFiniteSet(rest \cup {next})
        /\ \/ Cardinality(rest \cup {next}) = Cardinality(rest)
           \/ Cardinality(rest \cup {next}) = Cardinality(rest) + 1
    BY <2>2, FS_AddElement
  <2>4. inFlight' = rest \cup {next}
    BY <2>1 DEF rest
  <2>5. Cardinality(inFlight') <= Concurrency
    BY <1>1, <1>2, <1>3, <2>2, <2>3, <2>4
  <2> QED BY <1>1, <2>3, <2>4, <2>5 DEF PagesInv, PagesTried
<1> QED BY <1>4, <1>5

(* Pages are asked for as the limit allows until none is left.             *)
LEMMA PagesStep == TypeOK /\ PagesInv /\ [Next]_vars => PagesInv'
<1> SUFFICES ASSUME TypeOK, PagesInv, [Next]_vars PROVE PagesInv'
  OBVIOUS
<1> USE DEF disk, site, user
<1>1. ASSUME NEW how, End(how) PROVE PagesInv'
  <2>1. pending' = {} /\ inFlight' = {}
    BY <1>1 DEF End
  <2>2. IsFiniteSet({}) /\ Cardinality({}) = 0
    BY FS_EmptySet
  <2> QED BY <2>1, <2>2, UniverseAssumption DEF PagesInv, PagesTried
<1>2. ASSUME NEW dryRun \in BOOLEAN, NEW activateNew \in BOOLEAN,
             StartSync(dryRun, activateNew)
      PROVE  PagesInv'
  <2>1. CASE torn
    BY <1>1, <1>2, <2>1 DEF StartSync
  <2>2. CASE ~torn
    BY <1>2, <2>2 DEF StartSync, PagesInv, PagesTried
  <2> QED BY <2>1, <2>2
<1>3. CASE \/ SitemapFails \/ WriteFails \/ Crash \/ EndWrite
           \/ \E sitemap \in Sitemaps : SitemapEmpty(sitemap)
  BY <1>1, <1>3 DEF SitemapFails, WriteFails, Crash, EndWrite, SitemapEmpty
<1>4. ASSUME NEW sitemap \in Sitemaps, NEW hasClient \in BOOLEAN,
             SitemapRead(sitemap, hasClient)
      PROVE  PagesInv'
  <2>1. phase' = "pages"
    BY <1>4 DEF SitemapRead
  <2>2. CASE hasClient
    <3> DEFINE categories == SlugsUnder(sitemap, "instruments")
    <3>1. PICK first \in kSubset(Min({Concurrency, Cardinality(categories)}), categories) :
              inFlight' = first /\ pending' = categories \ first
      BY <1>4, <2>2 DEF SitemapRead
    <3>2. IsFiniteSet(categories)
      BY SlugsTyped
    <3> HIDE DEF categories
    <3>3. /\ IsFiniteSet(first) /\ Cardinality(first) <= Concurrency
          /\ first = {} => categories = {}
      BY <3>2, FirstPages
    <3> QED BY <2>1, <3>1, <3>3 DEF PagesInv, PagesTried
  <2>3. CASE ~hasClient
    BY <1>4, <2>1, <2>3 DEF SitemapRead, PagesInv, PagesTried
  <2> QED BY <2>2, <2>3
<1>5. ASSUME NEW page \in Pages, NEW arrives \in BOOLEAN, PageEnds(page, arrives)
      PROVE  PagesInv'
  BY <1>5, PageEndsStep
<1>6. CASE MergeDiscovered
  <2>1. \/ \E how : End(how)
        \/ phase' = "write" /\ UNCHANGED <<inFlight, pending>>
    BY <1>6 DEF MergeDiscovered
  <2>2. CASE phase' = "write" /\ UNCHANGED <<inFlight, pending>>
    BY <2>2 DEF PagesInv, PagesTried
  <2> QED BY <1>1, <2>1, <2>2
<1>7. CASE BeginWrite
  BY <1>7 DEF BeginWrite, PagesInv, PagesTried
<1>8. CASE \/ \E entries \in Files : Edit(entries)
           \/ UNCHANGED vars
  BY <1>8 DEF Edit, vars, PagesInv, PagesTried
<1> QED BY <1>2, <1>3, <1>4, <1>5, <1>6, <1>7, <1>8 DEF Next

(* Whoever leaves the file torn has ended with an error.                   *)
LEMMA TornStep == TornInv /\ [Next]_vars => TornInv'
<1> SUFFICES ASSUME TornInv, [Next]_vars PROVE TornInv'
  OBVIOUS
<1> USE DEF disk, site, user
<1>1. ASSUME NEW how \in {"failed", "crashed"}, End(how) PROVE TornInv'
  BY <1>1 DEF End, TornInv
<1>2. ASSUME NEW dryRun \in BOOLEAN, NEW activateNew \in BOOLEAN,
             StartSync(dryRun, activateNew)
      PROVE  TornInv'
  BY <1>1, <1>2 DEF StartSync, TornInv
<1>3. CASE \/ SitemapFails \/ WriteFails \/ Crash
           \/ \E sitemap \in Sitemaps : SitemapEmpty(sitemap)
  BY <1>1, <1>3 DEF SitemapFails, WriteFails, Crash, SitemapEmpty
<1>4. CASE \/ \E sitemap \in Sitemaps, hasClient \in BOOLEAN : SitemapRead(sitemap, hasClient)
           \/ \E page \in Pages, arrives \in BOOLEAN : PageEnds(page, arrives)
           \/ MergeDiscovered
  <2>1. phase \in {"sitemap", "pages"} /\ torn' = torn
    BY <1>4 DEF SitemapRead, PageEnds, MergeDiscovered
  <2> QED BY <2>1 DEF TornInv
<1>5. CASE BeginWrite \/ EndWrite \/ \E entries \in Files : Edit(entries)
  BY <1>5 DEF BeginWrite, EndWrite, Edit, TornInv
<1>6. CASE UNCHANGED vars
  BY <1>6 DEF vars, TornInv
<1> QED BY <1>2, <1>3, <1>4, <1>5, <1>6 DEF Next
-----------------------------------------------------------------------------
LEMMA SyncInvariant == Spec => []SyncInv
<1>1. Init => SyncInv
  BY InvInit
<1>2. SyncInv /\ [Next]_vars => SyncInv'
  BY TypeStep, ValidStep, ChoiceStep, PagesStep, TornStep DEF SyncInv
<1> QED BY <1>1, <1>2, PTL DEF Spec

(* The state of every sync is of its types.                                *)
THEOREM TypeCorrect == Spec => []TypeOK
<1>1. SyncInv => TypeOK
  BY DEF SyncInv
<1> QED BY <1>1, SyncInvariant, PTL

(* For any site and any limit no page is left out because another failed,  *)
(* and never are more asked for than is allowed (fetch_category_membership).*)
THEOREM EveryPageTried == Spec => []PagesTried
<1>1. SyncInv => PagesTried
  BY DEF SyncInv, PagesInv
<1> QED BY <1>1, SyncInvariant, PTL

(* Whatever a site lists, no sync fails because what it merged is not a    *)
(* catalog that would open again: split_symbol_slug lets pass only what    *)
(* InstrumentCatalog::validate accepts.                                    *)
THEOREM NoSlugSpoilsTheCatalog == Spec => []OddSlugsSkipped
<1>1. SyncInv => OddSlugsSkipped
  BY DEF SyncInv, FileIsValid
<1> QED BY <1>1, SyncInvariant, PTL

(* Whatever is selected to work on, at any moment, the user or a sync with *)
(* --activate-new has switched on (InstrumentCatalog::select_active).      *)
THEOREM SelectedOnPurpose == Spec => []ActivatedOnPurpose
<1>1. SyncInv => ActivatedOnPurpose
  <2> SUFFICES ASSUME SyncInv, NEW symbols \in SUBSET Symbols,
                      NEW chosen \in Selections(symbols)
               PROVE  Spelled(chosen) \subseteq wanted
    BY DEF ActivatedOnPurpose
  <2>1. \A e \in chosen : e \in file /\ e.active
    <3>1. CASE torn
      BY <3>1 DEF Selections
    <3>2. CASE ~torn
      <4>1. PICK found \in Finds(file, symbols) : chosen = SelectActive(found, symbols)
        BY <3>2 DEF Selections
      <4>2. found \subseteq file
        BY <4>1 DEF Finds, OneEach
      <4> QED BY <4>1, <4>2 DEF SelectActive, ActiveInstruments
    <3> QED BY <3>1, <3>2
  <2>2. Spelled(chosen) \subseteq ActiveIn(file)
    BY <2>1 DEF Spelled, ActiveIn
  <2> QED BY <2>2 DEF SyncInv, ActiveIsWanted
<1> QED BY <1>1, SyncInvariant, PTL

(* If the file does not open, the sync whose write was broken off has      *)
(* ended with an error, or is still writing (write_catalog_file).          *)
THEOREM TornAlwaysReported == Spec => []TornIsReported
<1>1. SyncInv => TornIsReported
  BY DEF SyncInv, TornInv, TornIsReported
<1> QED BY <1>1, SyncInvariant, PTL

(* A sync that no edit has overtaken leaves every instrument of the file   *)
(* as the user has it, and adds only symbols that no spelling in the file  *)
(* names (merge_catalog_with_discovery).                                   *)
THEOREM ChoicesKept == Spec => KeepsChoices
<1> DEFINE Kept ==
      phase = "writing" /\ last' = "ok" /\ phase' = "idle" /\ ~edited =>
          /\ \A e \in file : \E k \in file' :
                 /\ k.name = e.name /\ k.active = e.active
                 /\ e.class \in {"Other", k.class}
          /\ \A k \in file' : \/ k.name \in {e.name : e \in file}
                              \/ /\ Capital[k.name] \notin Spelled(file)
                                 /\ k.active = options.activateNew
<1>1. SyncInv /\ [Next]_vars => [Kept]_vars
  <2> SUFFICES ASSUME SyncInv, Next, phase = "writing", last' = "ok", phase' = "idle", ~edited
               PROVE  Kept
    OBVIOUS
  <2>1. EndWrite
    BY DEF Next, StartSync, SitemapFails, SitemapRead, SitemapEmpty, PageEnds, MergeDiscovered,
           BeginWrite, WriteFails, Crash, Edit, End
  <2>2. file' = merged /\ seen = file /\ Keeps(seen, merged)
    BY <2>1 DEF EndWrite, SyncInv, SeenIsFile, MergedKeeps
  <2> QED BY <2>2 DEF Keeps
<1>2. QED BY <1>1, SyncInvariant, PTL DEF Spec, KeepsChoices
=============================================================================
