-------------------------- MODULE MCSyncUniverse --------------------------
(* A pair, a share that only its page classifies, an instrument whose name *)
(* has a dash, one whose base is too long, one with a blank; four pages,   *)
(* of which one has no link that counts; two at a time.                    *)
EXTENDS SyncUniverse, TLC

MCSymbols == {"EURUSD", "TSLAUSUSD", "B-USD", "ABCDEFGHIJKLMUSD", "X USD"}
MCNames == MCSymbols \cup {"eurusd", "tslaususd"}
MCCapital == [n \in MCNames |-> CASE n = "eurusd" -> "EURUSD" [] n = "tslaususd" -> "TSLAUSUSD"
                                  [] OTHER -> n]
MCBaseLen == "EURUSD" :> 3 @@ "TSLAUSUSD" :> 6 @@ "B-USD" :> 2 @@ "ABCDEFGHIJKLMUSD" :> 13 @@ "X USD" :> 2
MCPages == {"fx_majors", "us", "popular", "news"}
MCAlnum == MCSymbols \ {"B-USD", "X USD"}
MCClean == (MCSymbols \ {"X USD"}) \cup MCPages
MCLinks == "fx_majors" :> {"EURUSD"} @@ "us" :> {"TSLAUSUSD"} @@ "popular" :> {"EURUSD", "TSLAUSUSD"}
               @@ "news" :> {"X USD"}
MCPageClass == "fx_majors" :> "Fx" @@ "us" :> "Equity" @@ "popular" :> "Other"
                   @@ "news" :> "Other"
MCNameClass == [s \in MCSymbols |-> IF s = "EURUSD" THEN "Fx" ELSE "Other"]

Instrument(s) == [under |-> "instrument", slug |-> s]
Category(s)   == [under |-> "instruments", slug |-> s]
Broken        == [under |-> "broken"]
MCSitemaps ==
    {<<Instrument("EURUSD"), Instrument("TSLAUSUSD"), Category("fx_majors"), Category("us"),
       Category("popular")>>,
     <<Category("us"), Category("news"), Instrument("TSLAUSUSD"), Instrument("B-USD")>>,
     <<Instrument("ABCDEFGHIJKLMUSD"), Instrument("X USD"), Instrument("EURUSD"), Broken,
       Category("us"), Instrument("TSLAUSUSD")>>,
     <<Instrument("X USD"), Category("us")>>}

Entry(name, class, active) == [name |-> name, class |-> class, active |-> active]
MCFiles == {{Entry("EURUSD", "Fx", TRUE)},
            {Entry("eurusd", "Other", FALSE), Entry("EURUSD", "Fx", TRUE)},
            {Entry("TSLAUSUSD", "Other", FALSE), Entry("EURUSD", "Metal", FALSE)},
            {Entry("tslaususd", "Other", TRUE)}}
=============================================================================
