--------------------------- MODULE CoalescedFetch ---------------------------
(***************************************************************************)
(* What ConfiguredClient::fetch_cached promises to its callers, with       *)
(* neither locks nor permits: a url has at most one fetcher at a time, a   *)
(* call that returns data returns data some fetch has obtained, and a call *)
(* that did not fetch is told only what a fetcher of its url returned.     *)
(***************************************************************************)
CONSTANTS Calls, Urls, None

VARIABLES wants,      \* the url of each call
          fetcher,    \* the call that is fetching a url
          fetched,    \* the calls that are, or have been, a fetcher
          obtained,   \* the urls some fetcher has obtained data for
          answer      \* what each call returned

vars == <<wants, fetcher, fetched, obtained, answer>>

Init ==
    /\ wants \in [Calls -> Urls]
    /\ fetcher = [u \in Urls |-> None]
    /\ fetched = {}
    /\ obtained = {}
    /\ answer = [c \in Calls |-> "none"]

Begin(c) ==
    /\ fetcher[wants[c]] = None
    /\ answer[c] = "none"
    /\ c \notin fetched
    /\ fetcher' = [fetcher EXCEPT ![wants[c]] = c]
    /\ fetched' = fetched \cup {c}
    /\ UNCHANGED <<wants, obtained, answer>>

Obtain(c) ==
    /\ fetcher[wants[c]] = c
    /\ obtained' = obtained \cup {wants[c]}
    /\ UNCHANGED <<wants, fetcher, fetched, answer>>

End(c) ==
    /\ fetcher[wants[c]] = c
    /\ fetcher' = [fetcher EXCEPT ![wants[c]] = None]
    /\ UNCHANGED <<wants, fetched, obtained, answer>>

(* A fetcher of c's url that has returned a.                               *)
ToldBy(c, a) == \E d \in fetched : wants[d] = wants[c] /\ answer[d] = a

Answer(c, a) ==
    /\ answer[c] = "none"
    /\ fetcher[wants[c]] # c
    /\ CASE a = "data"                  -> wants[c] \in obtained
         [] a \in {"notfound", "error"} -> c \in fetched \/ ToldBy(c, a)
         [] a = "cancelled"             -> ToldBy(c, "dropped")
         [] a = "dropped"               -> TRUE
    /\ answer' = [answer EXCEPT ![c] = a]
    /\ UNCHANGED <<wants, fetcher, fetched, obtained>>

Answers == {"data", "notfound", "error", "cancelled", "dropped"}

Next ==
    \E c \in Calls :
        \/ Begin(c) \/ Obtain(c) \/ End(c)
        \/ \E a \in Answers : Answer(c, a)

Spec == Init /\ [][Next]_vars
=============================================================================
