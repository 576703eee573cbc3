--------------------------- MODULE BatchDownload ---------------------------
(***************************************************************************)
(* The download_* functions of the library over a list of tickers.  One    *)
(* future per ticker; buffer_unordered keeps up to a limit of them under   *)
(* way, try_collect gives up on the first error and drops the rest.  The   *)
(* incremental ones move the checkpoint of a ticker as its own future      *)
(* ends.  Several calls may be under way on one store.                     *)
(***************************************************************************)
EXTENDS TickHistory, Sequences, SequencesExt

CONSTANTS Batches,    \* calls of a download function
          Tickers,    \* the tickers, by symbol and interval
          List,       \* the tickers a call is given; a ticker may be repeated
          Ticks,      \* the times of the ticks of each ticker
          Lookback,   \* what an incremental call is given
          Moments,    \* the bound on time: when a job may begin
          Spans,      \* the periods that each call may be given
          Limits,     \* the limits on concurrency that each may be given
          MaxHung     \* the bound on the fetches that hang at a time

ASSUME BatchAssumption ==
    /\ List \in Seq(Tickers) /\ List # <<>>
    /\ Ticks \in [Tickers -> SUBSET Times]
    /\ Lookback \in Nat \ {0}
    /\ Moments \subseteq Times
    /\ Spans \in [Batches -> SUBSET (Nat \ {0})]
    /\ Limits \in [Batches -> SUBSET Nat]
    /\ MaxHung \in Nat

VARIABLES now,      \* an hour ago
          marks,    \* the checkpoints in the store
          call,     \* what each call was asked for
          phase,    \* how far it is
          waiting,  \* the jobs that are not under way: indices of List
          active,   \* the jobs that are under way, and their ranges
          hung,     \* those of them that will never end
          done,     \* the jobs that ended, in that order, and their rows
          answer,   \* what the call returned
          got,      \* history: the rows that incremental calls returned
          since,    \* history: the latest start of a range that rested on
                    \* no checkpoint
          sampled,  \* history: the points sampled by the jobs that moved
                    \* the checkpoint
          lost      \* history: the tickers whose checkpoint was moved by a
                    \* call that did not return their rows

callVars == <<call, phase, waiting, active, hung, done, answer>>
histVars == <<got, since, sampled, lost>>
vars     == <<now, marks, callVars, histVars>>

Jobs == DOMAIN List

(* The rows of its ended jobs that an incremental call holds.              *)
Held(b) ==
    IF call[b].kind = "incremental"
      THEN UNION {{List[d.job]} \X d.times : d \in ToSet(done[b])}
      ELSE {}

NoCall == [kind |-> "period", limit |-> 0, span |-> 0]

Init ==
    /\ now \in Moments
    /\ marks = [t \in Tickers |-> Never]
    /\ call = [b \in Batches |-> NoCall]
    /\ phase = [b \in Batches |-> "idle"]
    /\ waiting = [b \in Batches |-> {}]
    /\ active = [b \in Batches |-> {}]
    /\ hung = [b \in Batches |-> {}]
    /\ done = [b \in Batches |-> <<>>]
    /\ answer = [b \in Batches |-> <<>>]
    /\ got = {}
    /\ since = [t \in Tickers |-> 0]
    /\ sampled = [t \in Tickers |-> {}]
    /\ lost = {}

-----------------------------------------------------------------------------
Tick ==
    /\ now' \in {t \in Moments : t > now}
    /\ UNCHANGED <<marks, callVars, histVars>>

(* resolve_download_concurrency; the mutant of it takes the wrong bound.   *)
ConcurrencyUnclamped(limit) == Max({Len(List), limit})
Concurrency(limit) == Min({Len(List), limit})

(* A caller that gives no limit of its own has that of its client, which   *)
(* is at least 1.                                                          *)
Invoke(b, kind, limit, span) ==
    /\ phase[b] = "idle"
    /\ call' = [call EXCEPT ![b] = [kind |-> kind, limit |-> limit, span |-> span]]
    /\ IF limit = 0
         THEN /\ phase' = [phase EXCEPT ![b] = "error"]
              /\ UNCHANGED waiting
         ELSE /\ phase' = [phase EXCEPT ![b] = "running"]
              /\ waiting' = [waiting EXCEPT ![b] = Jobs]
    /\ UNCHANGED <<now, marks, active, hung, done, answer, histVars>>

(* The range of a job is fixed as its future is polled for the first time. *)
RangeOf(b, ticker) ==
    IF call[b].kind = "incremental"
      THEN LET end == LastAvailable(now)
           IN  [first |-> IncrementalStart(marks[ticker], end, Lookback),
                end   |-> end,
                fresh |-> marks[ticker] = Never]
      ELSE [first |-> now - call[b].span, end |-> now, fresh |-> FALSE]

(* Mutant of MayBegin: a future that ends makes no room for the next one.  *)
MayBeginFirst(b) ==
    /\ waiting[b] # {}
    /\ Cardinality(active[b]) + Len(done[b]) < Concurrency(call[b].limit)
MayBegin(b) ==
    /\ waiting[b] # {}
    /\ Cardinality(active[b]) < Concurrency(call[b].limit)

(* Mutant of MarkEarly: the checkpoint moves before the rows are fetched.  *)
MarkAtOnce(b, ticker, range) ==
    IF call[b].kind = "incremental" THEN [marks EXCEPT ![ticker] = range.end] ELSE marks
MarkEarly(b, ticker, range) == marks

Begin(b) ==
    /\ phase[b] = "running"
    /\ MayBegin(b)
    /\ LET j     == Min(waiting[b])
           range == RangeOf(b, List[j])
       IN  /\ waiting' = [waiting EXCEPT ![b] = @ \ {j}]
           /\ marks' = MarkEarly(b, List[j], range)
           /\ IF range.first < range.end
                THEN /\ active' = [active EXCEPT ![b] = @ \cup {[job |-> j, range |-> range]}]
                     /\ UNCHANGED done
                ELSE /\ done' = [done EXCEPT ![b] = Append(@, [job |-> j, times |-> {}])]
                     /\ UNCHANGED active
    /\ UNCHANGED <<now, call, phase, hung, answer, histVars>>

(* store.set: the checkpoint moves to the last row, if there is one.       *)
SetMark(b, a, times) ==
    LET t == List[a.job]
    IN  IF call[b].kind = "incremental" /\ times # {}
          THEN /\ marks' = [marks EXCEPT ![t] = Max(times)]
               /\ since' = IF a.range.fresh THEN [since EXCEPT ![t] = Max({@, a.range.first})]
                        ELSE since
               /\ sampled' = [sampled EXCEPT ![t] =
                                 @ \cup Points(a.range.first, a.range.end, Interval)]
          ELSE UNCHANGED <<marks, since, sampled>>

Fetchable(a) == History(Ticks[List[a.job]], a.range.first, a.range.end, Interval)

(* Only a fetch that does not hang ends.                                   *)
UnderWay(b, a) == phase[b] = "running" /\ a \in active[b] \ hung[b]

JobEnds(b, a) ==
    /\ UnderWay(b, a)
    /\ active' = [active EXCEPT ![b] = @ \ {a}]
    /\ \E times \in {Fetchable(a)} :
           /\ done' = [done EXCEPT ![b] = Append(@, [job |-> a.job, times |-> times])]
           /\ SetMark(b, a, times)
    /\ UNCHANGED <<now, call, phase, waiting, hung, answer, got, lost>>

(* A fetch that waits for a download of the same file by another may miss  *)
(* its wakeup (FetchCache): it has no timeout, and waits until its call is *)
(* dropped or fails.                                                       *)
Hangs(b, a) ==
    /\ UnderWay(b, a)
    /\ FoldFunction(LAMBDA h, n : n + Cardinality(h), 0, hung) < MaxHung
    /\ hung' = [hung EXCEPT ![b] = @ \cup {a}]
    /\ UNCHANGED <<now, marks, call, phase, waiting, active, done, answer, histVars>>

(* The call ends, and the rows it has are gone, those of the jobs that     *)
(* ended too.                                                              *)
Drop(b, jobs, how) ==
    /\ phase' = [phase EXCEPT ![b] = how]
    /\ waiting' = [waiting EXCEPT ![b] = {}]
    /\ active' = [active EXCEPT ![b] = {}]
    /\ hung' = [hung EXCEPT ![b] = {}]
    /\ done' = [done EXCEPT ![b] = <<>>]
    /\ lost' = lost \cup
           IF call[b].kind = "incremental" THEN {List[d.job] : d \in {e \in jobs : e.times # {}}}
             ELSE {}
    /\ UNCHANGED <<now, call, answer, got>>

JobFails(b) ==
    /\ phase[b] = "running"
    /\ active[b] \ hung[b] # {}
    /\ Drop(b, ToSet(done[b]), "error")
    /\ UNCHANGED <<marks, since, sampled>>

(* The caller drops the future of the call.                                *)
Cancel(b) ==
    /\ phase[b] = "running"
    /\ Drop(b, ToSet(done[b]), "dropped")
    /\ UNCHANGED <<marks, since, sampled>>

(* FileCheckpointStore keeps a checkpoint in memory that it failed to      *)
(* write: the rows are dropped, and the checkpoint has moved.              *)
StoreFails(b, a) ==
    /\ UnderWay(b, a)
    /\ call[b].kind = "incremental"
    /\ \E times \in {Fetchable(a)} :
           /\ times # {}
           /\ SetMark(b, a, times)
           /\ Drop(b, ToSet(done[b]) \cup {[job |-> a.job, times |-> times]}, "error")

(* Mutant of InOrder: the rows come in the order in which the jobs ended.  *)
AsTheyEnded(ended) == ended
InOrder(ended) ==
    CHOOSE s \in [DOMAIN ended -> ToSet(ended)] :
        /\ ToSet(s) = ToSet(ended)
        /\ \A i, k \in DOMAIN s : i < k => s[i].job <= s[k].job

Return(b) ==
    /\ phase[b] = "running"
    /\ waiting[b] = {} /\ active[b] = {}
    /\ phase' = [phase EXCEPT ![b] = "ok"]
    /\ answer' = [answer EXCEPT ![b] = InOrder(done[b])]
    /\ done' = [done EXCEPT ![b] = <<>>]
    /\ got' = got \cup Held(b)
    /\ UNCHANGED <<now, marks, call, waiting, active, hung, since, sampled, lost>>

(* The caller has done with the call, and may make another.                *)
Taken(b) ==
    /\ phase[b] \in {"ok", "error", "dropped"}
    /\ phase' = [phase EXCEPT ![b] = "idle"]
    /\ call' = [call EXCEPT ![b] = NoCall]
    /\ answer' = [answer EXCEPT ![b] = <<>>]
    /\ UNCHANGED <<now, marks, waiting, active, hung, done, histVars>>

-----------------------------------------------------------------------------
Advance(b) == Begin(b) \/ Return(b) \/ \E a \in active[b] : JobEnds(b, a)

Next ==
    \/ Tick
    \/ \E b \in Batches :
          \/ \E limit \in Limits[b] : Invoke(b, "incremental", limit, 0)
          \/ \E limit \in Limits[b], span \in Spans[b] : Invoke(b, "period", limit, span)
          \/ Advance(b) \/ JobFails(b) \/ Cancel(b) \/ Taken(b)
          \/ \E a \in active[b] : StoreFails(b, a) \/ Hangs(b, a)

Spec == Init /\ [][Next]_vars

(* The runtime polls the futures of a call.  A fetch that does not hang    *)
(* ends, by an answer or by its timeouts; nothing is said of one that does.*)
FairSpec == Spec /\ \A b \in Batches : WF_vars(Advance(b))
-----------------------------------------------------------------------------
Ranges  == [first : Int, end : Times, fresh : BOOLEAN]
Fetches == [job : Jobs, range : Ranges]
Results == [job : Jobs, times : SUBSET Times]

TypeOK ==
    /\ now \in Times
    /\ marks \in [Tickers -> {Never} \cup Times]
    /\ call \in [Batches -> [kind : {"period", "incremental"}, limit : Nat, span : Nat]]
    /\ phase \in [Batches -> {"idle", "running", "ok", "error", "dropped"}]
    /\ waiting \in [Batches -> SUBSET Jobs]
    /\ active \in [Batches -> SUBSET Fetches]
    /\ hung \in [Batches -> SUBSET Fetches]
    /\ done \in [Batches -> Seq(Results)]
    /\ got \subseteq Tickers \X Times
    /\ since \in [Tickers -> Int]
    /\ sampled \in [Tickers -> SUBSET Int]
    /\ lost \subseteq Tickers

(* A call never has more fetches under way than it was allowed, nor fewer  *)
(* jobs accounted for than tickers.                                        *)
BoundedAndComplete ==
    \A b \in Batches : phase[b] = "running" =>
        /\ Cardinality(active[b]) <= call[b].limit
        /\ Cardinality(active[b]) + Cardinality(waiting[b]) + Len(done[b]) = Len(List)

(* A call that succeeds answers for its tickers one by one, in the order   *)
(* of the list, whatever the order in which the fetches ended.             *)
AnswerInOrder ==
    \A b \in Batches : phase[b] = "ok" =>
        /\ Len(answer[b]) = Len(List)
        /\ \A j \in Jobs : answer[b][j].job = j

(* From the latest start of a range that rested on no checkpoint up to the *)
(* checkpoint of a ticker no interval went by without a sample, and every  *)
(* sample that its own hour had a tick for was handed to a caller, or is   *)
(* held by a call, whatever calls overlapped, failed, hung or were         *)
(* dropped, and though a slow one may move the checkpoint back: only a     *)
(* call that failed after moving the checkpoint loses rows.  Ticks that no *)
(* sample's own hour shows are passed over (History).                      *)
TimesGiven(t) ==
    LET given == got \cup UNION {Held(b) : b \in Batches}
    IN  {u \in Times : <<t, u>> \in given}

CheckpointCovered ==
    \A t \in Tickers \ lost : marks[t] # Never =>
        Covered(Ticks[t], sampled[t], Interval, since[t], marks[t], TimesGiven(t))

(* Every call returns, fails or is dropped, unless fetches that hang are   *)
(* all it waits for: no ticker of the list is left behind when the limit   *)
(* is below the length of the list, and a hung fetch does not keep a call  *)
(* with room for another from going through the rest of its list.          *)
Stuck(b) == hung[b] # {} /\ active[b] = hung[b] /\ ~MayBegin(b)

CallsReturn ==
    \A b \in Batches : phase[b] = "running" ~> phase[b] # "running" \/ Stuck(b)
=============================================================================
