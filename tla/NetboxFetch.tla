---------------------------- MODULE NetboxFetch ----------------------------
(***************************************************************************)
(* One Client.FetchIPAddresses after another (internal/netboxclient): a    *)
(* probe for the number of records, then all pages at once by offset, and  *)
(* the whole of it again after a failure.  NetBox answers each request     *)
(* from what it holds at that moment, and changes between them.  Sidecar   *)
(* takes a fetch to be one reading of NetBox; this module says what it is. *)
(*                                                                         *)
(* A record is the number by which NetBox orders it.  NetBox shows only    *)
(* the records in a published status (the status= parameters), so a change *)
(* of status is an addition or a removal here.                             *)
(***************************************************************************)
EXTENDS Integers, SequencesExt

CONSTANTS
    Record,          \* NetBox IP addresses
    NetboxContents,  \* what NetBox may hold at first
    PageSize, MaxConcurrency, RetryCount,
    MaxChanges       \* bound: changes in NetBox

\* docs/configuration.md sends at most 1000 for PageSize, so that NetBox does
\* not shorten the pages.  Nothing in the code rejects a zero or less.
ASSUME NetboxFetchAssumption ==
    /\ Record \subseteq Nat /\ IsFiniteSet(Record)
    /\ NetboxContents \subseteq SUBSET Record
    /\ {PageSize, MaxConcurrency} \subseteq Nat \ {0}
    /\ {RetryCount, MaxChanges} \subseteq Nat

VARIABLES
    netbox,     \* the published records
    reachable,  \* NetBox answers
    changes,    \* changes in NetBox so far
    cancelled,  \* the context is: the process is to stop
    pc,         \* idle, probing, paging, backoff, ok or failed
    attempt,    \* FetchIPAddresses's loop variable
    page,       \* per page: queued (for sem), reading, done or failed
    results,    \* per page: its records, once done
    answer,     \* what the last fetch returned
    always,     \* history: records NetBox held ever since this attempt's probe
    shifts      \* history: changes in NetBox since this attempt's probe

envVars     == <<netbox, reachable, changes, cancelled>>
historyVars == <<always, shifts>>
vars        == <<envVars, pc, attempt, page, results, answer, historyVars>>

-----------------------------------------------------------------------------
(* NetBox's answers *)

\* The place of r among S, and all of S in their places.
Rank(S, r) == Cardinality({x \in S : x <= r})

Listing(S) == [k \in 1..Cardinality(S) |-> CHOOSE r \in S : Rank(S, r) = k]

\* GET ?limit=..&offset=..
PageOf(S, offset, limit) ==
    SubSeq(Listing(S), offset + 1, Min({offset + limit, Cardinality(S)}))

-----------------------------------------------------------------------------
(* The client *)

\* Faulty variant: the last, short page is not counted.
TotalPagesFull(total) == total \div PageSize

\* ceil(total / pageSize)
TotalPages(total) == (total + PageSize - 1) \div PageSize

Pages == DOMAIN page

Reading == {p \in Pages : page[p] = "reading"}

\* Faulty variant: off by one.
MayReadOneMore == Cardinality(Reading) <= MaxConcurrency

\* Faulty variant: a request that fails keeps its place in sem.
MayReadLeaky ==
    Cardinality({p \in Pages : page[p] \in {"reading", "failed"}}) < MaxConcurrency

\* Room in sem for another request.
MayRead == Cardinality(Reading) < MaxConcurrency

\* wg.Wait() returns.
AllSettled == \A p \in Pages : page[p] \in {"done", "failed"}

\* Faulty variant: only the first page's error counts.
PageFailedFirst == page[0] = "failed"

\* Faulty variant: errsCh keeps the errors of earlier attempts.
PageFailedEver == attempt > 0 \/ \E p \in Pages : page[p] = "failed"

\* errsCh is not empty.
PageFailed == \E p \in Pages : page[p] = "failed"

\* The pages in their order: the first n of them, and all.
Appended[n \in 0..Cardinality(Pages)] ==
    IF n = 0 THEN <<>> ELSE Appended[n - 1] \o results[n - 1]

Collected == Appended[Cardinality(Pages)]

NoPages == [p \in {} |-> "queued"]

\* The probe of an attempt goes out.
BeginAttempt(n) ==
    /\ pc' = "probing" /\ attempt' = n
    /\ page' = NoPages /\ results' = [p \in {} |-> <<>>]
    /\ answer' = <<>>
    /\ always' = netbox /\ shifts' = 0

Fetch ==
    /\ pc \in {"idle", "ok", "failed"} /\ ~cancelled
    /\ BeginAttempt(0)
    /\ UNCHANGED envVars

\* fetchIPAddressesOnce returns an error: the loop goes on or gives up.
MoreAttempts == attempt < RetryCount

AttemptFails ==
    /\ pc' = IF MoreAttempts THEN "backoff" ELSE "failed"
    /\ UNCHANGED <<envVars, attempt, answer, historyVars>>

RequestMayFail == ~reachable \/ cancelled

ProbeAnswered ==
    /\ pc = "probing" /\ reachable /\ ~cancelled
    /\ LET total == Cardinality(netbox)
       IN  /\ pc' = IF total = 0 THEN "ok" ELSE "paging"
           /\ page' = [p \in 0..(TotalPages(total) - 1) |-> "queued"]
           /\ results' = [p \in DOMAIN page' |-> <<>>]
    /\ always' = netbox /\ shifts' = 0
    /\ UNCHANGED <<envVars, attempt, answer>>

ProbeFails ==
    /\ pc = "probing" /\ RequestMayFail
    /\ AttemptFails
    /\ UNCHANGED <<page, results>>

\* sem <- struct{}{}
Acquire(p) ==
    /\ pc = "paging" /\ page[p] = "queued" /\ MayRead
    /\ page' = [page EXCEPT ![p] = "reading"]
    /\ UNCHANGED <<envVars, pc, attempt, results, answer, historyVars>>

Offset(p) == p * PageSize

PageAnswered(p) ==
    /\ pc = "paging" /\ page[p] = "reading" /\ reachable /\ ~cancelled
    /\ page' = [page EXCEPT ![p] = "done"]
    /\ results' = [results EXCEPT ![p] = PageOf(netbox, Offset(p), PageSize)]
    /\ UNCHANGED <<envVars, pc, attempt, answer, historyVars>>

PageFails(p) ==
    /\ pc = "paging" /\ page[p] = "reading" /\ RequestMayFail
    /\ page' = [page EXCEPT ![p] = "failed"]
    /\ UNCHANGED <<envVars, pc, attempt, results, answer, historyVars>>

\* Every page is in, or one of them failed and with it the attempt.
Collect ==
    /\ pc = "paging" /\ AllSettled
    /\ IF PageFailed
       THEN AttemptFails
       ELSE /\ pc' = "ok" /\ answer' = Collected
            /\ UNCHANGED <<envVars, attempt, historyVars>>
    /\ UNCHANGED <<page, results>>

\* The backoff delay is over.
Retry ==
    /\ pc = "backoff"
    /\ BeginAttempt(attempt + 1)
    /\ UNCHANGED envVars

\* <-ctx.Done() during the backoff.
StopRetrying ==
    /\ pc = "backoff" /\ cancelled
    /\ pc' = "failed"
    /\ UNCHANGED <<envVars, attempt, page, results, answer, historyVars>>

Client == \/ ProbeAnswered \/ ProbeFails \/ Collect \/ Retry \/ StopRetrying
          \/ \E p \in Pages : Acquire(p) \/ PageAnswered(p) \/ PageFails(p)

-----------------------------------------------------------------------------
(* The environment *)

clientVars == <<pc, attempt, page, results, answer>>

\* A record is added, removed, or enters or leaves a published status.
NetboxChanges(r) ==
    /\ changes < MaxChanges
    /\ changes' = changes + 1
    /\ netbox' = IF r \in netbox THEN netbox \ {r} ELSE netbox \cup {r}
    /\ IF pc = "paging"
       THEN always' = always \ {r} /\ shifts' = shifts + 1
       ELSE UNCHANGED historyVars
    /\ UNCHANGED <<reachable, cancelled, clientVars>>

\* NetBox goes down, or comes back.
ReachabilityChanges ==
    /\ reachable' = ~reachable
    /\ UNCHANGED <<netbox, changes, cancelled, clientVars, historyVars>>

Cancel ==
    /\ ~cancelled /\ cancelled' = TRUE
    /\ UNCHANGED <<netbox, reachable, changes, clientVars, historyVars>>

Init ==
    /\ netbox \in NetboxContents
    /\ reachable \in BOOLEAN
    /\ changes = 0 /\ cancelled = FALSE
    /\ pc = "idle" /\ attempt = 0
    /\ page = NoPages /\ results = [p \in {} |-> <<>>] /\ answer = <<>>
    /\ always = netbox /\ shifts = 0

Next == \/ Fetch \/ Client
        \/ \E r \in Record : NetboxChanges(r)
        \/ ReachabilityChanges \/ Cancel

\* The client's goroutines keep running; a request is answered or fails within
\* the HTTP client's timeout, and the backoff ends.
Fairness == WF_vars(Client)

Spec == Init /\ [][Next]_vars /\ Fairness

-----------------------------------------------------------------------------
(* Properties *)

\* A fetch in progress has at most MaxConcurrency requests out, asks for no
\* more pages than the records NetBox can have held, and keeps nothing of a page
\* that is not in.
TypeOK ==
    /\ netbox \subseteq Record /\ always \subseteq Record
    /\ reachable \in BOOLEAN /\ cancelled \in BOOLEAN
    /\ changes \in 0..MaxChanges /\ shifts \in 0..changes
    /\ pc \in {"idle", "probing", "paging", "backoff", "ok", "failed"}
    /\ attempt \in 0..RetryCount
    /\ Pages \subseteq 0..(TotalPages(Cardinality(Record)) - 1)
    /\ page \in [Pages -> {"queued", "reading", "done", "failed"}]
    /\ Cardinality(Reading) <= MaxConcurrency
    /\ results \in [Pages -> Seq(Record)]
    /\ \A p \in Pages : page[p] # "done" => results[p] = <<>>
    /\ answer \in Seq(Record)

\* A fetch that NetBox does not change under returns every record once and in
\* NetBox's order, whatever order the pages came in and whatever earlier
\* attempts had got (N18: a truncated set is never returned).
QuietIsExact == (pc = "ok" /\ shifts = 0) => answer = Listing(always)

\* When NetBox does change, a record it held all along can be missing, because
\* the pages are cut by offset: at most one per page for each change.
LossBounded ==
    pc = "ok"
        => Cardinality(always \ ToSet(answer)) <= shifts * Cardinality(Pages)

\* Every fetch comes to an end: no request waits for ever for its place in sem,
\* and neither a retry nor a cancelled context leaves the poll loop waiting.
Returns == (pc \in {"probing", "paging", "backoff"}) ~> (pc \in {"ok", "failed"})

\* An outage that is over before the last attempt does not fail the poll.
RidesOutOutage ==
    [](pc = "backoff" /\ [](reachable /\ ~cancelled) => <>(pc = "ok"))
=============================================================================
