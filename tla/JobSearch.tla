----------------------------- MODULE JobSearch -----------------------------
(***************************************************************************)
(* The job manager's search page: its searches, the list they fill, and the *)
(* rows an operator edits.  Everything runs on the browser's one thread, but *)
(* a search waits for two remote calls, one after the other, and goes on    *)
(* after each of them although a newer search may have begun.  What the     *)
(* page's views do about that is the reactive runtime's: a click makes the  *)
(* results obsolete, and what is obsolete never becomes ready; the list and *)
(* the methods to choose from are plain variables without that protection.  *)
(* The page has one sink for all its views: nothing goes into the document  *)
(* before all of them are ready, the queue names the page once asks for too. *)
(*                                                                          *)
(* Searches are numbered.  An item is the object a search has made for a    *)
(* job; it holds what has been entered for its update.                      *)
(***************************************************************************)
EXTENDS Naturals, Sequences, FiniteSets, SequencesExt

CONSTANTS
    Jobs,
    Entries,      \* what an operator may enter in a row
    NoEntry,
    Faults,       \* "remoteFails", "outOfOrder": calls fail, or overtake others
    MaxSearches,  \* bound: the number of searches
    MaxUpdates    \* bound: the updates under way at a time

ASSUME SearchAssumption ==
    /\ NoEntry \notin Entries
    /\ Faults \subseteq {"remoteFails", "outOfOrder"}
    /\ MaxSearches \in Nat
    /\ MaxUpdates \in Nat

VARIABLES
    names,       \* the snapshot of queueNameView
    results,     \* the newest snapshot of the results view, and its search
    asked,       \* a click that no search has begun for
    requests,    \* the remote calls of searches under way, in the order sent
    returned,    \* searches that are about to return their element
    failed,      \* searches that a remote call has failed
    shown,       \* the search whose element is in the page
    methods,     \* methodCriteria, by the search that set it
    updateSet,   \* the list: the search that set it, and the jobs found
    observed,    \* the search whose list the rows were last made from
    rows,        \* per job: the search whose item its row has captured
    data,        \* per item: UpdateData
    entered,     \* history: per job, what its row was last given
    updates,     \* updates sent and not answered
    disabled,    \* the items whose row says "Updated"
    overtaken    \* history: some answer came before that of an older call

view == <<names, results, asked, shown, observed>>
form == <<data, entered, updates, disabled>>
vars == <<view, requests, returned, failed, methods, updateSet, rows, form, overtaken>>

Searches == 1..MaxSearches
NoSearch == 0

Call(kind, k) == [kind |-> kind, search |-> k]

----------------------------------------------------------------------------
(* The sink *)

\* The document is brought up to date when every view is ready.
Sync(namesNow, resultsNow) ==
    shown' = IF namesNow = "ready" THEN resultsNow.search ELSE shown

\* The list has changed under rows that were made from it.
RowsAreStale ==
    /\ results.state = "ready" /\ results.search # NoSearch
    /\ observed # updateSet.search

NamesArrive ==
    /\ names = "waiting"
    /\ names' = "ready"
    /\ IF results.state = "ready" /\ ~RowsAreStale THEN Sync(names', results)
                                                  ELSE UNCHANGED shown
    /\ UNCHANGED <<results, asked, observed, requests, returned, failed, methods, updateSet, rows, form, overtaken>>

\* Its snapshot, too, then waits for ever, and the sink with it.
NamesFail ==
    /\ "remoteFails" \in Faults
    /\ names = "waiting"
    /\ names' = "failed"
    /\ UNCHANGED <<results, asked, shown, observed, requests, returned, failed, methods, updateSet, rows, form, overtaken>>

----------------------------------------------------------------------------
(* The search button, and the sink's loop *)

\* Mutant: a snapshot that waits for its value is left alone.
ObsoleteIfReady(snap) == IF snap.state = "ready" THEN [snap EXCEPT !.state = "obsolete"] ELSE snap

\* The trigger's snapshot takes those that depend on it with it, and the sink
\* has its loop forked.
Obsolete(snap) == [snap EXCEPT !.state = "obsolete"]

Trigger ==
    /\ results.search < MaxSearches
    /\ asked' = TRUE
    /\ results' = Obsolete(results)
    /\ UNCHANGED <<names, shown, observed, requests, returned, failed, methods, updateSet, rows, form, overtaken>>

\* The loop asks for the view, and MapAsync calls CreateSearchResults.
BeginSearch ==
    /\ results.state = "obsolete"
    /\ LET k == results.search + 1 IN
           /\ results' = [search |-> k, state |-> "waiting"]
           /\ requests' = Append(requests, Call("methods", k))
    /\ asked' = FALSE
    /\ UNCHANGED <<names, shown, observed, returned, failed, methods, updateSet, rows, form, overtaken>>

----------------------------------------------------------------------------
(* CreateSearchResults after its first line, up to each await *)

\* Mutant: an answer has no further call follow it.
AnsweredOnce(i, next) ==
    /\ i = 1 \/ "outOfOrder" \in Faults
    /\ requests' = RemoveAt(requests, i)
    /\ overtaken' = (overtaken \/ i # 1)

\* The call at position i is answered, and the search makes the next one.
Answered(i, next) ==
    /\ i = 1 \/ "outOfOrder" \in Faults
    /\ requests' = RemoveAt(requests, i) \o next
    /\ overtaken' = (overtaken \/ i # 1)

MethodsArrive(i) ==
    /\ requests[i].kind = "methods"
    /\ methods' = requests[i].search
    /\ Answered(i, <<Call("jobs", requests[i].search)>>)
    /\ UNCHANGED <<view, returned, failed, updateSet, rows, form>>

JobsArrive(i) ==
    /\ requests[i].kind = "jobs"
    /\ \E found \in SUBSET Jobs :
           updateSet' = [search |-> requests[i].search, jobs |-> found]
    /\ returned' = returned \cup {requests[i].search}
    /\ Answered(i, << >>)
    /\ UNCHANGED <<view, failed, methods, rows, form>>

\* The exception is logged; the snapshot waits for ever.
RemoteFails(i) ==
    /\ "remoteFails" \in Faults
    /\ failed' = failed \cup {requests[i].search}
    /\ Answered(i, << >>)
    /\ UNCHANGED <<view, returned, methods, updateSet, rows, form>>

----------------------------------------------------------------------------
(* Rows *)

\* Mutant: the rows of jobs that are no longer found stay.
RowKept(j) ==
    IF rows[j] = NoSearch /\ j \in updateSet.jobs THEN updateSet.search ELSE rows[j]

\* MapSeqCachedBy: the row of a key that the list before had is used again.
Row(j) ==
    IF j \notin updateSet.jobs THEN NoSearch
    ELSE IF rows[j] # NoSearch THEN rows[j] ELSE updateSet.search

MakeRows ==
    /\ rows' = [j \in Jobs |-> Row(j)]
    /\ entered' = [j \in Jobs |-> IF rows'[j] = rows[j] THEN entered[j] ELSE NoEntry]
    /\ observed' = updateSet.search
    /\ UNCHANGED <<data, updates, disabled>>

\* Mutant: the state of the snapshot is not looked at.
MayMarkReadyAlways(k) == TRUE

MayMarkReady(k) == results = [search |-> k, state |-> "waiting"]

\* MarkDone: the element with the list is the page's now, or is dropped.
ReturnResults(k) ==
    /\ k \in returned
    /\ returned' = returned \ {k}
    /\ IF MayMarkReady(k)
         THEN /\ results' = [results EXCEPT !.state = "ready"]
              /\ Sync(names, results')
              /\ MakeRows
         ELSE UNCHANGED <<results, shown, rows, observed, form>>
    /\ UNCHANGED <<names, asked, requests, failed, methods, updateSet, overtaken>>

Rerender ==
    /\ RowsAreStale
    /\ MakeRows
    /\ Sync(names, results)
    /\ UNCHANGED <<names, results, asked, requests, returned, failed, methods, updateSet, overtaken>>

----------------------------------------------------------------------------
(* The operator *)

\* Mutant: the lens writes to the item of whatever job is in the list.
AnyItem(j) == {updateSet.search} \X updateSet.jobs

\* The item the lens of a row finds by its key, if there is one.
ItemInList(j) == {updateSet.search} \X (updateSet.jobs \cap {j})

CapturedItem(j) == <<rows[j], j>>

\* A row that was made is in the document once an element with the list is.
InPage(j) == shown # NoSearch /\ rows[j] # NoSearch

Enter(j, e) ==
    /\ InPage(j)
    /\ entered' = [entered EXCEPT ![j] = e]
    /\ data' = [i \in DOMAIN data |-> IF i \in ItemInList(j) THEN e ELSE data[i]]
    /\ UNCHANGED <<view, requests, returned, failed, methods, updateSet, rows, updates, disabled, overtaken>>

\* PerformJobUpdate(juvm), of the item the row was made for.
Update(j) ==
    /\ InPage(j)
    /\ CapturedItem(j) \notin disabled
    /\ Cardinality(updates) < MaxUpdates
    /\ updates' = updates \cup
           {[item |-> CapturedItem(j), sent |-> data[CapturedItem(j)], entered |-> entered[j],
             inList |-> CapturedItem(j) \in ItemInList(j)]}
    /\ UNCHANGED <<view, requests, returned, failed, methods, updateSet, rows, data, entered, disabled, overtaken>>

\* true disables the row; false and a failure do not.
UpdateAnswered(u) ==
    /\ updates' = updates \ {u}
    /\ \/ disabled' = disabled \cup {u.item}
       \/ UNCHANGED disabled
    /\ UNCHANGED <<view, requests, returned, failed, methods, updateSet, rows, data, entered, overtaken>>

----------------------------------------------------------------------------

\* The page asks for the queue names; the results are an empty element.
Init ==
    /\ names = "waiting"
    /\ results = [search |-> NoSearch, state |-> "ready"]
    /\ asked = FALSE
    /\ requests = << >>
    /\ returned = {}
    /\ failed = {}
    /\ shown = NoSearch
    /\ methods = NoSearch
    /\ updateSet = [search |-> NoSearch, jobs |-> {}]
    /\ observed = NoSearch
    /\ rows = [j \in Jobs |-> NoSearch]
    /\ data = [i \in Searches \X Jobs |-> NoEntry]
    /\ entered = [j \in Jobs |-> NoEntry]
    /\ updates = {}
    /\ disabled = {}
    /\ overtaken = FALSE

AnswerArrives ==
    \E i \in DOMAIN requests : MethodsArrive(i) \/ JobsArrive(i) \/ RemoteFails(i)

Next ==
    \/ NamesArrive \/ NamesFail
    \/ Trigger \/ BeginSearch \/ AnswerArrives \/ Rerender
    \/ \E k \in Searches : ReturnResults(k)
    \/ \E j \in Jobs : Update(j) \/ \E e \in Entries : Enter(j, e)
    \/ \E u \in updates : UpdateAnswered(u)

Spec == Init /\ [][Next]_vars

\* The event loop runs what is queued, and a remote call is answered or fails.
FairSpec ==
    /\ Spec
    /\ WF_vars(NamesArrive \/ NamesFail)
    /\ WF_vars(BeginSearch)
    /\ WF_vars(Rerender)
    /\ WF_vars(AnswerArrives)
    /\ \A k \in Searches : WF_vars(ReturnResults(k))

----------------------------------------------------------------------------
(* Properties *)

Numbers == Searches \cup {NoSearch}

\* Types; no search has two calls under way, results that wait for a search wait
\* for one that is under way, or has failed, and nothing is in the document
\* without the queue names.
TypeOK ==
    /\ names \in {"waiting", "ready", "failed"}
    /\ names # "ready" => shown = NoSearch
    /\ results \in [search : Numbers, state : {"waiting", "ready", "obsolete"}]
    /\ asked \in BOOLEAN
    /\ requests \in Seq([kind : {"methods", "jobs"}, search : Searches])
    /\ returned \subseteq Searches /\ failed \subseteq Searches
    /\ shown \in Numbers /\ methods \in Numbers /\ observed \in Numbers
    /\ updateSet \in [search : Numbers, jobs : SUBSET Jobs]
    /\ rows \in [Jobs -> Numbers]
    /\ data \in [Searches \X Jobs -> Entries \cup {NoEntry}]
    /\ entered \in [Jobs -> Entries \cup {NoEntry}]
    /\ updates \subseteq [item : Searches \X Jobs, sent : Entries \cup {NoEntry},
                          entered : Entries \cup {NoEntry}, inList : BOOLEAN]
    /\ disabled \subseteq Searches \X Jobs
    /\ overtaken \in BOOLEAN
    /\ \A i, k \in DOMAIN requests : requests[i].search = requests[k].search => i = k
    /\ results.state = "waiting" =>
           \/ results.search \in returned \cup failed
           \/ \E i \in DOMAIN requests : requests[i].search = results.search

Quiet ==
    /\ names = "ready" /\ requests = << >> /\ returned = {}
    /\ results.state = "ready" /\ ~RowsAreStale

\* However clicks and answers fall, a page that has come to rest shows the
\* element of the last search, for an older one that returns late is obsolete.
\* The list, its rows and the methods are that search's too, provided no answer
\* has overtaken an older call's: they are set without regard to obsolescence.
QuietPageIsCurrent ==
    Quiet => /\ shown = results.search
             /\ ~overtaken => /\ updateSet.search = shown
                              /\ methods = shown
                              /\ \A j \in Jobs : rows[j] # NoSearch <=> j \in updateSet.jobs

\* No click on Search is lost, not even one in the middle of a search: results
\* of a search that began after it are shown in the end, unless its own calls
\* fail, or the one for the queue names, without which nothing is ever shown.
ClickIsAnswered ==
    asked ~> /\ ~asked
             /\ shown = results.search \/ results.search \in failed \/ names = "failed"

\* An update carries what was entered in its row, as long as the row's item is
\* in the list.  (The row of a job that is found again keeps its old item, while
\* what is entered goes to the new one.)
UpdateCarriesEntries == \A u \in updates : u.inList => u.sent = u.entered

=============================================================================
