-------------------------- MODULE JobSearch_proofs --------------------------
(* Theorems about the search page, for any number of searches and jobs.     *)
EXTENDS JobSearch, TLAPS

Requests == [kind : {"methods", "jobs"}, search : Searches]

----------------------------------------------------------------------------
(* The calls under way *)

\* Where the call that is at position k after one at i was removed stood before.
Before(i, k) == IF k < i THEN k ELSE k + 1

LEMMA RemovedCall ==
    ASSUME NEW S, NEW s \in Seq(S), NEW i \in DOMAIN s
    PROVE  /\ RemoveAt(s, i) \in Seq(S)
           /\ Len(s) \in Nat \ {0} /\ i \in 1..Len(s)
           /\ Len(RemoveAt(s, i)) = Len(s) - 1
           /\ \A k \in 1..Len(s) - 1 : RemoveAt(s, i)[k] = s[Before(i, k)]
<1> DEFINE a == SubSeq(s, 1, i - 1)
           b == SubSeq(s, i + 1, Len(s))
<1>1. i \in 1..Len(s) /\ Len(s) \in Nat \ {0}
  OBVIOUS
<1>2. /\ a \in Seq(S) /\ Len(a) = i - 1
      /\ \A k \in 1..i - 1 : a[k] = s[k]
  BY <1>1
<1>3. /\ b \in Seq(S) /\ Len(b) = Len(s) - i
      /\ \A k \in 1..Len(s) - i : b[k] = s[k + i]
  BY <1>1
<1> HIDE DEF a, b
<1>4. /\ a \o b \in Seq(S)
      /\ Len(a \o b) = Len(a) + Len(b)
      /\ \A k \in 1..Len(a) : (a \o b)[k] = a[k]
      /\ \A k \in 1..Len(b) : (a \o b)[Len(a) + k] = b[k]
  <2>1. a \in Seq(S) /\ b \in Seq(S)
    BY <1>2, <1>3
  <2> QED BY <2>1
<1>5. Len(a \o b) = Len(s) - 1
  <2>1. Len(a) + Len(b) = Len(s) - 1
    BY <1>1, <1>2, <1>3
  <2> QED BY <1>4, <2>1
<1>6. ASSUME NEW k \in 1..Len(s) - 1 PROVE (a \o b)[k] = s[Before(i, k)]
  <2>1. CASE k < i
    <3>1. k \in 1..Len(a) /\ k \in 1..i - 1
      BY <1>1, <1>2, <2>1
    <3> QED BY <1>2, <1>4, <2>1, <3>1 DEF Before
  <2>2. CASE k >= i
    <3> DEFINE m == k - Len(a)
    <3>0. /\ Len(a) = i - 1 /\ Len(b) = Len(s) - i
          /\ i \in Int /\ k \in Int /\ Len(s) \in Int
          /\ i <= k /\ k <= Len(s) - 1
      BY <1>1, <1>2, <1>3, <2>2
    <3>1. /\ m \in 1..Len(b) /\ m \in 1..Len(s) - i /\ Len(a) + m = k
          /\ m + i = k + 1 /\ ~(k < i)
      BY <3>0
    <3> HIDE DEF m
    <3>2. (a \o b)[k] = b[m]
      BY <1>4, <3>1
    <3>3. b[m] = s[k + 1]
      BY <1>3, <3>1
    <3> QED BY <3>1, <3>2, <3>3 DEF Before
  <2>3. k < i \/ k >= i
    BY <1>1
  <2> QED BY <2>1, <2>2, <2>3
<1>7. RemoveAt(s, i) = a \o b
  BY DEF RemoveAt, a, b
<1> QED BY <1>1, <1>4, <1>5, <1>6, <1>7

LEMMA AddedCall ==
    ASSUME NEW S, NEW s \in Seq(S), NEW c \in S
    PROVE  /\ s \o <<c>> \in Seq(S) /\ Append(s, c) = s \o <<c>>
           /\ Len(s \o <<c>>) = Len(s) + 1 /\ Len(s) \in Nat
           /\ \A k \in 1..Len(s) : (s \o <<c>>)[k] = s[k]
           /\ (s \o <<c>>)[Len(s) + 1] = c
OBVIOUS

\* What an answer leaves of the calls under way: the others, in their order,
\* and the next call of the search, if any, behind them.
LEMMA AnsweredCalls ==
    ASSUME requests \in Seq(Requests), NEW i \in DOMAIN requests, NEW next,
           next \in {<< >>, <<Call("jobs", requests[i].search)>>}, Answered(i, next)
    PROVE  /\ requests' \in Seq(Requests)
           /\ DOMAIN requests = 1..Len(requests) /\ DOMAIN requests' = 1..Len(requests')
           /\ Len(requests) \in Nat /\ i \in 1..Len(requests)
           /\ Len(requests') = IF next = << >> THEN Len(requests) - 1 ELSE Len(requests)
           /\ \A k \in 1..Len(requests) - 1 : requests'[k] = requests[Before(i, k)]
           /\ next # << >> => /\ requests'[Len(requests)] = next[1]
                              /\ next[1] = Call("jobs", requests[i].search)
<1> DEFINE rest == RemoveAt(requests, i)
           c == Call("jobs", requests[i].search)
<1>1. /\ rest \in Seq(Requests)
      /\ Len(requests) \in Nat \ {0} /\ i \in 1..Len(requests)
      /\ Len(rest) = Len(requests) - 1
      /\ \A k \in 1..Len(requests) - 1 : rest[k] = requests[Before(i, k)]
  BY RemovedCall
<1>2. requests[i] \in Requests /\ c \in Requests
  <2>1. requests[i] \in Requests
    BY <1>1
  <2> QED BY <2>1 DEF Requests, Call
<1>3. requests' = rest \o next
  BY DEF Answered
<1> HIDE DEF rest, c
<1>4. CASE next = << >>
  <2>1. requests' = rest
    BY <1>1, <1>3, <1>4
  <2> QED BY <1>1, <1>4, <2>1
<1>5. CASE next = <<c>>
  <2>1. /\ rest \o <<c>> \in Seq(Requests)
        /\ Len(rest \o <<c>>) = Len(rest) + 1
        /\ \A k \in 1..Len(rest) : (rest \o <<c>>)[k] = rest[k]
        /\ (rest \o <<c>>)[Len(rest) + 1] = c
    BY <1>1, <1>2, AddedCall
  <2>2. next # << >> /\ next[1] = c
    BY <1>5
  <2> QED BY <1>1, <1>3, <1>5, <2>1, <2>2 DEF c
<1> QED BY <1>4, <1>5 DEF c

----------------------------------------------------------------------------
(* Type correctness *)

\* What is under way, or has come back, has begun; and the loop asks for no more
\* searches than there are.
HasBegun ==
    /\ \A i \in DOMAIN requests : requests[i].search <= results.search
    /\ \A k \in returned : k <= results.search
    /\ methods <= results.search
    /\ updateSet.search <= results.search
    /\ \A j \in Jobs : rows[j] <= results.search
    /\ results.state = "obsolete" => results.search < MaxSearches

\* The facts about the calls under way that TypeOK states.
CallsAreDistinct ==
    \A i, k \in DOMAIN requests : requests[i].search = requests[k].search => i = k

WaitedForIsKnown ==
    results.state = "waiting" =>
        \/ results.search \in returned \cup failed
        \/ \E i \in DOMAIN requests : requests[i].search = results.search

LEMMA NumbersAreNaturals ==
    /\ MaxSearches \in Nat
    /\ Searches \subseteq Nat \ {0} /\ Numbers \subseteq Nat
    /\ NoSearch \in Numbers /\ Searches \subseteq Numbers
    /\ \A k \in Numbers : k # NoSearch => k \in Searches
BY SearchAssumption DEF Searches, Numbers, NoSearch

LEMMA TypedRequests ==
    TypeOK => /\ requests \in Seq(Requests)
              /\ DOMAIN requests = 1..Len(requests) /\ Len(requests) \in Nat
              /\ \A i \in DOMAIN requests : /\ requests[i] \in Requests
                                            /\ requests[i].search \in Searches
              /\ CallsAreDistinct /\ WaitedForIsKnown
<1> SUFFICES ASSUME TypeOK
             PROVE  /\ requests \in Seq(Requests)
                    /\ DOMAIN requests = 1..Len(requests) /\ Len(requests) \in Nat
                    /\ \A i \in DOMAIN requests : /\ requests[i] \in Requests
                                                  /\ requests[i].search \in Searches
                    /\ CallsAreDistinct /\ WaitedForIsKnown
  OBVIOUS
<1>1. requests \in Seq(Requests)
  BY DEF TypeOK, Requests
<1>2. \A i \in DOMAIN requests : requests[i] \in Requests
  BY <1>1
<1>3. DOMAIN requests = 1..Len(requests) /\ Len(requests) \in Nat
  BY <1>1
<1> QED BY <1>1, <1>2, <1>3 DEF TypeOK, Requests, CallsAreDistinct, WaitedForIsKnown

\* What is known of the calls under way after an answer: each is of a search
\* that had a call, and is the only one of it.
LEMMA AnswerKeepsCalls ==
    ASSUME TypeOK, NEW i \in DOMAIN requests, NEW next, Answered(i, next),
           next \in {<< >>, <<Call("jobs", requests[i].search)>>}
    PROVE  /\ requests' \in Seq(Requests)
           /\ CallsAreDistinct'
           /\ \A k \in DOMAIN requests' : \E m \in DOMAIN requests :
                  /\ requests'[k].search = requests[m].search
                  /\ next = << >> => m # i
           /\ \A m \in DOMAIN requests : (m # i \/ next # << >>) =>
                  \E k \in DOMAIN requests' : requests'[k].search = requests[m].search
<1> DEFINE n == Len(requests)
           l == Len(requests')
           last == next = << >>
           \* Where the call at k stood, or the one it follows.
           from == [k \in 1..n |-> IF k < n THEN Before(i, k) ELSE i]
<1>1. /\ requests' \in Seq(Requests)
      /\ DOMAIN requests = 1..n /\ DOMAIN requests' = 1..l
      /\ n \in Nat /\ i \in 1..n
      /\ l = IF last THEN n - 1 ELSE n
      /\ \A k \in 1..n - 1 : requests'[k] = requests[Before(i, k)]
      /\ ~last => requests'[n].search = requests[i].search
  <2>1. /\ requests \in Seq(Requests) /\ DOMAIN requests = 1..n /\ n \in Nat
    BY TypedRequests
  <2>2. next # << >> => requests'[n].search = requests[i].search
    <3>1. Call("jobs", requests[i].search).search = requests[i].search
      BY DEF Call
    <3> QED BY <2>1, <3>1, AnsweredCalls
  <2> QED BY <2>1, <2>2, AnsweredCalls
<1> HIDE DEF n, l, last
<1>2. \A k \in 1..l : /\ from[k] \in 1..n
                      /\ requests'[k].search = requests[from[k]].search
                      /\ last => from[k] # i
  BY <1>1 DEF Before
<1>3. \A k, m \in 1..l : from[k] = from[m] => k = m
  BY <1>1 DEF Before
<1>4. \A m \in 1..n : (m # i \/ ~last) => \E k \in 1..l : from[k] = m
  <2> SUFFICES ASSUME NEW m \in 1..n, m # i \/ ~last
               PROVE  \E k \in 1..l : from[k] = m
    OBVIOUS
  <2>1. CASE m < i
    <3>1. m \in 1..l /\ from[m] = m
      BY <1>1, <2>1 DEF Before
    <3> QED BY <3>1
  <2>2. CASE m > i
    <3>1. m - 1 \in 1..l /\ from[m - 1] = m
      BY <1>1, <2>2 DEF Before
    <3> QED BY <3>1
  <2>3. CASE m = i
    <3>1. n \in 1..l /\ from[n] = m
      BY <1>1, <2>3
    <3> QED BY <3>1
  <2>4. m < i \/ m > i \/ m = i
    BY <1>1
  <2> QED BY <2>1, <2>2, <2>3, <2>4
<1> HIDE DEF from
<1>5. DOMAIN requests = 1..n /\ DOMAIN requests' = 1..l
  BY <1>1
<1>6. \A a, b \in 1..n : requests[a].search = requests[b].search => a = b
  BY <1>5, TypedRequests DEF CallsAreDistinct
<1>7. \A k, m \in 1..l : requests'[k].search = requests'[m].search => k = m
  BY <1>2, <1>3, <1>6
<1>8. \A k \in 1..l : \E m \in 1..n :
          requests'[k].search = requests[m].search /\ (last => m # i)
  BY <1>2
<1>9. \A m \in 1..n : (m # i \/ ~last) =>
          \E k \in 1..l : requests'[k].search = requests[m].search
  BY <1>2, <1>4
<1>10. CallsAreDistinct'
  BY <1>5, <1>7 DEF CallsAreDistinct
<1>11. /\ \A k \in DOMAIN requests' : \E m \in DOMAIN requests :
              requests'[k].search = requests[m].search /\ (last => m # i)
       /\ \A m \in DOMAIN requests : (m # i \/ ~last) =>
              \E k \in DOMAIN requests' : requests'[k].search = requests[m].search
  BY <1>5, <1>8, <1>9
<1>12. requests' \in Seq(Requests)
  BY <1>1
<1> QED BY <1>10, <1>11, <1>12 DEF last

SearchTypes == TypeOK /\ HasBegun

LEMMA BeginSearchTypes == SearchTypes /\ BeginSearch => SearchTypes'
<1> SUFFICES ASSUME SearchTypes, BeginSearch PROVE SearchTypes'
  OBVIOUS
<1> USE DEF SearchTypes
<1> DEFINE k == results.search + 1
           c == Call("methods", k)
           n == Len(requests)
<1>1. /\ results.state = "obsolete"
      /\ results' = [search |-> k, state |-> "waiting"]
      /\ requests' = Append(requests, c)
      /\ asked' = FALSE
      /\ UNCHANGED <<names, shown, observed, returned, failed, methods, updateSet, rows, form, overtaken>>
  BY DEF BeginSearch
<1>2. results.search \in Nat /\ k \in Searches /\ k \in Numbers
  <2>1. results.search \in Numbers /\ results.search < MaxSearches
    BY <1>1 DEF TypeOK, HasBegun
  <2>2. results.search \in Nat /\ MaxSearches \in Nat
    BY <2>1, NumbersAreNaturals
  <2>3. k \in Searches
    BY <2>1, <2>2 DEF Searches
  <2> QED BY <2>2, <2>3, NumbersAreNaturals
<1>3. c \in Requests /\ c.search = k
  BY <1>2 DEF Call, Requests
<1>4. requests \in Seq(Requests) /\ DOMAIN requests = 1..n /\ n \in Nat
  BY TypedRequests
<1> HIDE DEF n, c
<1>5. /\ requests' \in Seq(Requests) /\ DOMAIN requests' = 1..(n + 1)
      /\ \A i \in 1..n : requests'[i] = requests[i]
      /\ requests'[n + 1] = c
  BY <1>1, <1>3, <1>4 DEF n
<1>6. \A i \in 1..n : requests[i].search \in Nat /\ requests[i].search <= results.search
  <2>1. \A i \in 1..n : requests[i].search \in Searches
    BY <1>4, TypedRequests
  <2> QED BY <1>4, <2>1, NumbersAreNaturals DEF HasBegun
<1>7. \A i, m \in 1..(n + 1) : requests'[i].search = requests'[m].search => i = m
  <2>1. \A i, m \in 1..n : requests[i].search = requests[m].search => i = m
    BY <1>4, TypedRequests DEF CallsAreDistinct
  <2>2. \A i \in 1..n : requests'[i].search # k
    BY <1>2, <1>5, <1>6
  <2>3. \A i \in 1..(n + 1) : i \in 1..n \/ i = n + 1
    BY <1>4
  <2> QED BY <1>3, <1>5, <2>1, <2>2, <2>3
<1>8. \E i \in DOMAIN requests' : requests'[i].search = results'.search
  <2>1. n + 1 \in DOMAIN requests' /\ requests'[n + 1].search = results'.search
    BY <1>1, <1>3, <1>4, <1>5
  <2> QED BY <2>1
<1>9. TypeOK'
  <2>1. requests' \in Seq([kind : {"methods", "jobs"}, search : Searches])
    BY <1>5 DEF Requests
  <2> HIDE DEF k
  <2>2. \A i, m \in DOMAIN requests' : requests'[i].search = requests'[m].search => i = m
    BY <1>5, <1>7
  <2>3. results' \in [search : Numbers, state : {"waiting", "ready", "obsolete"}]
    BY <1>1, <1>2
  <2> QED BY <1>1, <1>8, <2>1, <2>2, <2>3 DEF TypeOK, form
<1>10. HasBegun'
  <2>1. results'.search = results.search + 1 /\ results'.state = "waiting"
    BY <1>1
  <2>2. \A i \in 1..(n + 1) : i \in 1..n \/ i = n + 1
    BY <1>4
  <2>3. \A i \in DOMAIN requests' : requests'[i].search <= results'.search
    BY <1>2, <1>3, <1>5, <1>6, <2>1, <2>2
  <2>4. /\ \A m \in returned : m \in Nat
        /\ methods \in Nat /\ updateSet.search \in Nat
        /\ \A j \in Jobs : rows[j] \in Nat
    BY NumbersAreNaturals DEF TypeOK
  <2> QED BY <1>1, <1>2, <2>1, <2>3, <2>4 DEF HasBegun
<1> QED BY <1>9, <1>10

LEMMA AnswerTypes == SearchTypes /\ AnswerArrives => SearchTypes'
<1> SUFFICES ASSUME SearchTypes, NEW i \in DOMAIN requests,
                    MethodsArrive(i) \/ JobsArrive(i) \/ RemoteFails(i)
             PROVE  SearchTypes'
  BY DEF AnswerArrives
<1> USE DEF SearchTypes
<1> DEFINE k == requests[i].search
<1>1. k \in Searches /\ k \in Numbers /\ k <= results.search
  BY TypedRequests, NumbersAreNaturals DEF HasBegun
<1>2. PICK next \in {<< >>, <<Call("jobs", k)>>} :
          /\ Answered(i, next)
          /\ next = << >> => k \in returned' \cup failed'
  <2>1. <<Call("jobs", k)>> # << >>
    OBVIOUS
  <2> QED BY <2>1 DEF MethodsArrive, JobsArrive, RemoteFails
<1>3. /\ requests' \in Seq(Requests)
      /\ CallsAreDistinct'
      /\ \A m \in DOMAIN requests' : \E p \in DOMAIN requests :
              requests'[m].search = requests[p].search
      /\ \A p \in DOMAIN requests : (p # i \/ next # << >>) =>
              \E m \in DOMAIN requests' : requests'[m].search = requests[p].search
  BY <1>2, AnswerKeepsCalls
<1> HIDE DEF k
<1>4. /\ UNCHANGED <<view, rows, form>>
      /\ overtaken' \in BOOLEAN
      /\ returned' \in {returned, returned \cup {k}}
      /\ failed' \in {failed, failed \cup {k}}
      /\ methods' \in {methods, k}
      /\ \/ updateSet' = updateSet
         \/ updateSet' \in [search : {k}, jobs : SUBSET Jobs]
  <2>1. overtaken' \in BOOLEAN
    BY <1>2 DEF Answered
  <2> QED BY <2>1 DEF MethodsArrive, JobsArrive, RemoteFails, k
<1>5. returned' \subseteq Searches /\ failed' \subseteq Searches
      /\ methods' \in Numbers /\ updateSet' \in [search : Numbers, jobs : SUBSET Jobs]
  BY <1>1, <1>4 DEF TypeOK
<1>6. WaitedForIsKnown'
  <2>0. results' = results /\ returned \subseteq returned' /\ failed \subseteq failed'
    BY <1>4 DEF view
  <2> SUFFICES ASSUME results.state = "waiting"
               PROVE  \/ results.search \in returned' \cup failed'
                      \/ \E m \in DOMAIN requests' : requests'[m].search = results.search
    BY <2>0 DEF WaitedForIsKnown
  <2>1. CASE results.search \in returned \cup failed
    BY <2>0, <2>1
  <2>2. CASE \E p \in DOMAIN requests : requests[p].search = results.search
    <3>1. PICK p \in DOMAIN requests : requests[p].search = results.search
      BY <2>2
    <3>2. CASE p = i /\ next = << >>
      BY <1>2, <3>1, <3>2 DEF k
    <3>3. CASE p # i \/ next # << >>
      BY <1>3, <3>1, <3>3
    <3> QED BY <3>2, <3>3
  <2> QED BY <2>1, <2>2, TypedRequests DEF WaitedForIsKnown
<1>7. TypeOK'
  BY <1>3, <1>4, <1>5, <1>6 DEF TypeOK, view, form, Requests, CallsAreDistinct, WaitedForIsKnown
<1>8. HasBegun'
  <2>1. \A m \in DOMAIN requests' : requests'[m].search <= results.search
    BY <1>3 DEF HasBegun
  <2> QED BY <1>1, <1>4, <2>1 DEF HasBegun, view
<1> QED BY <1>7, <1>8

\* What the page's own steps leave alone.
LEMMA RowsAreMade ==
    ASSUME SearchTypes, MakeRows
    PROVE  /\ rows' \in [Jobs -> Numbers]
           /\ entered' \in [Jobs -> Entries \cup {NoEntry}]
           /\ observed' \in Numbers
           /\ \A j \in Jobs : rows'[j] <= results.search
           /\ UNCHANGED <<data, updates, disabled>>
<1> USE DEF SearchTypes
<1>1. \A j \in Jobs : Row(j) \in {NoSearch, rows[j], updateSet.search}
  BY DEF Row
<1>2. \A j \in Jobs : rows[j] \in Numbers /\ updateSet.search \in Numbers
  BY DEF TypeOK
<1>3. NoSearch <= results.search
  <2>1. results.search \in Nat
    BY NumbersAreNaturals DEF TypeOK
  <2> QED BY <2>1 DEF NoSearch
<1>4. rows' = [j \in Jobs |-> Row(j)]
      /\ entered' = [j \in Jobs |-> IF rows'[j] = rows[j] THEN entered[j] ELSE NoEntry]
      /\ observed' = updateSet.search
      /\ UNCHANGED <<data, updates, disabled>>
  BY DEF MakeRows
<1>5. entered' \in [Jobs -> Entries \cup {NoEntry}]
  BY <1>4 DEF TypeOK
<1>6. \A j \in Jobs : Row(j) \in Numbers /\ Row(j) <= results.search
  BY <1>1, <1>2, <1>3, NumbersAreNaturals DEF HasBegun
<1> QED BY <1>2, <1>4, <1>5, <1>6 DEF TypeOK

\* The document gets the newest results, or stays as it is.
LEMMA SyncTypes ==
    ASSUME TypeOK, NEW r, r.search \in Numbers, Sync(names, r)
    PROVE  shown' \in Numbers /\ (names # "ready" => shown' = NoSearch)
BY DEF Sync, TypeOK

LEMMA NamesTypes == SearchTypes /\ (NamesArrive \/ NamesFail) => SearchTypes'
<1> SUFFICES ASSUME SearchTypes, NamesArrive \/ NamesFail PROVE SearchTypes'
  OBVIOUS
<1> USE DEF SearchTypes
<1>1. /\ names' \in {"ready", "failed"}
      /\ \/ UNCHANGED shown
         \/ names' = "ready" /\ shown' = results.search
      /\ names # "ready"
      /\ UNCHANGED <<results, asked, observed, requests, returned, failed, methods, updateSet,
                     rows, form, overtaken>>
  BY DEF NamesArrive, NamesFail, Sync
<1>2. shown' \in Numbers /\ (names' # "ready" => shown' = NoSearch)
  BY <1>1 DEF TypeOK
<1>3. TypeOK'
  BY <1>1, <1>2 DEF TypeOK, form
<1>4. HasBegun'
  BY <1>1 DEF HasBegun
<1> QED BY <1>3, <1>4

LEMMA PageTypes ==
    ASSUME SearchTypes, \/ Trigger \/ Rerender
                        \/ \E k \in Searches : ReturnResults(k)
    PROVE  SearchTypes'
<1> USE DEF SearchTypes
<1> results \in [search : Numbers, state : {"waiting", "ready", "obsolete"}]
  BY DEF TypeOK
<1>1. CASE Trigger
  <2>1. results' = [results EXCEPT !.state = "obsolete"] /\ results.search < MaxSearches
        /\ asked' = TRUE
        /\ UNCHANGED <<names, shown, observed, requests, returned, failed, methods, updateSet,
                       rows, form, overtaken>>
    BY <1>1 DEF Trigger, Obsolete
  <2>2. /\ results' \in [search : Numbers, state : {"waiting", "ready", "obsolete"}]
        /\ results'.search = results.search /\ results'.state = "obsolete"
    BY <2>1
  <2>3. TypeOK'
    BY <2>1, <2>2 DEF TypeOK, form
  <2>4. HasBegun'
    BY <2>1, <2>2 DEF HasBegun
  <2> QED BY <2>3, <2>4
<1>2. CASE Rerender
  <2>1. UNCHANGED <<names, results, asked, requests, returned, failed, methods, updateSet, overtaken>>
        /\ MakeRows
    BY <1>2 DEF Rerender
  <2>4. shown' \in Numbers /\ (names # "ready" => shown' = NoSearch)
    <3>1. results.search \in Numbers /\ Sync(names, results)
      BY <1>2 DEF Rerender
    <3> QED BY <3>1, SyncTypes
  <2>2. TypeOK'
    BY <2>1, <2>4, RowsAreMade DEF TypeOK
  <2>3. HasBegun'
    BY <2>1, RowsAreMade DEF HasBegun
  <2> QED BY <2>2, <2>3
<1>3. ASSUME NEW k \in Searches, ReturnResults(k) PROVE SearchTypes'
  <2>1. UNCHANGED <<names, asked, requests, failed, methods, updateSet, overtaken>>
        /\ returned' = returned \ {k}
    BY <1>3 DEF ReturnResults
  <2>2. CASE MayMarkReady(k)
    <3>1. results' = [results EXCEPT !.state = "ready"] /\ Sync(names, results') /\ MakeRows
      BY <1>3, <2>2 DEF ReturnResults
    <3>2. /\ results' \in [search : Numbers, state : {"waiting", "ready", "obsolete"}]
          /\ results'.search = results.search /\ results'.state = "ready"
      BY <3>1
    <3>3. shown' \in Numbers /\ (names # "ready" => shown' = NoSearch)
      <4>1. results'.search \in Numbers
        BY <3>2
      <4> QED BY <3>1, <4>1, SyncTypes
    <3>4. TypeOK'
      BY <2>1, <3>1, <3>2, <3>3, RowsAreMade DEF TypeOK
    <3>5. HasBegun'
      BY <2>1, <3>1, <3>2, RowsAreMade DEF HasBegun
    <3> QED BY <3>4, <3>5
  <2>3. CASE ~MayMarkReady(k)
    <3>1. UNCHANGED <<results, shown, rows, observed, form>>
      BY <1>3, <2>3 DEF ReturnResults
    <3>2. results.state = "waiting" => results.search # k
      <4>1. results = [search |-> results.search, state |-> results.state]
        OBVIOUS
      <4> QED BY <2>3, <4>1 DEF MayMarkReady
    <3>3. WaitedForIsKnown'
      BY <2>1, <3>1, <3>2, TypedRequests DEF WaitedForIsKnown
    <3>4. TypeOK'
      BY <2>1, <3>1, <3>3 DEF TypeOK, form, WaitedForIsKnown
    <3>5. HasBegun'
      BY <2>1, <3>1 DEF HasBegun
    <3> QED BY <3>4, <3>5
  <2> QED BY <2>2, <2>3
<1> QED BY <1>1, <1>2, <1>3

LEMMA OperatorTypes ==
    ASSUME SearchTypes,
           \/ \E j \in Jobs : Update(j) \/ \E e \in Entries : Enter(j, e)
           \/ \E u \in updates : UpdateAnswered(u)
    PROVE  SearchTypes'
<1> USE DEF SearchTypes
<1>1. ASSUME NEW j \in Jobs, Update(j) PROVE SearchTypes'
  <2> DEFINE u == [item |-> CapturedItem(j), sent |-> data[CapturedItem(j)], entered |-> entered[j],
                   inList |-> CapturedItem(j) \in ItemInList(j)]
  <2>1. rows[j] \in Searches
    BY <1>1, NumbersAreNaturals DEF Update, InPage, TypeOK
  <2>2. CapturedItem(j) \in Searches \X Jobs
    BY <2>1 DEF CapturedItem
  <2>3. data[CapturedItem(j)] \in Entries \cup {NoEntry} /\ entered[j] \in Entries \cup {NoEntry}
    BY <2>2 DEF TypeOK
  <2>4. u \in [item : Searches \X Jobs, sent : Entries \cup {NoEntry},
               entered : Entries \cup {NoEntry}, inList : BOOLEAN]
    BY <2>2, <2>3
  <2>5. updates' = updates \cup {u}
        /\ UNCHANGED <<view, requests, returned, failed, methods, updateSet, rows, data,
                       entered, disabled, overtaken>>
    BY <1>1 DEF Update
  <2> HIDE DEF u
  <2>6. TypeOK'
    BY <2>4, <2>5 DEF TypeOK, view
  <2> QED BY <2>5, <2>6 DEF HasBegun, view
<1>2. ASSUME NEW j \in Jobs, NEW e \in Entries, Enter(j, e) PROVE SearchTypes'
  <2>1. /\ entered' = [entered EXCEPT ![j] = e]
        /\ data' = [i \in DOMAIN data |-> IF i \in ItemInList(j) THEN e ELSE data[i]]
        /\ UNCHANGED <<view, requests, returned, failed, methods, updateSet, rows, updates,
                       disabled, overtaken>>
    BY <1>2 DEF Enter
  <2>2. entered' \in [Jobs -> Entries \cup {NoEntry}]
        /\ data' \in [Searches \X Jobs -> Entries \cup {NoEntry}]
    BY <2>1 DEF TypeOK
  <2>3. TypeOK'
    BY <2>1, <2>2 DEF TypeOK, view
  <2> QED BY <2>1, <2>3 DEF HasBegun, view
<1>3. ASSUME NEW u \in updates, UpdateAnswered(u) PROVE SearchTypes'
  <2>1. updates' = updates \ {u} /\ disabled' \in {disabled, disabled \cup {u.item}}
        /\ UNCHANGED <<view, requests, returned, failed, methods, updateSet, rows, data,
                       entered, overtaken>>
    BY <1>3 DEF UpdateAnswered
  <2>2. u.item \in Searches \X Jobs
    BY DEF TypeOK
  <2>3. TypeOK'
    BY <2>1, <2>2 DEF TypeOK, view
  <2> QED BY <2>1, <2>3 DEF HasBegun, view
<1> QED BY <1>1, <1>2, <1>3

LEMMA SearchTypesAreKept == Spec => []SearchTypes
<1>1. Init => SearchTypes
  <2> SUFFICES ASSUME Init PROVE SearchTypes
    OBVIOUS
  <2>1. requests = << >> /\ DOMAIN requests = {}
    BY DEF Init
  <2>2. requests \in Seq([kind : {"methods", "jobs"}, search : Searches])
    BY <2>1
  <2>3. /\ results \in [search : Numbers, state : {"waiting", "ready", "obsolete"}]
        /\ results.state = "ready"
        /\ names = "waiting" /\ shown = NoSearch
        /\ shown \in Numbers /\ methods \in Numbers /\ observed \in Numbers
        /\ updateSet \in [search : Numbers, jobs : SUBSET Jobs]
        /\ rows \in [Jobs -> Numbers]
    BY NumbersAreNaturals DEF Init
  <2>4. /\ asked \in BOOLEAN /\ overtaken \in BOOLEAN
        /\ returned = {} /\ failed = {} /\ updates = {} /\ disabled = {}
        /\ data \in [Searches \X Jobs -> Entries \cup {NoEntry}]
        /\ entered \in [Jobs -> Entries \cup {NoEntry}]
    BY DEF Init
  <2>5. TypeOK
    BY <2>1, <2>2, <2>3, <2>4 DEF TypeOK
  <2>6. HasBegun
    BY <2>1 DEF Init, HasBegun, NoSearch
  <2> QED BY <2>5, <2>6 DEF SearchTypes
<1>2. SearchTypes /\ [Next]_vars => SearchTypes'
  <2> SUFFICES ASSUME SearchTypes, [Next]_vars PROVE SearchTypes'
    OBVIOUS
  <2>1. CASE UNCHANGED vars
    BY <2>1 DEF vars, view, form, SearchTypes, TypeOK, HasBegun
  <2> QED BY <2>1, NamesTypes, BeginSearchTypes, AnswerTypes, PageTypes, OperatorTypes DEF Next
<1> QED BY <1>1, <1>2, PTL DEF Spec

\* Types, for any number of searches, jobs and entries; no search has two calls
\* under way, and results wait for a search that is under way or has failed.
THEOREM TypeCorrect == Spec => []TypeOK
<1>1. SearchTypes => TypeOK
  BY DEF SearchTypes
<1> QED BY <1>1, SearchTypesAreKept, PTL

----------------------------------------------------------------------------
(* Each search sets the list once. *)

\* The search has not set the list, and may still do it.
Awaited(k) == k > results.search \/ \E i \in DOMAIN requests : requests[i].search = k

LEMMA StillAwaited ==
    ASSUME SearchTypes, [Next]_vars, NEW k \in Searches, Awaited(k)'
    PROVE  Awaited(k)
<1> USE DEF SearchTypes
<1> results.search \in Nat /\ k \in Nat
  BY NumbersAreNaturals DEF TypeOK
<1>1. CASE UNCHANGED <<results, requests>>
  BY <1>1 DEF Awaited
<1>2. CASE BeginSearch
  <2> DEFINE n == Len(requests)
  <2>1. /\ results'.search = results.search + 1
        /\ requests' = Append(requests, Call("methods", results.search + 1))
    BY <1>2 DEF BeginSearch
  <2>2. Call("methods", results.search + 1).search = results.search + 1
    BY DEF Call
  <2>3. requests \in Seq(Requests)
    BY TypedRequests
  <2>4. /\ DOMAIN requests = 1..n /\ n \in Nat /\ DOMAIN requests' = 1..(n + 1)
        /\ \A i \in 1..n : requests'[i] = requests[i]
        /\ requests'[n + 1] = Call("methods", results.search + 1)
    BY <2>1, <2>3
  <2>5. \A i \in DOMAIN requests' : \/ i \in DOMAIN requests /\ requests'[i] = requests[i]
                                   \/ requests'[i].search = results.search + 1
    BY <2>2, <2>4
  <2>6. k > results.search + 1 \/ k = results.search + 1 => k > results.search
    OBVIOUS
  <2> QED BY <2>1, <2>5, <2>6 DEF Awaited
<1>3. CASE AnswerArrives
  <2>1. PICK i \in DOMAIN requests : MethodsArrive(i) \/ JobsArrive(i) \/ RemoteFails(i)
    BY <1>3 DEF AnswerArrives
  <2>2. PICK next \in {<< >>, <<Call("jobs", requests[i].search)>>} : Answered(i, next)
    BY <2>1 DEF MethodsArrive, JobsArrive, RemoteFails
  <2>3. \A m \in DOMAIN requests' : \E p \in DOMAIN requests :
            requests'[m].search = requests[p].search
    BY <2>2, AnswerKeepsCalls
  <2>4. results' = results
    BY <2>1 DEF MethodsArrive, JobsArrive, RemoteFails, view
  <2> QED BY <2>3, <2>4 DEF Awaited
<1>4. CASE Trigger \/ Rerender \/ \E m \in Searches : ReturnResults(m)
  <2>1. requests' = requests /\ results'.search = results.search
    BY <1>4 DEF Trigger, Obsolete, Rerender, ReturnResults, TypeOK
  <2> QED BY <2>1 DEF Awaited
<1>5. ASSUME \/ UNCHANGED vars
             \/ NamesArrive \/ NamesFail
             \/ \E j \in Jobs : Update(j) \/ \E e \in Entries : Enter(j, e)
             \/ \E u \in updates : UpdateAnswered(u)
      PROVE  UNCHANGED <<results, requests>>
  BY <1>5 DEF vars, view, NamesArrive, NamesFail, Update, Enter, UpdateAnswered
<1> QED BY <1>1, <1>2, <1>3, <1>4, <1>5 DEF Next

\* The list is set for a search that was awaited, and is so no more.
LEMMA ListArrives ==
    ASSUME SearchTypes, NEW i \in DOMAIN requests, JobsArrive(i),
           NEW k, k = requests[i].search
    PROVE  /\ k \in Searches /\ Awaited(k) /\ ~Awaited(k)'
           /\ updateSet'.search = k
           /\ UNCHANGED <<rows, data, entered, updates>>
<1> USE DEF SearchTypes
<1>1. /\ Answered(i, << >>) /\ updateSet'.search = k /\ results' = results
      /\ UNCHANGED <<rows, data, entered, updates>>
  BY DEF JobsArrive, view, form
<1>2. /\ \A m \in DOMAIN requests' : \E p \in DOMAIN requests :
              requests'[m].search = requests[p].search /\ p # i
  BY <1>1, AnswerKeepsCalls
<1>3. \A p \in DOMAIN requests : p # i => requests[p].search # k
  BY TypedRequests DEF CallsAreDistinct
<1>4. k \in Searches /\ k <= results.search
  BY TypedRequests DEF HasBegun
<1>5. ~(k > results'.search)
  <2>1. k \in Nat /\ results.search \in Nat
    BY <1>4, NumbersAreNaturals DEF TypeOK
  <2> QED BY <1>1, <1>4, <2>1
<1>6. ~Awaited(k)'
  BY <1>2, <1>3, <1>5 DEF Awaited
<1>7. Awaited(k)
  BY DEF Awaited
<1> QED BY <1>1, <1>4, <1>6, <1>7

\* Neither the list nor the rows are of a search that has still to set the list.
Settled ==
    \A k \in Searches : Awaited(k) => k # observed /\ k # updateSet.search

LEMMA SettledIsKept == Spec => []Settled
<1>1. Init => Settled
  <2> SUFFICES ASSUME Init PROVE Settled
    OBVIOUS
  <2>1. observed = NoSearch /\ updateSet.search = NoSearch
    BY DEF Init
  <2> QED BY <2>1, NumbersAreNaturals DEF Settled, NoSearch
<1>2. SearchTypes /\ Settled /\ [Next]_vars => Settled'
  <2> SUFFICES ASSUME SearchTypes, Settled, [Next]_vars PROVE Settled'
    OBVIOUS
  <2>1. \A k \in Searches : Awaited(k)' => Awaited(k)
    BY StillAwaited
  <2>2. ASSUME NEW i \in DOMAIN requests, JobsArrive(i) PROVE Settled'
    <3> PICK k : k = requests[i].search
      OBVIOUS
    <3>1. ~Awaited(k)' /\ updateSet'.search = k
      BY <2>2, ListArrives
    <3>2. observed' = observed
      BY <2>2 DEF JobsArrive, view
    <3> QED BY <2>1, <3>1, <3>2 DEF Settled
  <2>3. CASE updateSet' = updateSet /\ observed' \in {observed, updateSet.search}
    BY <2>1, <2>3 DEF Settled
  <2>4. ASSUME NEW i \in DOMAIN requests, MethodsArrive(i) \/ RemoteFails(i) PROVE Settled'
    BY <2>3, <2>4 DEF MethodsArrive, RemoteFails, view
  <2>5. ASSUME Rerender \/ \E k \in Searches : ReturnResults(k) PROVE Settled'
    BY <2>3, <2>5 DEF Rerender, ReturnResults, MakeRows
  <2>6. ASSUME \/ Trigger \/ BeginSearch \/ UNCHANGED vars \/ NamesArrive \/ NamesFail
               \/ \E j \in Jobs : Update(j) \/ \E e \in Entries : Enter(j, e)
               \/ \E u \in updates : UpdateAnswered(u)
        PROVE  Settled'
    BY <2>3, <2>6 DEF Trigger, BeginSearch, NamesArrive, NamesFail, Update, Enter,
                      UpdateAnswered, vars, view
  <2> QED BY <2>2, <2>4, <2>5, <2>6 DEF Next, AnswerArrives
<1> QED BY <1>1, <1>2, SearchTypesAreKept, PTL DEF Spec

----------------------------------------------------------------------------
(* The order of the searches.  As long as no answer overtakes another, the   *)
(* list and the methods are set in the order the searches began: the calls   *)
(* for methods are answered in that order, so those for jobs are sent in it. *)

Earlier(i, k) ==
    \/ requests[i].kind = requests[k].kind /\ i < k
    \/ requests[i].kind = "jobs" /\ requests[k].kind = "methods"

CallsInOrder ==
    /\ \A i, k \in DOMAIN requests :
           Earlier(i, k) => requests[i].search < requests[k].search
    /\ \A i \in DOMAIN requests :
           /\ updateSet.search < requests[i].search
           /\ requests[i].kind = "methods" => methods < requests[i].search
           /\ requests[i].kind = "jobs" => requests[i].search <= methods

\* What has come back is no newer than the list, nor the list than the methods.
ListIsNewest ==
    /\ updateSet.search <= methods
    /\ \A k \in returned : k <= updateSet.search
    /\ results.state = "ready" => results.search = updateSet.search
    /\ observed <= updateSet.search

RowsFollow ==
    observed = updateSet.search =>
        \A j \in Jobs : rows[j] # NoSearch <=> j \in updateSet.jobs

\* Once all views are ready the document has the newest results.
Synced ==
    names = "ready" /\ results.state = "ready" /\ ~RowsAreStale => shown = results.search

PageInvariant ==
    /\ Synced
    /\ updateSet.search = NoSearch => updateSet.jobs = {}
    /\ ~overtaken => CallsInOrder /\ ListIsNewest /\ RowsFollow

LEMMA BeginSearchKeepsPage ==
    SearchTypes /\ PageInvariant /\ BeginSearch => PageInvariant'
<1> SUFFICES ASSUME SearchTypes, PageInvariant, BeginSearch PROVE PageInvariant'
  OBVIOUS
<1> DEFINE k == results.search + 1
           n == Len(requests)
<1>1. /\ results' = [search |-> k, state |-> "waiting"]
      /\ UNCHANGED <<shown, observed, returned, methods, updateSet, rows, overtaken>>
  BY DEF BeginSearch
<1>2. /\ requests' \in Seq(Requests)
      /\ DOMAIN requests = 1..n /\ DOMAIN requests' = 1..(n + 1) /\ n \in Nat
      /\ \A i \in 1..n : requests'[i] = requests[i]
      /\ requests'[n + 1].kind = "methods" /\ requests'[n + 1].search = k
  <2> DEFINE c == Call("methods", k)
  <2>1. requests \in Seq(Requests) /\ requests' = Append(requests, c)
    BY TypedRequests DEF BeginSearch, SearchTypes
  <2>2. c.kind = "methods" /\ c.search = k
    BY DEF Call
  <2>3. TypeOK'
    BY BeginSearchTypes DEF SearchTypes
  <2>4. requests' \in Seq(Requests)
    BY <2>3 DEF TypeOK, Requests
  <2> HIDE DEF c
  <2>5. /\ DOMAIN requests = 1..n /\ DOMAIN requests' = 1..(n + 1) /\ n \in Nat
        /\ \A i \in 1..n : requests'[i] = requests[i]
        /\ requests'[n + 1] = c
    BY <2>1
  <2> QED BY <2>2, <2>4, <2>5
<1>3. /\ \A i \in 1..n : requests[i].search \in Nat /\ requests[i].search < k
      /\ k \in Nat /\ methods < k /\ updateSet.search < k
  <2>1. \A i \in 1..n : requests[i].search \in Searches /\ requests[i].search <= results.search
    BY <1>2, TypedRequests DEF SearchTypes, HasBegun
  <2>2. /\ results.search \in Nat /\ methods \in Nat /\ updateSet.search \in Nat
        /\ methods <= results.search /\ updateSet.search <= results.search
    BY NumbersAreNaturals DEF SearchTypes, TypeOK, HasBegun
  <2>3. \A i \in 1..n : requests[i].search \in Nat
    BY <2>1, NumbersAreNaturals
  <2> QED BY <2>1, <2>2, <2>3
<1> HIDE DEF n, k
<1>4. ASSUME ~overtaken PROVE CallsInOrder'
  <2>1. CallsInOrder
    BY <1>4 DEF PageInvariant
  <2>2. \A i \in 1..(n + 1) : i \in 1..n \/ i = n + 1
    BY <1>2
  <2>3. ASSUME NEW i \in 1..(n + 1), NEW m \in 1..(n + 1), Earlier(i, m)'
        PROVE  requests'[i].search < requests'[m].search
    <3>1. CASE i \in 1..n /\ m \in 1..n
      BY <1>2, <2>1, <2>3, <3>1 DEF CallsInOrder, Earlier
    <3>2. CASE i \in 1..n /\ m = n + 1
      BY <1>2, <1>3, <3>2
    <3>3. i # n + 1
      BY <1>2, <2>3 DEF Earlier
    <3> QED BY <2>2, <3>1, <3>2, <3>3
  <2>4. ASSUME NEW i \in 1..(n + 1)
        PROVE  /\ updateSet.search < requests'[i].search
               /\ requests'[i].kind = "methods" => methods < requests'[i].search
               /\ requests'[i].kind = "jobs" => requests'[i].search <= methods
    BY <1>2, <1>3, <2>1, <2>2 DEF CallsInOrder
  <2> QED BY <1>1, <1>2, <2>3, <2>4 DEF CallsInOrder
<1>5. ListIsNewest => ListIsNewest'
  BY <1>1 DEF ListIsNewest
<1>6. Synced'
  BY <1>1 DEF Synced
<1> QED BY <1>1, <1>4, <1>5, <1>6 DEF PageInvariant, RowsFollow

\* The first call is answered: the others move up, and the search's next one,
\* if there is one, stands behind them.
LEMMA FirstAnswered ==
    ASSUME TypeOK, NEW i \in DOMAIN requests, NEW next, Answered(i, next), ~overtaken',
           next \in {<< >>, <<Call("jobs", requests[i].search)>>}
    PROVE  \E n \in Nat \ {0}, l \in Nat :
               /\ l \in {n - 1, n}
               /\ i = 1 /\ ~overtaken
               /\ DOMAIN requests = 1..n /\ DOMAIN requests' = 1..l
               /\ \A k \in 1..n - 1 : requests'[k] = requests[k + 1]
               /\ next = << >> => l = n - 1
               /\ l = n => /\ requests'[n].kind = "jobs"
                          /\ requests'[n].search = requests[1].search
<1> DEFINE n == Len(requests)
           c == Call("jobs", requests[1].search)
<1>1. i = 1 /\ ~overtaken
  BY DEF Answered, TypeOK
<1>2. c.kind = "jobs" /\ c.search = requests[1].search
  BY DEF Call
<1>3. requests \in Seq(Requests)
  BY TypedRequests
<1>4. /\ DOMAIN requests = 1..n /\ DOMAIN requests' = 1..Len(requests')
      /\ n \in Nat /\ 1 \in 1..n
      /\ Len(requests') = IF next = << >> THEN n - 1 ELSE n
      /\ \A k \in 1..n - 1 : requests'[k] = requests[Before(1, k)]
      /\ next # << >> => requests'[n] = c
  BY <1>1, <1>3, AnsweredCalls
<1> HIDE DEF n, c
<1>5. \A k \in 1..n - 1 : Before(1, k) = k + 1
  BY <1>4 DEF Before
<1>6. /\ n \in Nat \ {0}
      /\ \A k \in 1..n - 1 : requests'[k] = requests[k + 1]
  BY <1>4, <1>5
<1>7. CASE next = << >>
  <2>1. DOMAIN requests' = 1..(n - 1) /\ n - 1 # n /\ n - 1 \in Nat
    BY <1>4, <1>7
  <2> QED BY <1>1, <1>4, <1>6, <2>1
<1>8. CASE next # << >>
  <2>1. DOMAIN requests' = 1..n /\ requests'[n] = c
    BY <1>4, <1>8
  <2> QED BY <1>1, <1>2, <1>4, <1>6, <1>8, <2>1
<1> QED BY <1>7, <1>8

LEMMA AnswerKeepsPage ==
    SearchTypes /\ Settled /\ PageInvariant /\ AnswerArrives => PageInvariant'
<1> SUFFICES ASSUME SearchTypes, Settled, PageInvariant, NEW i \in DOMAIN requests,
                    MethodsArrive(i) \/ JobsArrive(i) \/ RemoteFails(i)
             PROVE  PageInvariant'
  BY DEF AnswerArrives
<1>1. PICK next \in {<< >>, <<Call("jobs", requests[i].search)>>} :
          /\ Answered(i, next)
          /\ ~MethodsArrive(i) => next = << >>
  BY DEF MethodsArrive, JobsArrive, RemoteFails
<1>2. UNCHANGED <<view, rows, form>>
  BY DEF MethodsArrive, JobsArrive, RemoteFails
<1>3. /\ requests[i].search \in Searches /\ requests[i].search <= results.search
  BY TypedRequests DEF SearchTypes, HasBegun
<1>4. updateSet'.search = NoSearch => updateSet'.jobs = {}
  <2>1. updateSet' = updateSet \/ updateSet'.search = requests[i].search
    BY DEF MethodsArrive, JobsArrive, RemoteFails
  <2>2. requests[i].search # NoSearch
    BY <1>3, NumbersAreNaturals DEF NoSearch
  <2> QED BY <2>1, <2>2 DEF PageInvariant
<1>5. ASSUME ~overtaken' PROVE CallsInOrder' /\ ListIsNewest' /\ RowsFollow'
  <2> DEFINE k == requests[1].search
  <2>1. PICK n \in Nat \ {0}, l \in Nat :
               /\ l \in {n - 1, n}
               /\ i = 1 /\ ~overtaken
               /\ DOMAIN requests = 1..n /\ DOMAIN requests' = 1..l
               /\ \A m \in 1..n - 1 : requests'[m] = requests[m + 1]
               /\ next = << >> => l = n - 1
               /\ l = n => requests'[n].kind = "jobs" /\ requests'[n].search = k
    BY <1>1, <1>5, FirstAnswered DEF SearchTypes
  <2>2. CallsInOrder /\ ListIsNewest /\ RowsFollow
    BY <2>1 DEF PageInvariant
  <2>3. /\ methods \in Nat /\ updateSet.search \in Nat /\ observed \in Nat
        /\ results.search \in Nat
        /\ \A m \in returned : m \in Nat
    BY NumbersAreNaturals DEF SearchTypes, TypeOK
  <2>4. \A m \in 1..n : requests[m].search \in Nat
    BY <2>1, TypedRequests, NumbersAreNaturals DEF SearchTypes
  <2>5. 1 \in 1..n /\ k \in Nat /\ k <= results.search
    BY <1>3, <2>1, <2>4
  <2>6. \A m \in 1..l : \/ m \in 1..n - 1 /\ m + 1 \in 1..n /\ requests'[m] = requests[m + 1]
                        \/ m = n /\ l = n
    BY <2>1
  <2>7. \A m, p \in 1..n : Earlier(m, p) => requests[m].search < requests[p].search
    BY <2>1, <2>2 DEF CallsInOrder
  <2>8. \A m \in 1..n : /\ updateSet.search < requests[m].search
                        /\ requests[m].kind = "methods" => methods < requests[m].search
                        /\ requests[m].kind = "jobs" => requests[m].search <= methods
    BY <2>1, <2>2 DEF CallsInOrder
  <2>9. \A m \in 1..n : requests[m].kind \in {"methods", "jobs"}
    BY <2>1, TypedRequests DEF SearchTypes, Requests
  <2> HIDE DEF k
  <2>10. CASE MethodsArrive(1)
    <3>1. requests[1].kind = "methods" /\ methods' = k /\ UNCHANGED <<returned, updateSet>>
      BY <2>10 DEF MethodsArrive, k
    <3>2. \A m \in 2..n : /\ requests[m].kind = "methods" => k < requests[m].search
                          /\ requests[m].kind = "jobs" => requests[m].search < k
      BY <2>1, <2>5, <2>7, <3>1 DEF Earlier, k
    <3>3. ASSUME NEW m \in 1..l, NEW p \in 1..l, Earlier(m, p)'
          PROVE  requests'[m].search < requests'[p].search
      <4>1. CASE m \in 1..n - 1 /\ p \in 1..n - 1
        <5>1. requests'[m] = requests[m + 1] /\ requests'[p] = requests[p + 1]
              /\ m + 1 \in 1..n /\ p + 1 \in 1..n
          BY <2>1, <4>1
        <5>2. Earlier(m + 1, p + 1)
          BY <2>1, <3>3, <5>1 DEF Earlier
        <5> QED BY <2>7, <5>1, <5>2
      <4>2. CASE m = n /\ l = n
        <5>1. requests'[m].kind = "jobs" /\ requests'[m].search = k /\ p <= m
          BY <2>1, <4>2
        <5>2. requests'[p].kind = "methods" /\ p # n
          BY <2>1, <3>3, <4>2, <5>1 DEF Earlier
        <5>3. p + 1 \in 2..n /\ requests'[p] = requests[p + 1]
          BY <2>1, <2>6, <5>2
        <5> QED BY <3>2, <5>1, <5>2, <5>3
      <4>3. CASE p = n /\ l = n /\ m \in 1..n - 1
        <5>1. requests'[p].kind = "jobs" /\ requests'[p].search = k
          BY <2>1, <4>3
        <5>2. m + 1 \in 2..n /\ requests'[m] = requests[m + 1]
          BY <2>1, <4>3
        <5>3. requests'[m].kind = "jobs"
          BY <3>3, <5>1 DEF Earlier
        <5> QED BY <3>2, <5>1, <5>2, <5>3
      <4> QED BY <2>6, <4>1, <4>2, <4>3
    <3>4. ASSUME NEW m \in 1..l
          PROVE  /\ updateSet.search < requests'[m].search
                 /\ requests'[m].kind = "methods" => k < requests'[m].search
                 /\ requests'[m].kind = "jobs" => requests'[m].search <= k
      <4>1. CASE m \in 1..n - 1
        <5>1. m + 1 \in 2..n /\ m + 1 \in 1..n /\ requests'[m] = requests[m + 1]
          BY <2>1, <4>1
        <5> QED BY <2>4, <2>5, <2>8, <3>2, <5>1
      <4>2. CASE m = n /\ l = n
        <5>1. requests'[m].kind = "jobs" /\ requests'[m].search = k
          BY <2>1, <4>2
        <5>2. updateSet.search < k
          BY <2>5, <2>8 DEF k
        <5> QED BY <2>5, <5>1, <5>2
      <4> QED BY <2>6, <4>1, <4>2
    <3>5. CallsInOrder'
      BY <2>1, <3>1, <3>3, <3>4 DEF CallsInOrder
    <3>6. ListIsNewest' /\ RowsFollow'
      <4>1. methods < k
        BY <2>5, <2>8, <3>1 DEF k
      <4> QED BY <1>2, <2>2, <2>3, <2>5, <3>1, <4>1 DEF ListIsNewest, RowsFollow, view
    <3> QED BY <3>5, <3>6
  <2>11. CASE ~MethodsArrive(1)
    <3>1. l = n - 1
      BY <1>1, <2>1, <2>11
    <3>2. /\ methods' = methods
          /\ \/ UNCHANGED <<returned, updateSet>>
             \/ /\ requests[1].kind = "jobs"
                /\ updateSet'.search = k
                /\ returned' = returned \cup {k}
      BY <2>1, <2>11 DEF JobsArrive, RemoteFails, k
    <3>3. \A m \in 1..l : m \in 1..n - 1 /\ m + 1 \in 2..n /\ m + 1 \in 1..n
                          /\ requests'[m] = requests[m + 1]
      BY <2>1, <3>1
    <3>4. requests[1].kind = "jobs" => /\ \A m \in 2..n : k < requests[m].search
                                       /\ k <= methods /\ updateSet.search < k
      BY <2>1, <2>5, <2>7, <2>8, <2>9 DEF Earlier, k
    <3>5. \A m, p \in 1..l : Earlier(m, p)' => requests'[m].search < requests'[p].search
      <4> SUFFICES ASSUME NEW m \in 1..l, NEW p \in 1..l, Earlier(m, p)'
                   PROVE  requests'[m].search < requests'[p].search
        OBVIOUS
      <4>1. Earlier(m + 1, p + 1)
        BY <2>1, <3>1, <3>3 DEF Earlier
      <4>2. /\ m + 1 \in 1..n /\ requests'[m] = requests[m + 1]
            /\ p + 1 \in 1..n /\ requests'[p] = requests[p + 1]
        BY <3>3
      <4>3. requests[m + 1].search < requests[p + 1].search
        BY <2>7, <4>1, <4>2
      <4> QED BY <4>2, <4>3
    <3>6. ASSUME NEW m \in 1..l
          PROVE  /\ updateSet'.search < requests'[m].search
                 /\ requests'[m].kind = "methods" => methods < requests'[m].search
                 /\ requests'[m].kind = "jobs" => requests'[m].search <= methods
      <4> DEFINE p == m + 1
      <4>1. p \in 2..n /\ p \in 1..n /\ requests'[m] = requests[p]
        BY <3>3
      <4> HIDE DEF p
      <4>2. updateSet'.search < requests[p].search
        BY <2>8, <3>2, <3>4, <4>1
      <4> QED BY <2>8, <4>1, <4>2
    <3>7. CallsInOrder'
      <4>1. methods' = methods /\ DOMAIN requests' = 1..l
        BY <2>1, <3>2
      <4> QED BY <3>5, <3>6, <4>1 DEF CallsInOrder, Earlier
    <3>8. ListIsNewest'
      <4>1. CASE UNCHANGED <<returned, updateSet>>
        BY <1>2, <2>2, <3>2, <4>1 DEF ListIsNewest, view
      <4>2. CASE updateSet'.search = k /\ returned' = returned \cup {k}
                 /\ k <= methods /\ updateSet.search < k
        <5>1. results.state # "ready"
          BY <2>2, <2>3, <2>5, <4>2 DEF ListIsNewest
        <5>2. observed <= k /\ \A m \in returned : m <= k
          BY <2>2, <2>3, <2>5, <4>2 DEF ListIsNewest
        <5> QED BY <1>2, <2>5, <3>2, <4>2, <5>1, <5>2 DEF ListIsNewest, view
      <4> QED BY <3>2, <3>4, <4>1, <4>2
    <3>9. RowsFollow'
      <4>1. CASE updateSet' = updateSet
        BY <1>2, <2>2, <4>1 DEF RowsFollow, view
      <4>2. CASE updateSet'.search = k /\ updateSet.search < k
        BY <1>2, <2>2, <2>3, <2>5, <4>2 DEF RowsFollow, ListIsNewest, view
      <4> QED BY <3>2, <3>4, <4>1, <4>2
    <3> QED BY <3>7, <3>8, <3>9
  <2> QED BY <2>10, <2>11
<1>6. Synced'
  <2>1. CASE JobsArrive(i)
    <3>1. updateSet'.search = requests[i].search
      BY <2>1 DEF JobsArrive
    <3>2. requests[i].search # observed
      BY <1>3 DEF Settled, Awaited
    <3>3. results.search # NoSearch
      <4>1. requests[i].search \in Nat \ {0} /\ results.search \in Nat
        BY <1>3, NumbersAreNaturals DEF SearchTypes, TypeOK
      <4> QED BY <1>3, <4>1 DEF NoSearch
    <3> QED BY <1>2, <3>1, <3>2, <3>3 DEF Synced, RowsAreStale, view
  <2>2. CASE ~JobsArrive(i)
    <3>1. updateSet' = updateSet
      BY <2>2 DEF MethodsArrive, RemoteFails
    <3> QED BY <1>2, <3>1 DEF PageInvariant, Synced, RowsAreStale, view
  <2> QED BY <2>1, <2>2
<1> QED BY <1>2, <1>4, <1>5, <1>6 DEF PageInvariant, view

\* New rows follow the list they were made from.
LEMMA MadeRowsFollow ==
    ASSUME SearchTypes, PageInvariant, MakeRows, updateSet' = updateSet
    PROVE  RowsFollow' /\ observed' = updateSet.search
<1>1. rows' = [j \in Jobs |-> Row(j)] /\ observed' = updateSet.search
  BY DEF MakeRows
<1>2. updateSet.search = NoSearch => updateSet.jobs = {}
  BY DEF PageInvariant
<1>3. \A j \in Jobs : Row(j) # NoSearch <=> j \in updateSet.jobs
  BY <1>2 DEF Row
<1> QED BY <1>1, <1>3 DEF RowsFollow

LEMMA ViewKeepsPage ==
    ASSUME SearchTypes, PageInvariant,
           \/ NamesArrive \/ NamesFail
           \/ Trigger \/ Rerender \/ \E k \in Searches : ReturnResults(k)
    PROVE  PageInvariant'
<1> results \in [search : Numbers, state : {"waiting", "ready", "obsolete"}]
    /\ updateSet.search \in Nat /\ results.search \in Nat
    /\ updateSet.search <= results.search
  BY NumbersAreNaturals DEF SearchTypes, TypeOK, HasBegun
<1>1. UNCHANGED <<requests, methods, updateSet, overtaken>>
  BY DEF NamesArrive, NamesFail, Trigger, Rerender, ReturnResults
<1>2. CallsInOrder => CallsInOrder'
  BY <1>1 DEF CallsInOrder, Earlier
<1>3. CASE Trigger
  <2>1. results'.state = "obsolete" /\ UNCHANGED <<observed, returned, rows>>
    BY <1>3 DEF Trigger, Obsolete
  <2> QED BY <1>1, <1>2, <2>1 DEF PageInvariant, Synced, ListIsNewest, RowsFollow
<1>6. CASE NamesArrive \/ NamesFail
  <2>1. UNCHANGED <<results, observed, returned, rows>>
    BY <1>6 DEF NamesArrive, NamesFail
  <2>2. Synced'
    <3>1. names' = "ready" /\ results.state = "ready" /\ ~RowsAreStale => shown' = results.search
      BY <1>6 DEF NamesArrive, NamesFail, Sync
    <3> QED BY <1>1, <2>1, <3>1 DEF Synced, RowsAreStale
  <2> QED BY <1>1, <1>2, <2>1, <2>2 DEF PageInvariant, ListIsNewest, RowsFollow
<1>4. CASE Rerender
  <2>1. UNCHANGED <<results, returned>> /\ RowsFollow' /\ observed' = updateSet.search
    BY <1>1, <1>4, MadeRowsFollow DEF Rerender
  <2>2. ListIsNewest => ListIsNewest'
    BY <1>1, <2>1 DEF ListIsNewest
  <2>3. Synced'
    BY <1>4 DEF Rerender, Sync, Synced
  <2> QED BY <1>1, <1>2, <2>1, <2>2, <2>3 DEF PageInvariant
<1>5. ASSUME NEW k \in Searches, ReturnResults(k) PROVE PageInvariant'
  <2>1. k \in returned /\ returned' = returned \ {k}
    BY <1>5 DEF ReturnResults
  <2>2. CASE MayMarkReady(k)
    <3>1. results' = [results EXCEPT !.state = "ready"] /\ Sync(names, results') /\ MakeRows
          /\ results.search = k /\ names' = names
      BY <1>5, <2>2 DEF ReturnResults, MayMarkReady
    <3>2. results'.search = k
      BY <3>1
    <3>3. RowsFollow' /\ observed' = updateSet.search
      BY <1>1, <3>1, MadeRowsFollow
    <3>4. ListIsNewest => ListIsNewest'
      <4> SUFFICES ASSUME ListIsNewest PROVE ListIsNewest'
        OBVIOUS
      <4>1. k <= updateSet.search
        BY <2>1 DEF ListIsNewest
      <4>2. k = updateSet.search
        BY <3>1, <4>1
      <4> QED BY <1>1, <2>1, <3>2, <3>3, <4>2 DEF ListIsNewest
    <3>5. Synced'
      BY <3>1 DEF Sync, Synced
    <3> QED BY <1>1, <1>2, <3>1, <3>2, <3>3, <3>4, <3>5 DEF PageInvariant
  <2>3. CASE ~MayMarkReady(k)
    <3>1. UNCHANGED <<names, results, shown, rows, observed, form>>
      BY <1>5, <2>3 DEF ReturnResults
    <3>2. Synced'
      BY <1>1, <3>1 DEF PageInvariant, Synced, RowsAreStale
    <3> QED BY <1>1, <1>2, <2>1, <3>1, <3>2 DEF PageInvariant, ListIsNewest, RowsFollow
  <2> QED BY <2>2, <2>3
<1> QED BY <1>3, <1>4, <1>5, <1>6

LEMMA OthersKeepPage ==
    ASSUME PageInvariant,
           UNCHANGED <<view, requests, returned, methods, updateSet, rows, overtaken>>
    PROVE  PageInvariant'
BY DEF PageInvariant, Synced, RowsAreStale, CallsInOrder, Earlier, ListIsNewest, RowsFollow, view

LEMMA PageIsKept == Spec => []PageInvariant
<1>1. Init => PageInvariant
  <2> SUFFICES ASSUME Init PROVE PageInvariant
    OBVIOUS
  <2>1. DOMAIN requests = {} /\ returned = {}
    BY DEF Init
  <2> QED BY <2>1 DEF Init, PageInvariant, Synced, CallsInOrder, ListIsNewest, RowsFollow, NoSearch
<1>2. SearchTypes /\ Settled /\ PageInvariant /\ [Next]_vars => PageInvariant'
  <2> SUFFICES ASSUME SearchTypes, Settled, PageInvariant, [Next]_vars PROVE PageInvariant'
    OBVIOUS
  <2>1. ASSUME \/ UNCHANGED vars
               \/ \E j \in Jobs : Update(j) \/ \E e \in Entries : Enter(j, e)
               \/ \E u \in updates : UpdateAnswered(u)
        PROVE  PageInvariant'
    BY <2>1, OthersKeepPage DEF vars, Update, Enter, UpdateAnswered
  <2> QED BY <2>1, BeginSearchKeepsPage, AnswerKeepsPage, ViewKeepsPage DEF Next
<1> QED BY <1>1, <1>2, SearchTypesAreKept, SettledIsKept, PTL DEF Spec

\* A page that has come to rest, with its queue names, shows the last search's results: its element
\* always, and its list, rows and methods unless an answer was overtaken.
THEOREM RestingPageIsCurrent == Spec => []QuietPageIsCurrent
<1>1. SearchTypes /\ PageInvariant => QuietPageIsCurrent
  <2> SUFFICES ASSUME SearchTypes, PageInvariant, Quiet
               PROVE  /\ shown = results.search
                      /\ ~overtaken => /\ updateSet.search = shown
                                       /\ methods = shown
                                       /\ \A j \in Jobs : rows[j] # NoSearch <=> j \in updateSet.jobs
    BY DEF QuietPageIsCurrent
  <2>1. results.state = "ready" /\ shown = results.search
    BY DEF Quiet, PageInvariant, Synced
  <2>2. ASSUME ~overtaken
        PROVE  /\ updateSet.search = shown /\ methods = shown
               /\ \A j \in Jobs : rows[j] # NoSearch <=> j \in updateSet.jobs
    <3>1. ListIsNewest /\ RowsFollow
      BY <2>2 DEF PageInvariant
    <3>2. /\ results.search \in Nat /\ updateSet.search \in Nat /\ methods \in Nat
          /\ observed \in Nat /\ methods <= results.search
      BY NumbersAreNaturals DEF SearchTypes, TypeOK, HasBegun
    <3>3. updateSet.search = shown /\ methods = shown /\ observed <= shown
      BY <2>1, <3>1, <3>2 DEF ListIsNewest
    <3>4. observed = updateSet.search
      BY <2>1, <3>2, <3>3 DEF Quiet, RowsAreStale, NoSearch
    <3> QED BY <3>1, <3>3, <3>4 DEF RowsFollow
  <2> QED BY <2>1, <2>2
<1> QED BY <1>1, SearchTypesAreKept, PageIsKept, PTL

----------------------------------------------------------------------------
(* The items.  A search sets the list once, and until then there is nothing  *)
(* of it on the page; so a row whose item is in the list was made from it.   *)

AwaitedIsFresh ==
    \A k \in Searches : Awaited(k) =>
        /\ updateSet.search # k
        /\ \A j \in Jobs : rows[j] # k /\ data[<<k, j>>] = NoEntry

\* An item in the list holds what its own row was given, or nothing yet.
ItemsFollow ==
    \A j \in updateSet.jobs :
        /\ rows[j] = NoSearch => data[<<updateSet.search, j>>] = NoEntry
        /\ rows[j] = updateSet.search => data[<<updateSet.search, j>>] = entered[j]

ItemInvariant == AwaitedIsFresh /\ ItemsFollow /\ UpdateCarriesEntries

LEMMA StepKeepsItems ==
    ASSUME SearchTypes, PageInvariant, ItemInvariant, [Next]_vars
    PROVE  ItemInvariant'
<1> USE DEF SearchTypes
<1>0. \A k \in Searches : Awaited(k)' => Awaited(k)
  BY StillAwaited
<1> DEFINE us == updateSet.search
<1>1. \A j \in updateSet.jobs : j \in Jobs /\ us # NoSearch /\ us \in Searches
  BY NumbersAreNaturals DEF PageInvariant, TypeOK
<1>2. CASE UNCHANGED <<updateSet, rows, data, entered>> /\ updates' \subseteq updates
  BY <1>0, <1>2 DEF ItemInvariant, AwaitedIsFresh, ItemsFollow, UpdateCarriesEntries
<1>3. ASSUME NEW i \in DOMAIN requests, JobsArrive(i) PROVE ItemInvariant'
  <2> PICK k : k = requests[i].search
    OBVIOUS
  <2>1. /\ k \in Searches /\ Awaited(k) /\ ~Awaited(k)' /\ updateSet'.search = k
        /\ UNCHANGED <<rows, data, entered, updates>>
    BY <1>3, ListArrives
  <2>2. /\ updateSet'.jobs \subseteq Jobs
        /\ \A j \in Jobs : rows[j] # k /\ data[<<k, j>>] = NoEntry
    <3>1. updateSet'.jobs \subseteq Jobs
      BY <1>3 DEF JobsArrive
    <3> QED BY <2>1, <3>1 DEF ItemInvariant, AwaitedIsFresh
  <2>3. AwaitedIsFresh'
    BY <1>0, <2>1 DEF ItemInvariant, AwaitedIsFresh
  <2>4. ItemsFollow'
    BY <2>1, <2>2 DEF ItemsFollow
  <2>5. UpdateCarriesEntries'
    BY <2>1 DEF ItemInvariant, UpdateCarriesEntries
  <2> QED BY <2>3, <2>4, <2>5 DEF ItemInvariant
<1>4. ASSUME MakeRows, updateSet' = updateSet PROVE ItemInvariant'
  <2>1. /\ \A j \in Jobs : rows'[j] = Row(j)
        /\ \A j \in Jobs : entered'[j] = IF rows'[j] = rows[j] THEN entered[j] ELSE NoEntry
        /\ UNCHANGED <<data, updates>>
    BY <1>4 DEF MakeRows
  <2>2. \A j \in Jobs : rows'[j] \in {NoSearch, rows[j], us}
    BY <2>1 DEF Row
  <2>3. AwaitedIsFresh'
    <3>1. \A k \in Searches : k # NoSearch
      BY NumbersAreNaturals DEF NoSearch
    <3> QED BY <1>0, <1>4, <2>1, <2>2, <3>1 DEF ItemInvariant, AwaitedIsFresh
  <2>4. ItemsFollow'
    <3> SUFFICES ASSUME NEW j \in updateSet.jobs
                 PROVE  /\ rows'[j] # NoSearch
                        /\ rows'[j] = us => data[<<us, j>>] = entered'[j]
      BY <1>4, <2>1 DEF ItemsFollow
    <3>1. rows'[j] = IF rows[j] # NoSearch THEN rows[j] ELSE us
      BY <1>1, <2>1 DEF Row
    <3>2. CASE rows[j] = NoSearch
      <4>1. rows'[j] = us /\ rows'[j] # rows[j] /\ us # NoSearch
        BY <1>1, <3>1, <3>2
      <4>2. entered'[j] = NoEntry /\ data[<<us, j>>] = NoEntry
        BY <1>1, <2>1, <3>2, <4>1 DEF ItemInvariant, ItemsFollow
      <4> QED BY <4>1, <4>2
    <3>3. CASE rows[j] # NoSearch
      BY <1>1, <2>1, <3>1, <3>3 DEF ItemInvariant, ItemsFollow
    <3> QED BY <3>2, <3>3
  <2>5. UpdateCarriesEntries'
    BY <2>1 DEF ItemInvariant, UpdateCarriesEntries
  <2> QED BY <2>3, <2>4, <2>5 DEF ItemInvariant
<1>5. ASSUME NEW j \in Jobs, NEW e \in Entries, Enter(j, e) PROVE ItemInvariant'
  <2>1. /\ rows[j] # NoSearch
        /\ entered' = [entered EXCEPT ![j] = e]
        /\ data' = [i \in DOMAIN data |-> IF i \in ItemInList(j) THEN e ELSE data[i]]
        /\ UNCHANGED <<updateSet, rows, updates>>
    BY <1>5 DEF Enter, InPage
  <2>2. /\ DOMAIN data = Searches \X Jobs
        /\ entered'[j] = e /\ \A m \in Jobs : m # j => entered'[m] = entered[m]
    BY <2>1 DEF TypeOK
  <2>3. \A k \in Searches, m \in Jobs :
            data'[<<k, m>>] = IF k = us /\ m = j /\ j \in updateSet.jobs THEN e
                              ELSE data[<<k, m>>]
    BY <2>1, <2>2 DEF ItemInList
  <2>4. AwaitedIsFresh'
    BY <1>0, <2>1, <2>3 DEF ItemInvariant, AwaitedIsFresh
  <2>5. ItemsFollow'
    BY <1>1, <2>1, <2>2, <2>3 DEF ItemInvariant, ItemsFollow
  <2>6. UpdateCarriesEntries'
    BY <2>1 DEF ItemInvariant, UpdateCarriesEntries
  <2> QED BY <2>4, <2>5, <2>6 DEF ItemInvariant
<1>6. ASSUME NEW j \in Jobs, Update(j) PROVE ItemInvariant'
  <2> DEFINE u == [item |-> CapturedItem(j), sent |-> data[CapturedItem(j)], entered |-> entered[j],
                   inList |-> CapturedItem(j) \in ItemInList(j)]
  <2>1. updates' = updates \cup {u} /\ UNCHANGED <<updateSet, rows, data, entered>>
    BY <1>6 DEF Update
  <2>2. u.inList => u.sent = u.entered
    <3>1. CapturedItem(j) \in ItemInList(j) => j \in updateSet.jobs /\ rows[j] = us
      BY DEF CapturedItem, ItemInList
    <3> QED BY <3>1 DEF ItemInvariant, ItemsFollow, CapturedItem
  <2> HIDE DEF u
  <2>3. UpdateCarriesEntries'
    BY <2>1, <2>2 DEF ItemInvariant, UpdateCarriesEntries
  <2> QED BY <1>0, <2>1, <2>3 DEF ItemInvariant, AwaitedIsFresh, ItemsFollow
<1>7. ASSUME Rerender \/ \E k \in Searches : ReturnResults(k) PROVE ItemInvariant'
  <2>1. updateSet' = updateSet
    BY <1>7 DEF Rerender, ReturnResults
  <2>2. MakeRows \/ UNCHANGED <<rows, form>>
    BY <1>7 DEF Rerender, ReturnResults
  <2> QED BY <1>2, <1>4, <2>1, <2>2 DEF form
<1>8. ASSUME NEW i \in DOMAIN requests, MethodsArrive(i) \/ RemoteFails(i)
      PROVE  ItemInvariant'
  BY <1>2, <1>8 DEF MethodsArrive, RemoteFails, form
<1>9. ASSUME \/ Trigger \/ BeginSearch \/ NamesArrive \/ NamesFail \/ UNCHANGED vars
             \/ \E u \in updates : UpdateAnswered(u)
      PROVE  ItemInvariant'
  BY <1>2, <1>9 DEF Trigger, BeginSearch, NamesArrive, NamesFail, UpdateAnswered, vars, form
<1> QED BY <1>3, <1>5, <1>6, <1>7, <1>8, <1>9 DEF Next, AnswerArrives

\* An update whose item is in the list carries what was entered in its row,
\* even when answers overtake one another.
THEOREM UpdatesCarryEntries == Spec => []UpdateCarriesEntries
<1>1. Init => ItemInvariant
  <2> SUFFICES ASSUME Init PROVE ItemInvariant
    OBVIOUS
  <2>1. /\ updateSet.search = NoSearch /\ updateSet.jobs = {} /\ updates = {}
        /\ \A j \in Jobs : rows[j] = NoSearch
        /\ \A k \in Searches, j \in Jobs : data[<<k, j>>] = NoEntry
    BY DEF Init
  <2>2. \A k \in Searches : k # NoSearch
    BY NumbersAreNaturals DEF NoSearch
  <2> QED BY <2>1, <2>2 DEF ItemInvariant, AwaitedIsFresh, ItemsFollow, UpdateCarriesEntries
<1>2. SearchTypes /\ PageInvariant /\ ItemInvariant /\ [Next]_vars => ItemInvariant'
  BY StepKeepsItems
<1>3. ItemInvariant => UpdateCarriesEntries
  BY DEF ItemInvariant
<1> QED BY <1>1, <1>2, <1>3, SearchTypesAreKept, PageIsKept, PTL DEF Spec

=============================================================================
