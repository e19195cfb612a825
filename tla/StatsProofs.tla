---------------------------- MODULE StatsProofs ----------------------------
(***************************************************************************)
(* The counters of Stats are exact for any finite set of connections, any  *)
(* set of names and any set of concurrent scrapes, and a page rendered     *)
(* while no session comes or goes adds up.                                 *)
(***************************************************************************)
EXTENDS Stats, FiniteSetTheorems, TLAPS

\* A call that has begun has a secret: its later steps find the right entry.
CallNamed == \A c \in Conns : call[c] # "none" => nameOf[c] \in Names

StatsInv == StatsTypeOK /\ CallNamed /\ CountersExact

-----------------------------------------------------------------------------
(* Every action keeps the types; each is expanded on its own. *)

\* The initial state has the types of StatsTypeOK.
LEMMA StatsTypeInit == StatsInit => StatsTypeOK /\ CallNamed
  BY StatsAssumption
  DEF StatsInit, StatsTypeOK, CallNamed, CallSteps, BlankPage, Pages

\* A step of ConnOpen or ConnClose keeps the types and the names of calls.
LEMMA CallTypes ==
  ASSUME StatsTypeOK, CallNamed, NEW c \in Conns,
         (\E m \in Names : ConnOpenActive(c, m)) \/ ConnCloseActive(c)
           \/ CallRuns(c) \/ CallLookup(c)
  PROVE  (StatsTypeOK /\ CallNamed)'
<1> USE DEF StatsTypeOK, CallNamed, CallSteps, CallStep
<1>1. CASE \E m \in Names : ConnOpenActive(c, m)
  BY <1>1 DEF ConnOpenActive
<1>2. CASE ConnCloseActive(c)
  BY <1>2 DEF ConnCloseActive
<1>3. CASE ConnOpenTotal(c)
  BY <1>3 DEF ConnOpenTotal
<1>4. CASE ConnOpenSecActive(c)
  BY <1>4 DEF ConnOpenSecActive
<1>5. CASE ConnOpenSecTotal(c)
  BY <1>5 DEF ConnOpenSecTotal
<1>6. CASE ConnCloseSecActive(c)
  BY <1>6 DEF ConnCloseSecActive
<1>7. CASE CallLookup(c)
  BY <1>7 DEF CallLookup, LookupStep, ConnOpenLookup, ConnCloseLookup
<1> QED
  BY <1>1, <1>2, <1>3, <1>4, <1>5, <1>6, <1>7 DEF CallRuns

\* A report of bytes keeps them.
LEMMA AddTypes ==
  ASSUME StatsTypeOK, CallNamed, NEW c \in Conns, NEW k \in 0 .. MaxBytes,
         AddBytesIn(c, k) \/ AddBytesOut(c, k)
  PROVE  (StatsTypeOK /\ CallNamed)'
<1>1. k \in Int
  BY StatsAssumption
<1> QED
  BY <1>1 DEF StatsTypeOK, CallNamed, AddBytesIn, AddBytesOut, Report

\* A page being rendered only reads the counters.
LEMMA ScrapeOnlyReads ==
  ASSUME NEW s \in Scrapers, ScrapeActive(s) \/ ScrapeStep(s) \/ ScrapeAgain(s)
  PROVE  CountersUnchanged
<1>1. CASE ScrapeActive(s) \/ ScrapeAgain(s)
  BY <1>1 DEF ScrapeActive, ScrapeAgain
<1>2. CASE ScrapeTotal(s) \/ ScrapeLock(s) \/ ScrapeRowTotal(s) \/ ScrapeUnlock(s)
  BY <1>2 DEF ScrapeTotal, ScrapeLock, ScrapeRowTotal, ScrapeUnlock
<1>3. CASE \E n \in Names : ScrapeRowActive(s, n)
  BY <1>3 DEF ScrapeRowActive
<1> QED
  BY <1>1, <1>2, <1>3 DEF ScrapeStep

\* A page being rendered keeps the types.
LEMMA ScrapeTypes ==
  ASSUME StatsTypeOK, CallNamed, NEW s \in Scrapers,
         ScrapeActive(s) \/ ScrapeStep(s) \/ ScrapeAgain(s)
  PROVE  (StatsTypeOK /\ CallNamed)'
<1> DEFINE Kept(p) == page' = [page EXCEPT ![s] = p]
<1>1. page \in [Scrapers -> Pages] /\ page[s] \in Pages
  BY DEF StatsTypeOK
<1>2. BlankPage \in Pages
  BY DEF BlankPage, Pages
<1>3. ASSUME NEW p \in Pages, Kept(p), CountersUnchanged,
             mu' \in Scrapers \cup {None}, quiet' \in [Scrapers -> BOOLEAN]
      PROVE  (StatsTypeOK /\ CallNamed)'
  <2>1. page' \in [Scrapers -> Pages]
    BY <1>1, <1>3
  <2>2. UNCHANGED <<activeConns, totalConns, bytesIn, bytesOut, known, secActive,
                    secTotal, call, nameOf, added>>
    BY <1>3 DEF CountersUnchanged
  <2>3. StatsTypeOK'
    BY <1>3, <2>1, <2>2 DEF StatsTypeOK
  <2>4. CallNamed'
    BY <2>2 DEF CallNamed
  <2> QED
    BY <2>3, <2>4
<1>4. CASE ScrapeActive(s)
  <2>1. [BlankPage EXCEPT !.pc = "total", !.active = activeConns] \in Pages
    BY <1>2 DEF StatsTypeOK, Pages
  <2>2. quiet' \in [Scrapers -> BOOLEAN]
    BY <1>4, Zenon DEF ScrapeActive, StatsTypeOK
  <2> QED
    BY <1>3, <1>4, <2>1, <2>2 DEF ScrapeActive, StatsTypeOK
<1>5. CASE ScrapeTotal(s)
  <2>1. [page[s] EXCEPT !.pc = "lock", !.total = totalConns] \in Pages
    BY <1>1 DEF Pages, StatsTypeOK
  <2> QED
    BY <1>3, <1>5, <2>1 DEF ScrapeTotal, StatsTypeOK
<1>6. CASE ScrapeLock(s)
  <2>1. [page[s] EXCEPT !.pc = "rows", !.todo = known] \in Pages
    BY <1>1 DEF Pages, StatsTypeOK
  <2> QED
    BY <1>3, <1>6, <2>1 DEF ScrapeLock, StatsTypeOK
<1>7. CASE \E m \in Names : ScrapeRowActive(s, m)
  <2>1. PICK m \in Names : ScrapeRowActive(s, m)
    BY <1>7
  <2>2. [page[s] EXCEPT !.row = m, !.rowActive[m] = secActive[m]] \in Pages
    BY <1>1 DEF Pages, StatsTypeOK
  <2> QED
    BY <1>3, <2>1, <2>2 DEF ScrapeRowActive, StatsTypeOK
<1>8. CASE ScrapeRowTotal(s)
  <2> DEFINE m == page[s].row
  <2>1. m \in Names
    BY <1>1, <1>8 DEF ScrapeRowTotal, Pages
  <2>2. [page[s] EXCEPT !.row = None, !.rowTotal[m] = secTotal[m], !.todo = page[s].todo \ {m}] \in Pages
    BY <1>1, <2>1 DEF Pages, StatsTypeOK
  <2>3. Kept([page[s] EXCEPT !.row = None, !.rowTotal[m] = secTotal[m], !.todo = page[s].todo \ {m}])
    BY <1>8 DEF ScrapeRowTotal
  <2>4. CountersUnchanged /\ mu' = mu /\ quiet' = quiet
    BY <1>8 DEF ScrapeRowTotal
  <2> HIDE DEF m, Kept
  <2> QED
    BY <1>3, <2>2, <2>3, <2>4 DEF StatsTypeOK
<1>9. CASE ScrapeUnlock(s)
  <2>1. [page[s] EXCEPT !.pc = "done"] \in Pages
    BY <1>1 DEF Pages
  <2> QED
    BY <1>3, <1>9, <2>1 DEF ScrapeUnlock, StatsTypeOK
<1>10. CASE ScrapeAgain(s)
  BY <1>2, <1>3, <1>10 DEF ScrapeAgain, StatsTypeOK
<1> QED
  BY <1>4, <1>5, <1>6, <1>7, <1>8, <1>9, <1>10 DEF ScrapeStep

-----------------------------------------------------------------------------
(* Every step of a call moves one connection from one step to the next, so *)
(* it changes the size of At(S) by one or not at all.                      *)

\* One if the step s is counted in S.
Counts(s, S) == IF s \in S THEN 1 ELSE 0

\* The size of a finite set A into which e comes if to is in S, and which e
\* leaves otherwise, when it was in A if from is in S.
LEMMA CardMoves ==
  ASSUME NEW A, IsFiniteSet(A), NEW e, NEW from, NEW to, NEW S, NEW B,
         e \in A <=> from \in S,
         B = IF to \in S THEN A \cup {e} ELSE A \ {e}
  PROVE  Cardinality(B) = Cardinality(A) + Counts(to, S) - Counts(from, S)
<1>1. Cardinality(A) \in Nat
  BY FS_CardinalityType
<1>2. CASE to \in S /\ from \in S
  <2>1. Cardinality(B) = Cardinality(A)
    <3>1. B = A
      BY <1>2
    <3> QED
      BY <3>1
  <2> QED
    BY <1>1, <1>2, <2>1 DEF Counts
<1>3. CASE to \in S /\ from \notin S
  <2>1. Cardinality(B) = Cardinality(A) + 1
    BY <1>3, FS_AddElement
  <2> QED
    BY <1>1, <1>3, <2>1 DEF Counts
<1>4. CASE to \notin S /\ from \in S
  <2>1. Cardinality(B) = Cardinality(A) - 1
    BY <1>4, FS_RemoveElement
  <2> QED
    BY <1>1, <1>4, <2>1 DEF Counts
<1>5. CASE to \notin S /\ from \notin S
  <2>1. Cardinality(B) = Cardinality(A)
    <3>1. B = A
      BY <1>5
    <3> QED
      BY <3>1
  <2> QED
    BY <1>1, <1>5, <2>1 DEF Counts
<1> QED
  BY <1>2, <1>3, <1>4, <1>5

\* How many connections stand at a step of S, before and after c moves.
LEMMA AtMoves ==
  ASSUME StatsTypeOK, NEW c \in Conns, NEW from, NEW to \in CallSteps,
         CallStep(c, from, to), NEW S
  PROVE  Cardinality(At(S))' = Cardinality(At(S)) + Counts(to, S) - Counts(from, S)
<1>1. IsFiniteSet(At(S))
  BY StatsAssumption, FS_Subset DEF At
<1>2. call[c] = from /\ call' = [call EXCEPT ![c] = to]
  BY DEF CallStep
<1>3. c \in At(S) <=> from \in S
  BY <1>2 DEF At
<1>4. At(S)' = IF to \in S THEN At(S) \cup {c} ELSE At(S) \ {c}
  BY <1>2 DEF At, StatsTypeOK
<1>5. Cardinality(At(S)') = Cardinality(At(S)) + Counts(to, S) - Counts(from, S)
  BY <1>1, <1>3, <1>4, CardMoves
<1> QED
  BY <1>5

\* The same for the connections of one secret, whose names do not change.
LEMMA AtForMoves ==
  ASSUME StatsTypeOK, NEW c \in Conns, NEW from, NEW to \in CallSteps,
         CallStep(c, from, to), nameOf' = nameOf, NEW S, NEW m \in Names
  PROVE  Cardinality(AtFor(m, S))' =
           IF nameOf[c] = m
             THEN Cardinality(AtFor(m, S)) + Counts(to, S) - Counts(from, S)
             ELSE Cardinality(AtFor(m, S))
<1>1. IsFiniteSet(AtFor(m, S))
  BY StatsAssumption, FS_Subset DEF AtFor, At
<1>2. call[c] = from /\ call' = [call EXCEPT ![c] = to]
  BY DEF CallStep
<1>3. CASE nameOf[c] = m
  <2>1. c \in AtFor(m, S) <=> from \in S
    BY <1>2, <1>3 DEF AtFor, At
  <2>2. AtFor(m, S)' = IF to \in S THEN AtFor(m, S) \cup {c} ELSE AtFor(m, S) \ {c}
    BY <1>2, <1>3 DEF AtFor, At, StatsTypeOK
  <2>3. Cardinality(AtFor(m, S)') = Cardinality(AtFor(m, S)) + Counts(to, S) - Counts(from, S)
    BY <1>1, <2>1, <2>2, CardMoves
  <2> QED
    BY <1>3, <2>3
<1>4. CASE nameOf[c] # m
  <2>1. AtFor(m, S)' = AtFor(m, S)
    BY <1>2, <1>4 DEF AtFor, At, StatsTypeOK
  <2> QED
    BY <1>4, <2>1
<1> QED
  BY <1>3, <1>4

-----------------------------------------------------------------------------
(* CountersExact: each step of a call changes the one counter it adds to,  *)
(* and moves its connection across the border of that counter's set alone. *)

\* What CountersExact says of the connections that have not moved.
LEMMA CountersStay ==
  ASSUME CountersExact, UNCHANGED <<activeConns, totalConns, secActive, secTotal, call, nameOf>>
  PROVE  CountersExact'
  BY DEF CountersExact, AtFor, At

\* The counters change as the steps at both ends of a call's step say.
CountersFollow(c, from, to) ==
  /\ activeConns' = activeConns + Counts(to, CountedActive) - Counts(from, CountedActive)
  /\ totalConns' = totalConns + Counts(to, CountedTotal) - Counts(from, CountedTotal)
  /\ \A m \in Names :
       /\ secActive'[m] = IF nameOf[c] = m
            THEN secActive[m] + Counts(to, CountedSecActive) - Counts(from, CountedSecActive)
            ELSE secActive[m]
       /\ secTotal'[m] = IF nameOf[c] = m
            THEN secTotal[m] + Counts(to, CountedSecTotal) - Counts(from, CountedSecTotal)
            ELSE secTotal[m]

\* A step of a call that keeps the names preserves CountersExact if they do.
LEMMA CountersMove ==
  ASSUME StatsTypeOK, CountersExact, NEW c \in Conns,
         NEW from \in CallSteps, NEW to \in CallSteps, CallStep(c, from, to), nameOf' = nameOf,
         CountersFollow(c, from, to)
  PROVE  CountersExact'
<1>1. activeConns' = Cardinality(At(CountedActive))'
  BY AtMoves DEF CountersExact, CountersFollow
<1>2. totalConns' = Cardinality(At(CountedTotal))'
  BY AtMoves DEF CountersExact, CountersFollow
<1>3. ASSUME NEW m \in Names
      PROVE  /\ secActive'[m] = Cardinality(AtFor(m, CountedSecActive))'
             /\ secTotal'[m] = Cardinality(AtFor(m, CountedSecTotal))'
  BY AtForMoves DEF CountersExact, CountersFollow
<1> QED
  BY <1>1, <1>2, <1>3 DEF CountersExact, CountedActive, CountedTotal, CountedSecActive,
     CountedSecTotal, CallSteps

\* The first step of ConnOpen, which fixes the name, preserves CountersExact:
\* no set of a secret's connections has the new connection in it yet.
LEMMA OpenCounts ==
  ASSUME StatsTypeOK, CountersExact, NEW c \in Conns, NEW m \in Names, ConnOpenActive(c, m)
  PROVE  CountersExact'
<1>1. CallStep(c, "none", "incTotal") /\ "none" \in CallSteps /\ "incTotal" \in CallSteps
  BY DEF ConnOpenActive, CallSteps
<1>2. activeConns' = Cardinality(At(CountedActive))'
  <2>1. Counts("incTotal", CountedActive) = 1 /\ Counts("none", CountedActive) = 0
    BY DEF Counts, CountedActive
  <2>2. activeConns' = activeConns + 1 /\ activeConns \in Int
    BY DEF ConnOpenActive, StatsTypeOK
  <2> QED
    BY <1>1, <2>1, <2>2, AtMoves DEF CountersExact
<1>3. totalConns' = Cardinality(At(CountedTotal))'
  <2>1. Counts("incTotal", CountedTotal) = 0 /\ Counts("none", CountedTotal) = 0
    BY DEF Counts, CountedTotal
  <2>2. totalConns' = totalConns /\ totalConns \in Int
    BY DEF ConnOpenActive, StatsTypeOK
  <2> QED
    BY <1>1, <2>1, <2>2, AtMoves DEF CountersExact
<1>4. ASSUME NEW k \in Names
      PROVE  /\ secActive'[k] = Cardinality(AtFor(k, CountedSecActive))'
             /\ secTotal'[k] = Cardinality(AtFor(k, CountedSecTotal))'
  <2>1. /\ AtFor(k, CountedSecActive)' = AtFor(k, CountedSecActive)
        /\ AtFor(k, CountedSecTotal)' = AtFor(k, CountedSecTotal)
    BY DEF ConnOpenActive, CallStep, AtFor, At, CountedSecActive, CountedSecTotal, StatsTypeOK
  <2> QED
    BY <2>1 DEF ConnOpenActive, CountersExact
<1> QED
  BY <1>2, <1>3, <1>4 DEF CountersExact, CountedActive, CountedTotal, CountedSecActive,
     CountedSecTotal, CallSteps

\* Every step of ConnOpen and ConnClose preserves CountersExact.
LEMMA CallCounts ==
  ASSUME StatsInv, NEW c \in Conns,
         (\E m \in Names : ConnOpenActive(c, m)) \/ ConnCloseActive(c)
           \/ CallRuns(c) \/ CallLookup(c)
  PROVE  CountersExact'
<1> USE DEF StatsInv
<1>0. /\ activeConns \in Int /\ totalConns \in Int
      /\ secActive \in [Names -> Int] /\ secTotal \in [Names -> Int]
      /\ call[c] # "none" => nameOf[c] \in Names
  BY DEF StatsTypeOK, CallNamed
<1>1. ASSUME NEW from \in CallSteps, NEW to \in CallSteps, CallStep(c, from, to), nameOf' = nameOf,
             CountersFollow(c, from, to)
      PROVE  CountersExact'
  BY <1>1, CountersMove
<1>2. CASE \E m \in Names : ConnOpenActive(c, m)
  BY <1>2, OpenCounts
<1> USE DEF CallStep, CountersFollow, Counts, CountedActive, CountedTotal, CountedSecActive,
            CountedSecTotal, CallSteps
<1>3. CASE ConnCloseActive(c)
  <2>1. CountersFollow(c, "open", "lookClose")
    BY <1>0, <1>3 DEF ConnCloseActive
  <2> QED
    BY <1>1, <1>3, <2>1 DEF ConnCloseActive
<1>4. CASE ConnOpenTotal(c)
  <2>1. CountersFollow(c, "incTotal", "lookOpen")
    BY <1>0, <1>4 DEF ConnOpenTotal
  <2> QED
    BY <1>1, <1>4, <2>1 DEF ConnOpenTotal
<1>5. CASE ConnOpenSecActive(c)
  <2>1. CountersFollow(c, "incSecActive", "incSecTotal")
    BY <1>0, <1>5 DEF ConnOpenSecActive
  <2> QED
    BY <1>1, <1>5, <2>1 DEF ConnOpenSecActive
<1>6. CASE ConnOpenSecTotal(c)
  <2>1. CountersFollow(c, "incSecTotal", "open")
    BY <1>0, <1>6 DEF ConnOpenSecTotal
  <2> QED
    BY <1>1, <1>6, <2>1 DEF ConnOpenSecTotal
<1>7. CASE ConnCloseSecActive(c)
  <2>1. CountersFollow(c, "decSecActive", "closed")
    BY <1>0, <1>7 DEF ConnCloseSecActive
  <2> QED
    BY <1>1, <1>7, <2>1 DEF ConnCloseSecActive
<1>8. CASE ConnOpenLookup(c)
  <2>1. CountersFollow(c, "lookOpen", "incSecActive")
    BY <1>0, <1>8 DEF ConnOpenLookup, LookupStep
  <2> QED
    BY <1>1, <1>8, <2>1 DEF ConnOpenLookup, LookupStep
<1>9. CASE ConnCloseLookup(c)
  <2>1. CountersFollow(c, "lookClose", "decSecActive")
    BY <1>0, <1>9 DEF ConnCloseLookup, LookupStep
  <2> QED
    BY <1>1, <1>9, <2>1 DEF ConnCloseLookup, LookupStep
<1> QED
  BY <1>2, <1>3, <1>4, <1>5, <1>6, <1>7, <1>8, <1>9 DEF CallRuns, CallLookup

-----------------------------------------------------------------------------
\* No connection is counted and every counter is zero when the server starts.
LEMMA CountersInit == StatsInit => CountersExact
<1> SUFFICES ASSUME StatsInit PROVE CountersExact
  OBVIOUS
<1>1. ASSUME NEW S, "none" \notin S
      PROVE  Cardinality(At(S)) = 0 /\ \A m \in Names : Cardinality(AtFor(m, S)) = 0
  <2>1. At(S) = {} /\ \A m \in Names : AtFor(m, S) = {}
    BY <1>1 DEF StatsInit, At, AtFor
  <2> QED
    BY <2>1, FS_EmptySet
<1>2. /\ "none" \notin CountedActive /\ "none" \notin CountedTotal
      /\ "none" \notin CountedSecActive /\ "none" \notin CountedSecTotal
  BY DEF CountedActive, CountedTotal, CountedSecActive, CountedSecTotal
<1>3. Cardinality(At(CountedActive)) = 0 /\ Cardinality(At(CountedTotal)) = 0
  BY <1>1, <1>2
<1>4. \A m \in Names : /\ Cardinality(AtFor(m, CountedSecActive)) = 0
                       /\ Cardinality(AtFor(m, CountedSecTotal)) = 0
  BY <1>1, <1>2
<1> QED
  BY <1>3, <1>4 DEF StatsInit, CountersExact

\* StatsInv is inductive.
LEMMA StatsInvStep == StatsInv /\ [StatsNext]_statsVars => StatsInv'
<1> SUFFICES ASSUME StatsInv, [StatsNext]_statsVars PROVE StatsInv'
  OBVIOUS
<1>0. StatsTypeOK /\ CallNamed /\ CountersExact
  BY DEF StatsInv
<1>1. CASE UNCHANGED statsVars
  <2>1. StatsTypeOK' /\ CallNamed'
    BY <1>0, <1>1 DEF StatsTypeOK, CallNamed, statsVars
  <2> QED
    BY <1>0, <1>1, <2>1, CountersStay DEF StatsInv, statsVars
<1>2. ASSUME NEW c \in Conns,
             (\E m \in Names : ConnOpenActive(c, m)) \/ ConnCloseActive(c)
               \/ CallRuns(c) \/ CallLookup(c)
      PROVE  StatsInv'
  BY <1>0, <1>2, CallTypes, CallCounts DEF StatsInv
<1>3. ASSUME NEW c \in Conns, NEW k \in 0 .. MaxBytes, AddBytesIn(c, k) \/ AddBytesOut(c, k)
      PROVE  StatsInv'
  <2>1. CountersExact'
    BY <1>0, <1>3, CountersStay DEF AddBytesIn, AddBytesOut, Report
  <2> QED
    BY <1>0, <1>3, <2>1, AddTypes DEF StatsInv
<1>4. ASSUME NEW s \in Scrapers, ScrapeActive(s) \/ ScrapeStep(s) \/ ScrapeAgain(s)
      PROVE  StatsInv'
  <2>1. CountersUnchanged
    BY <1>4, ScrapeOnlyReads
  <2>2. CountersExact'
    BY <1>0, <2>1, CountersStay DEF CountersUnchanged
  <2> QED
    BY <1>0, <1>4, <2>2, ScrapeTypes DEF StatsInv
<1> QED
  BY <1>1, <1>2, <1>3, <1>4 DEF StatsNext

\* StatsInv holds of the component in every behaviour.
THEOREM StatsInvariant == StatsSpec => []StatsInv
<1>1. StatsInit => StatsInv
  BY StatsTypeInit, CountersInit DEF StatsInv
<1> QED
  BY <1>1, StatsInvStep, PTL DEF StatsSpec

(***************************************************************************)
(* Whatever the connections, the secrets and the pages being rendered, and *)
(* however the steps of concurrent ConnOpen and ConnClose calls mix, each  *)
(* counter of stats.go is the number of connections it should count.       *)
(***************************************************************************)
THEOREM StatsCountersExact == StatsSpec => []CountersExact
<1>1. StatsInv => CountersExact
  BY DEF StatsInv
<1> QED
  BY <1>1, StatsInvariant, PTL

\* The component's variables keep their types.
THEOREM StatsTypeCorrect == StatsSpec => []StatsTypeOK
<1>1. StatsInv => StatsTypeOK
  BY DEF StatsInv
<1> QED
  BY <1>1, StatsInvariant, PTL

-----------------------------------------------------------------------------
(* QuietPageAgrees.  While no call runs the counters stand still, so every *)
(* number a page has loaded so far is the counter's value now, and the     *)
(* rows sum to the totals because each connection is of one secret.        *)

\* A call that is past its lookup finds its entry in the map.
CallKnown ==
  \A c \in Conns :
    call[c] \in {"incSecActive", "incSecTotal", "open", "lookClose", "decSecActive", "closed"}
      => nameOf[c] \in known

\* The loops of a page: no row is filled before the lock, all are at the end.
PageRows(s) ==
  /\ page[s].pc \in {"idle", "total", "lock"} =>
       /\ page[s].row = None
       /\ \A n \in Names : page[s].rowActive[n] = 0 /\ page[s].rowTotal[n] = 0
  /\ page[s].pc = "done" => page[s].todo = {}

\* What a page has loaded since it began is still so.
PageFresh(s) ==
  /\ \A c \in Conns : ~InCall(c)
  /\ page[s].pc # "idle" => page[s].active = activeConns
  /\ page[s].pc \notin {"idle", "total"} => page[s].total = totalConns
  /\ page[s].pc \in {"rows", "done"} =>
       \A n \in Names \ page[s].todo :
         page[s].rowActive[n] = secActive[n] /\ page[s].rowTotal[n] = secTotal[n]
  /\ page[s].pc = "rows" /\ page[s].row # None =>
       page[s].rowActive[page[s].row] = secActive[page[s].row]

PagesInv == CallKnown /\ \A s \in Scrapers : PageRows(s) /\ (quiet[s] => PageFresh(s))

\* Grouping the elements of a finite set by a name splits its size into a sum.
LEMMA SumOfFibres ==
  ASSUME NEW A, IsFiniteSet(A), NEW N, NEW g \in [A -> N], NEW f \in [N -> Nat],
         \A n \in N : f[n] = Cardinality({a \in A : g[a] = n})
  PROVE  SumOf(f, N) = Cardinality(A)
<1> DEFINE Fibre(n) == {a \in A : g[a] = n}
           b == [n \in N |-> CHOOSE h : h \in Bijection(1 .. f[n], Fibre(n))]
           U == Units(f, N)
           phi == [u \in U |-> b[u[1]][u[2]]]
<1>1. ASSUME NEW n \in N
      PROVE  /\ \A i \in 1 .. f[n] : b[n][i] \in Fibre(n)
             /\ \A i, k \in 1 .. f[n] : b[n][i] = b[n][k] => i = k
             /\ \A a \in Fibre(n) : \E i \in 1 .. f[n] : b[n][i] = a
  <2>1. IsFiniteSet(Fibre(n))
    BY FS_Subset
  <2>2. \E h : h \in Bijection(1 .. f[n], Fibre(n))
    BY <2>1, FS_CardinalityType DEF ExistsBijection
  <2>3. b[n] \in Bijection(1 .. f[n], Fibre(n))
    BY <2>2
  <2> HIDE DEF b, Fibre
  <2> QED
    BY <2>3 DEF Bijection, Injection, Surjection, IsInjective
<1>2. \A u \in U : u = <<u[1], u[2]>> /\ u[1] \in N /\ u[2] \in 1 .. f[u[1]]
  BY DEF Units
<1>3. \A n \in N : \A i \in 1 .. f[n] : <<n, i>> \in U
  BY DEF Units
<1> HIDE DEF b, U
<1>4. phi \in Injection(U, A)
  <2>1. \A u \in U : b[u[1]][u[2]] \in Fibre(u[1])
    BY <1>1, <1>2
  <2>2. ASSUME NEW u \in U, NEW v \in U, phi[u] = phi[v]
        PROVE  u = v
    <3>1. phi[u] \in Fibre(u[1]) /\ phi[v] \in Fibre(v[1])
      BY <2>1
    <3>2. u[1] = v[1]
      BY <2>2, <3>1
    <3>3. u[2] = v[2]
      <4>1. b[u[1]][u[2]] = b[u[1]][v[2]] /\ u[1] \in N
        BY <1>2, <2>2, <3>2
      <4>2. u[2] \in 1 .. f[u[1]] /\ v[2] \in 1 .. f[u[1]]
        BY <1>2, <3>2
      <4> QED
        BY ONLY <1>1, <4>1, <4>2
    <3> QED
      BY <1>2, <3>2, <3>3
  <2> QED
    BY <2>1, <2>2 DEF Injection, IsInjective
<1>5. phi \in Surjection(U, A)
  <2>1. ASSUME NEW a \in A
        PROVE  \E u \in U : phi[u] = a
    <3>1. a \in Fibre(g[a]) /\ g[a] \in N
      OBVIOUS
    <3>2. PICK i \in 1 .. f[g[a]] : b[g[a]][i] = a
      BY <1>1, <3>1
    <3>3. <<g[a], i>> \in U /\ phi[<<g[a], i>>] = a
      BY <1>3, <3>1, <3>2
    <3> QED
      BY <3>3
  <2> QED
    BY <1>4, <2>1 DEF Injection, Surjection
<1>6. Cardinality(U) = Cardinality(A)
  BY <1>4, <1>5, FS_Injection
<1> QED
  BY <1>6 DEF SumOf, U

\* In a quiet page nobody is between two additions, so the connections that
\* two counters count are the same ones and their sizes per secret sum up.
LEMMA QuietSums ==
  ASSUME StatsInv, \A c \in Conns : ~InCall(c)
  PROVE  activeConns = SumOf(secActive, Names) /\ totalConns = SumOf(secTotal, Names)
<1> DEFINE g(S) == [c \in At(S) |-> nameOf[c]]
<1>1. ASSUME NEW S, "none" \notin S
      PROVE  /\ IsFiniteSet(At(S))
             /\ g(S) \in [At(S) -> Names]
             /\ \A n \in Names : AtFor(n, S) = {c \in At(S) : g(S)[c] = n}
             /\ \A n \in Names : Cardinality(AtFor(n, S)) \in Nat
  <2>1. IsFiniteSet(At(S))
    BY StatsAssumption, FS_Subset DEF At
  <2>2. g(S) \in [At(S) -> Names]
    BY <1>1 DEF StatsInv, CallNamed, At
  <2>3. \A n \in Names : AtFor(n, S) = {c \in At(S) : g(S)[c] = n}
    BY DEF AtFor
  <2>4. ASSUME NEW n \in Names PROVE Cardinality(AtFor(n, S)) \in Nat
    BY <2>1, FS_Subset, FS_CardinalityType DEF AtFor
  <2> QED
    BY <2>1, <2>2, <2>3, <2>4
<1>2. \A c \in Conns : call[c] \in {"none", "open", "closed"}
  BY DEF InCall
<1>3. At(CountedActive) = At(CountedSecActive)
  BY <1>2 DEF At, CountedActive, CountedSecActive
<1>4. At(CountedTotal) = At(CountedSecTotal)
  BY <1>2 DEF At, CountedTotal, CountedSecTotal, CallSteps
<1>5. "none" \notin CountedSecActive /\ "none" \notin CountedSecTotal
  BY DEF CountedSecActive, CountedSecTotal
<1>6. /\ secActive \in [Names -> Int] /\ secTotal \in [Names -> Int]
      /\ CountersExact
  BY DEF StatsInv, StatsTypeOK
<1>7. SumOf(secActive, Names) = Cardinality(At(CountedSecActive))
  <2>1. \A n \in Names : secActive[n] = Cardinality({c \in At(CountedSecActive) : g(CountedSecActive)[c] = n})
    BY <1>1, <1>5, <1>6 DEF CountersExact
  <2>2. secActive \in [Names -> Nat]
    BY <1>1, <1>5, <1>6 DEF CountersExact
  <2> HIDE DEF g
  <2> QED
    BY <1>1, <1>5, <2>1, <2>2, SumOfFibres
<1>8. SumOf(secTotal, Names) = Cardinality(At(CountedSecTotal))
  <2>1. \A n \in Names : secTotal[n] = Cardinality({c \in At(CountedSecTotal) : g(CountedSecTotal)[c] = n})
    BY <1>1, <1>5, <1>6 DEF CountersExact
  <2>2. secTotal \in [Names -> Nat]
    BY <1>1, <1>5, <1>6 DEF CountersExact
  <2> HIDE DEF g
  <2> QED
    BY <1>1, <1>5, <2>1, <2>2, SumOfFibres
<1> QED
  BY <1>3, <1>4, <1>6, <1>7, <1>8 DEF CountersExact

\* A step of a call makes no page quiet and leaves every page as it is.
LEMMA CallKeepsPages ==
  ASSUME StatsTypeOK, CallNamed, PagesInv, NEW c \in Conns,
         (\E m \in Names : ConnOpenActive(c, m)) \/ ConnCloseActive(c)
           \/ CallRuns(c) \/ CallLookup(c)
  PROVE  PagesInv'
<1>1. page' = page /\ \A s \in Scrapers : ~quiet'[s]
  BY DEF ConnOpenActive, ConnCloseActive, CallRuns, CallLookup, ConnOpenTotal, ConnOpenSecActive,
         ConnOpenSecTotal, ConnCloseSecActive, ConnOpenLookup, ConnCloseLookup, LookupStep, CallStep
<1>2. CallKnown'
  <2> USE DEF PagesInv, CallKnown, StatsTypeOK, CallStep
  <2>1. CASE \E m \in Names : ConnOpenActive(c, m)
    BY <2>1 DEF ConnOpenActive
  <2>2. CASE ConnCloseActive(c) \/ ConnOpenTotal(c) \/ ConnOpenSecActive(c) \/ ConnOpenSecTotal(c)
               \/ ConnCloseSecActive(c)
    BY <2>2 DEF ConnCloseActive, ConnOpenTotal, ConnOpenSecActive, ConnOpenSecTotal, ConnCloseSecActive
  <2>3. CASE CallLookup(c)
    BY <2>3 DEF CallLookup, ConnOpenLookup, ConnCloseLookup, LookupStep
  <2> QED
    BY <2>1, <2>2, <2>3 DEF CallRuns
<1>3. \A s \in Scrapers : PageRows(s)' /\ (quiet[s] => PageFresh(s))'
  BY <1>1 DEF PagesInv, PageRows
<1> QED
  BY <1>2, <1>3 DEF PagesInv

\* A load of a page keeps what is said of that page, and touches no other one.
LEMMA ScrapeKeepsPages ==
  ASSUME StatsInv, PagesInv, NEW s \in Scrapers,
         ScrapeActive(s) \/ ScrapeStep(s) \/ ScrapeAgain(s)
  PROVE  PagesInv'
<1> DEFINE PageOK(r) == PageRows(r) /\ (quiet[r] => PageFresh(r))
<1>0. PICK p, q : page' = [page EXCEPT ![s] = p] /\ quiet' = [quiet EXCEPT ![s] = q]
  <2>1. quiet = [quiet EXCEPT ![s] = quiet[s]]
    BY DEF StatsInv, StatsTypeOK
  <2>2. CASE ScrapeActive(s)
    BY <2>2 DEF ScrapeActive
  <2>3. CASE ScrapeAgain(s)
    BY <2>1, <2>3 DEF ScrapeAgain
  <2>4. CASE ScrapeTotal(s) \/ ScrapeLock(s)
    BY <2>1, <2>4 DEF ScrapeTotal, ScrapeLock
  <2>5. CASE \E n \in Names : ScrapeRowActive(s, n)
    BY <2>1, <2>5 DEF ScrapeRowActive
  <2>6. CASE ScrapeRowTotal(s) \/ ScrapeUnlock(s)
    BY <2>1, <2>6 DEF ScrapeRowTotal, ScrapeUnlock
  <2> QED
    BY <2>2, <2>3, <2>4, <2>5, <2>6 DEF ScrapeStep
<1>1. CountersUnchanged
  BY ScrapeOnlyReads
<1>2. CallKnown'
  BY <1>1 DEF PagesInv, CallKnown, CountersUnchanged
<1>3. ASSUME NEW r \in Scrapers, page'[r] = page[r], quiet'[r] = quiet[r]
      PROVE  PageOK(r)'
  BY <1>1, <1>3 DEF PagesInv, PageRows, PageFresh, CountersUnchanged, InCall
<1>4. \A r \in Scrapers \ {s} : page'[r] = page[r] /\ quiet'[r] = quiet[r]
  BY <1>0 DEF StatsInv, StatsTypeOK
<1>5. PageOK(s)'
  <2>1. page \in [Scrapers -> Pages] /\ page[s] \in Pages /\ PageRows(s) /\ (quiet[s] => PageFresh(s))
    BY DEF StatsInv, StatsTypeOK, PagesInv
  <2>2. UNCHANGED <<activeConns, totalConns, known, secActive, secTotal, call>>
    BY <1>1 DEF CountersUnchanged
  <2>3. quiet \in [Scrapers -> BOOLEAN]
    BY DEF StatsInv, StatsTypeOK
  <2> USE DEF PageRows, PageFresh, Pages, InCall
  <2>4. CASE ScrapeActive(s)
    <3>1. page'[s] = [BlankPage EXCEPT !.pc = "total", !.active = activeConns]
      BY <2>1, <2>4 DEF ScrapeActive
    <3>2. quiet'[s] => \A c \in Conns : ~InCall(c)
      BY <2>3, <2>4, Zenon DEF ScrapeActive
    <3> QED
      BY <2>2, <3>1, <3>2 DEF BlankPage
  <2>5. CASE ScrapeTotal(s)
    BY <2>1, <2>2, <2>5 DEF ScrapeTotal
  <2>6. CASE ScrapeLock(s)
    <3>1. page'[s] = [page[s] EXCEPT !.pc = "rows", !.todo = known] /\ quiet'[s] = quiet[s]
      BY <2>1, <2>6 DEF ScrapeLock
    <3>2. \A n \in Names \ known : secActive[n] = 0 /\ secTotal[n] = 0
      <4>1. \A n \in Names \ known : AtFor(n, CountedSecActive) = {} /\ AtFor(n, CountedSecTotal) = {}
        BY DEF PagesInv, CallKnown, AtFor, At, CountedSecActive, CountedSecTotal
      <4> QED
        BY <4>1, FS_EmptySet DEF StatsInv, CountersExact
    <3>3. page[s].pc = "lock" /\ page'[s].pc = "rows" /\ page'[s].todo = known
      BY <2>1, <2>6, <3>1 DEF ScrapeLock
    <3>4. page'[s].rowActive = page[s].rowActive /\ page'[s].rowTotal = page[s].rowTotal
      BY <2>1, <3>1
    <3> QED
      BY <2>1, <2>2, <3>1, <3>2, <3>3, <3>4
  <2>7. CASE \E n \in Names : ScrapeRowActive(s, n)
    <3>1. PICK n \in Names : ScrapeRowActive(s, n)
      BY <2>7
    <3>2. page'[s] = [page[s] EXCEPT !.row = n, !.rowActive[n] = secActive[n]] /\ quiet'[s] = quiet[s]
      BY <2>1, <3>1 DEF ScrapeRowActive
    <3> QED
      BY <2>1, <2>2, <3>1, <3>2 DEF ScrapeRowActive
  <2>8. CASE ScrapeRowTotal(s)
    <3> DEFINE n == page[s].row
    <3>1. n \in Names
      BY <2>1, <2>8 DEF ScrapeRowTotal
    <3>2. /\ page'[s] = [page[s] EXCEPT !.row = None, !.rowTotal[n] = secTotal[n], !.todo = page[s].todo \ {n}]
          /\ quiet'[s] = quiet[s]
      BY <2>1, <2>8 DEF ScrapeRowTotal
    <3> QED
      BY <2>1, <2>2, <2>8, <3>1, <3>2 DEF ScrapeRowTotal
  <2>9. CASE ScrapeUnlock(s)
    BY <2>1, <2>2, <2>9 DEF ScrapeUnlock
  <2>10. CASE ScrapeAgain(s)
    BY <2>1, <2>2, <2>10 DEF ScrapeAgain, BlankPage
  <2> QED
    BY <2>4, <2>5, <2>6, <2>7, <2>8, <2>9, <2>10 DEF ScrapeStep
<1>6. \A r \in Scrapers : PageOK(r)'
  BY <1>3, <1>4, <1>5
<1> QED
  BY <1>2, <1>6 DEF PagesInv

\* PagesInv is inductive, given the counters.
LEMMA PagesStep == StatsInv /\ PagesInv /\ [StatsNext]_statsVars => PagesInv'
<1> SUFFICES ASSUME StatsInv, PagesInv, [StatsNext]_statsVars PROVE PagesInv'
  OBVIOUS
<1>1. CASE UNCHANGED <<page, quiet, call, nameOf, known, activeConns, totalConns, secActive, secTotal>>
  BY <1>1 DEF PagesInv, CallKnown, PageRows, PageFresh, InCall
<1>2. ASSUME NEW c \in Conns,
             (\E m \in Names : ConnOpenActive(c, m)) \/ ConnCloseActive(c)
               \/ CallRuns(c) \/ CallLookup(c)
      PROVE  PagesInv'
  BY <1>2, CallKeepsPages DEF StatsInv
<1>3. ASSUME NEW c \in Conns, NEW k \in 0 .. MaxBytes, AddBytesIn(c, k) \/ AddBytesOut(c, k)
      PROVE  PagesInv'
  BY <1>1, <1>3 DEF AddBytesIn, AddBytesOut, Report
<1>4. ASSUME NEW s \in Scrapers, ScrapeActive(s) \/ ScrapeStep(s) \/ ScrapeAgain(s)
      PROVE  PagesInv'
  BY <1>4, ScrapeKeepsPages
<1> QED
  BY <1>1, <1>2, <1>3, <1>4 DEF StatsNext, statsVars

(***************************************************************************)
(* A page rendered while no session was opened or closed adds up, whatever *)
(* the number of secrets, connections and concurrent pages: its two totals *)
(* are the sums of its rows, although they are loaded one after the other  *)
(* and only the rows under mu.                                             *)
(***************************************************************************)
THEOREM StatsQuietPage == StatsSpec => []QuietPageAgrees
<1>1. StatsInit => PagesInv
  BY DEF StatsInit, PagesInv, CallKnown, PageRows, BlankPage
<1>2. StatsInv /\ PagesInv => QuietPageAgrees
  <2> SUFFICES ASSUME StatsInv, PagesInv, NEW s \in Scrapers, page[s].pc = "done", quiet[s]
               PROVE  /\ page[s].active = SumOf(page[s].rowActive, Names)
                      /\ page[s].total = SumOf(page[s].rowTotal, Names)
    BY DEF QuietPageAgrees
  <2>1. PageRows(s) /\ PageFresh(s) /\ page[s] \in Pages
    BY DEF PagesInv, StatsInv, StatsTypeOK
  <2>2. page[s].active = activeConns /\ page[s].total = totalConns
    BY <2>1 DEF PageFresh
  <2>3. page[s].rowActive = secActive /\ page[s].rowTotal = secTotal
    BY <2>1 DEF PageRows, PageFresh, Pages, StatsInv, StatsTypeOK
  <2>4. activeConns = SumOf(secActive, Names) /\ totalConns = SumOf(secTotal, Names)
    BY <2>1, QuietSums DEF PageFresh
  <2> QED
    BY <2>2, <2>3, <2>4
<1> QED
  BY <1>1, <1>2, PagesStep, StatsInvariant, PTL DEF StatsSpec
=============================================================================
