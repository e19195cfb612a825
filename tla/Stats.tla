------------------------------- MODULE Stats -------------------------------
(***************************************************************************)
(* The statistics component, stats/stats.go: global counters updated with  *)
(* sync/atomic, one record of counters per secret name in a map guarded by *)
(* the mutex mu, and the HTTP page that reads all of them.                 *)
(*                                                                         *)
(* Each atomic operation of the code is a step of its own.  ConnOpen,      *)
(* ConnClose and handleStats are therefore sequences of steps: call[c]     *)
(* names the step connection c executes next, page[s].pc the one scrape s  *)
(* executes next.  The critical section of secretStats() (Lock, lookup,    *)
(* Unlock) touches nothing but the map and is one step; the page holds mu  *)
(* over a whole loop of loads, which are separate steps.                   *)
(*                                                                         *)
(* The module is used alone (StatsSpec: any connection may be opened and   *)
(* closed at any time) and by Server, which decides when each call starts. *)
(***************************************************************************)
EXTENDS Integers, FiniteSets

CONSTANTS
  Conns,      \* connections: each is opened at most once and closed at most once
  Names,      \* Secret.Name of the configured secrets
  Scrapers,   \* concurrent GET /stats requests
  MaxBytes,   \* bound: the largest amount one AddBytesIn/AddBytesOut call reports
  None        \* "nobody" / "no name"

ASSUME StatsAssumption ==
  /\ IsFiniteSet(Conns)
  /\ MaxBytes \in Nat
  /\ None \notin Names \cup Scrapers

VARIABLES
  activeConns, totalConns,   \* Stats.activeConns, Stats.totalConns
  bytesIn, bytesOut,         \* Stats.bytesIn, Stats.bytesOut
  known,                     \* the keys of Stats.perSecret
  secActive, secTotal,       \* the two counters of each perSecret entry
  mu,                        \* the scrape that holds Stats.mu, or None
  call,                      \* the next step of ConnOpen/ConnClose of each connection
  nameOf,                    \* the secretName argument of these calls
  added,                     \* which of AddBytesIn/AddBytesOut a connection has called
  page,                      \* the /stats page each scrape is rendering
  quiet                      \* history: no ConnOpen/ConnClose ran during the scrape

statsVars == <<activeConns, totalConns, bytesIn, bytesOut, known, secActive,
               secTotal, mu, call, nameOf, added, page, quiet>>

CallSteps == {"none", "incTotal", "lookOpen", "incSecActive", "incSecTotal",
              "open", "lookClose", "decSecActive", "closed"}

\* A connection that is executing ConnOpen or ConnClose.
InCall(c) == call[c] \notin {"none", "open", "closed"}

BlankPage == [pc |-> "idle", active |-> 0, total |-> 0, todo |-> {}, row |-> None,
              rowActive |-> [n \in Names |-> 0], rowTotal |-> [n \in Names |-> 0]]

StatsInit ==
  /\ activeConns = 0 /\ totalConns = 0
  /\ bytesIn = 0 /\ bytesOut = 0
  /\ known = {}
  /\ secActive = [n \in Names |-> 0]
  /\ secTotal = [n \in Names |-> 0]
  /\ mu = None
  /\ call = [c \in Conns |-> "none"]
  /\ nameOf = [c \in Conns |-> None]
  /\ added = [c \in Conns |-> {}]
  /\ page = [s \in Scrapers |-> BlankPage]
  /\ quiet = [s \in Scrapers |-> FALSE]

-----------------------------------------------------------------------------
(* ConnOpen(secretName) and ConnClose(secretName) of connection c. *)

CallStep(c, from, to) ==
  /\ call[c] = from
  /\ call' = [call EXCEPT ![c] = to]
  /\ quiet' = [s \in Scrapers |-> FALSE]
  /\ UNCHANGED <<bytesIn, bytesOut, added, mu, page>>

\* Mutant: secretStats makes a new entry for a name that has one.
LookupStep_NewEntry(c, from, to) ==
  /\ mu = None
  /\ CallStep(c, from, to)
  /\ known' = known \cup {nameOf[c]}
  /\ secActive' = [secActive EXCEPT ![nameOf[c]] = 0]
  /\ secTotal' = [secTotal EXCEPT ![nameOf[c]] = 0]
  /\ UNCHANGED <<activeConns, totalConns, nameOf>>

\* s.mu.Lock(); ss := s.secretStats(name); s.mu.Unlock()
LookupStep(c, from, to) ==
  /\ mu = None
  /\ CallStep(c, from, to)
  /\ known' = known \cup {nameOf[c]}
  /\ UNCHANGED <<activeConns, totalConns, secActive, secTotal, nameOf>>

ConnOpenActive(c, n) ==
  /\ CallStep(c, "none", "incTotal")
  /\ activeConns' = activeConns + 1
  /\ nameOf' = [nameOf EXCEPT ![c] = n]
  /\ UNCHANGED <<totalConns, known, secActive, secTotal>>

ConnOpenTotal(c) ==
  /\ CallStep(c, "incTotal", "lookOpen")
  /\ totalConns' = totalConns + 1
  /\ UNCHANGED <<activeConns, known, secActive, secTotal, nameOf>>

ConnOpenLookup(c) == LookupStep(c, "lookOpen", "incSecActive")

ConnOpenSecActive(c) ==
  /\ CallStep(c, "incSecActive", "incSecTotal")
  /\ secActive' = [secActive EXCEPT ![nameOf[c]] = @ + 1]
  /\ UNCHANGED <<activeConns, totalConns, known, secTotal, nameOf>>

ConnOpenSecTotal(c) ==
  /\ CallStep(c, "incSecTotal", "open")
  /\ secTotal' = [secTotal EXCEPT ![nameOf[c]] = @ + 1]
  /\ UNCHANGED <<activeConns, totalConns, known, secActive, nameOf>>

ConnCloseActive(c) ==
  /\ CallStep(c, "open", "lookClose")
  /\ activeConns' = activeConns - 1
  /\ UNCHANGED <<totalConns, known, secActive, secTotal, nameOf>>

ConnCloseLookup(c) == LookupStep(c, "lookClose", "decSecActive")

ConnCloseSecActive(c) ==
  /\ CallStep(c, "decSecActive", "closed")
  /\ secActive' = [secActive EXCEPT ![nameOf[c]] = @ - 1]
  /\ UNCHANGED <<activeConns, totalConns, known, secTotal, nameOf>>

-----------------------------------------------------------------------------
(* The byte counters.  Each relay goroutine of a connection reports once,  *)
(* at a moment of its own, before or after the connection is closed:       *)
(* MayReport is what Stats expects of its callers, not a check it makes.   *)

MayReport(c, dir) ==
  /\ call[c] \in {"open", "lookClose", "decSecActive", "closed"}
  /\ dir \notin added[c]

Report(c, dir) ==
  /\ added' = [added EXCEPT ![c] = @ \cup {dir}]
  /\ UNCHANGED <<activeConns, totalConns, known, secActive, secTotal, mu, call,
                 nameOf, page, quiet>>

AddBytesIn(c, k) == Report(c, "in") /\ bytesIn' = bytesIn + k /\ UNCHANGED bytesOut
AddBytesOut(c, k) == Report(c, "out") /\ bytesOut' = bytesOut + k /\ UNCHANGED bytesIn

-----------------------------------------------------------------------------
(* handleStats: the loads of one page.  The loads of bytesIn and bytesOut  *)
(* are left out: they change nothing and no property is about their value. *)

CountersUnchanged ==
  UNCHANGED <<activeConns, totalConns, bytesIn, bytesOut, known, secActive,
              secTotal, call, nameOf, added>>

ScrapeActive(s) ==
  /\ page[s].pc = "idle"
  /\ page' = [page EXCEPT ![s] = [BlankPage EXCEPT !.pc = "total", !.active = activeConns]]
  /\ quiet' = [quiet EXCEPT ![s] = \A c \in Conns : ~InCall(c)]
  /\ UNCHANGED mu /\ CountersUnchanged

ScrapeTotal(s) ==
  /\ page[s].pc = "total"
  /\ page' = [page EXCEPT ![s] = [@ EXCEPT !.pc = "lock", !.total = totalConns]]
  /\ UNCHANGED <<mu, quiet>> /\ CountersUnchanged

ScrapeLock(s) ==
  /\ page[s].pc = "lock"
  /\ mu = None
  /\ mu' = s
  /\ page' = [page EXCEPT ![s] = [@ EXCEPT !.pc = "rows", !.todo = known]]
  /\ UNCHANGED quiet /\ CountersUnchanged

\* for name, ss := range s.perSecret: Go visits the keys in any order.
ScrapeRowActive(s, n) ==
  /\ page[s].pc = "rows" /\ page[s].row = None
  /\ n \in page[s].todo
  /\ page' = [page EXCEPT ![s] = [@ EXCEPT !.row = n, !.rowActive[n] = secActive[n]]]
  /\ UNCHANGED <<mu, quiet>> /\ CountersUnchanged

ScrapeRowTotal(s) ==
  /\ page[s].pc = "rows" /\ page[s].row # None
  /\ LET n == page[s].row IN
       page' = [page EXCEPT ![s] = [@ EXCEPT !.row = None, !.rowTotal[n] = secTotal[n],
                                             !.todo = page[s].todo \ {n}]]
  /\ UNCHANGED <<mu, quiet>> /\ CountersUnchanged

\* Mutant: the page ends after any row.
ScrapeUnlock_Early(s) ==
  /\ page[s].pc = "rows" /\ page[s].row = None
  /\ mu' = None
  /\ page' = [page EXCEPT ![s].pc = "done"]
  /\ UNCHANGED quiet /\ CountersUnchanged

\* Mutant: the deferred Unlock is missing.
ScrapeUnlock_Forgets(s) ==
  /\ page[s].pc = "rows" /\ page[s].row = None /\ page[s].todo = {}
  /\ page' = [page EXCEPT ![s].pc = "done"]
  /\ UNCHANGED <<mu, quiet>> /\ CountersUnchanged

\* defer s.mu.Unlock(): the page is complete.
ScrapeUnlock(s) ==
  /\ page[s].pc = "rows" /\ page[s].row = None /\ page[s].todo = {}
  /\ mu' = None
  /\ page' = [page EXCEPT ![s].pc = "done"]
  /\ UNCHANGED quiet /\ CountersUnchanged

\* The next request to /stats served by the same goroutine starts over.
ScrapeAgain(s) ==
  /\ page[s].pc = "done"
  /\ page' = [page EXCEPT ![s] = BlankPage]
  /\ UNCHANGED <<mu, quiet>> /\ CountersUnchanged

ScrapeStep(s) ==
  \/ ScrapeTotal(s) \/ ScrapeLock(s)
  \/ \E n \in Names : ScrapeRowActive(s, n)
  \/ ScrapeRowTotal(s) \/ ScrapeUnlock(s)

-----------------------------------------------------------------------------
\* The steps of a call that has begun; lookups are apart, they wait for mu.
CallRuns(c) ==
  \/ ConnOpenTotal(c) \/ ConnOpenSecActive(c) \/ ConnOpenSecTotal(c)
  \/ ConnCloseSecActive(c)

CallLookup(c) == ConnOpenLookup(c) \/ ConnCloseLookup(c)

StatsNext ==
  \/ \E c \in Conns :
       \/ \E n \in Names : ConnOpenActive(c, n)
       \/ ConnCloseActive(c)
       \/ CallRuns(c) \/ CallLookup(c)
       \/ \E k \in 0 .. MaxBytes :
            \/ MayReport(c, "in") /\ AddBytesIn(c, k)
            \/ MayReport(c, "out") /\ AddBytesOut(c, k)
  \/ \E s \in Scrapers : ScrapeActive(s) \/ ScrapeStep(s) \/ ScrapeAgain(s)

StatsSpec == StatsInit /\ [][StatsNext]_statsVars

(***************************************************************************)
(* Go schedules every runnable goroutine, and sync.Mutex hands the lock to *)
(* a goroutine that has waited for 1ms (starvation mode), so a lookup that *)
(* finds mu free again and again is eventually granted it.  A page that    *)
(* has been started goes on: its rows are written to the buffer of the     *)
(* response, on the assumption that the HTTP client reads it.              *)
(***************************************************************************)
StatsFairness ==
  /\ \A c \in Conns : WF_statsVars(CallRuns(c)) /\ SF_statsVars(CallLookup(c))
  /\ \A s \in Scrapers : WF_statsVars(ScrapeStep(s)) /\ SF_statsVars(ScrapeLock(s))

FairStatsSpec == StatsSpec /\ StatsFairness

-----------------------------------------------------------------------------
Pages == [pc : {"idle", "total", "lock", "rows", "done"}, active : Int, total : Int,
          todo : SUBSET Names, row : Names \cup {None},
          rowActive : [Names -> Int], rowTotal : [Names -> Int]]

\* The variables keep their types: the type invariant of the component.
StatsTypeOK ==
  /\ activeConns \in Int /\ totalConns \in Int
  /\ bytesIn \in Int /\ bytesOut \in Int
  /\ known \subseteq Names
  /\ secActive \in [Names -> Int] /\ secTotal \in [Names -> Int]
  /\ mu \in Scrapers \cup {None}
  /\ call \in [Conns -> CallSteps]
  /\ nameOf \in [Conns -> Names \cup {None}]
  /\ added \in [Conns -> SUBSET {"in", "out"}]
  /\ page \in [Scrapers -> Pages]
  /\ quiet \in [Scrapers -> BOOLEAN]

\* The connections whose ConnOpen/ConnClose stands at one of the given steps.
At(steps) == {c \in Conns : call[c] \in steps}
AtFor(n, steps) == {c \in At(steps) : nameOf[c] = n}

CountedActive == {"incTotal", "lookOpen", "incSecActive", "incSecTotal", "open"}
CountedTotal == CallSteps \ {"none", "incTotal"}
CountedSecActive == {"incSecTotal", "open", "lookClose", "decSecActive"}
CountedSecTotal == {"open", "lookClose", "decSecActive", "closed"}

(***************************************************************************)
(* However the atomic additions of concurrent calls interleave, every      *)
(* counter is the number of connections that stand between the addition    *)
(* and the subtraction of that counter: no update is lost or made twice,   *)
(* none is made on another secret's entry, no counter goes below zero, and *)
(* all of them return to the same value when no call is running.           *)
(***************************************************************************)
CountersExact ==
  /\ activeConns = Cardinality(At(CountedActive))
  /\ totalConns = Cardinality(At(CountedTotal))
  /\ \A n \in Names :
       /\ secActive[n] = Cardinality(AtFor(n, CountedSecActive))
       /\ secTotal[n] = Cardinality(AtFor(n, CountedSecTotal))

\* The sum of f[x] over S, for a function into Nat: how many units make it up.
Units(f, S) == UNION {{x} \X (1 .. f[x]) : x \in S}
SumOf(f, S) == Cardinality(Units(f, S))

(***************************************************************************)
(* A page rendered while no ConnOpen or ConnClose was running adds up: the *)
(* rows of the secrets, read later and under mu, sum to the two totals at  *)
(* the top, read before and without it.                                    *)
(***************************************************************************)
QuietPageAgrees ==
  \A s \in Scrapers :
    page[s].pc = "done" /\ quiet[s] =>
      /\ page[s].active = SumOf(page[s].rowActive, Names)
      /\ page[s].total = SumOf(page[s].rowTotal, Names)

(***************************************************************************)
(* Every ConnOpen and ConnClose returns: a connection that has to take mu  *)
(* is not blocked forever by pages being rendered, one after the other.    *)
(***************************************************************************)
CallsReturn ==
  \A c \in Conns : InCall(c) ~> ~InCall(c)
=============================================================================
