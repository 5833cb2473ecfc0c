------------------------------ MODULE Gateway ------------------------------
(***************************************************************************)
(* The governance of LLM calls (apps/gateway/src/governance.ts), the route *)
(* that applies it (routes/llm.ts), and what the clients see of it         *)
(* (packages/harness/src/gateway/client.ts, tasks/subagent.ts).            *)
(*                                                                         *)
(* Everything the route checks it checks in one go, before it awaits the   *)
(* provider; what a call costs is known and charged when it ends. The      *)
(* client may have stopped waiting by then. All of it is in memory: it     *)
(* starts from nothing when the gateway does.                              *)
(***************************************************************************)
EXTENDS Integers, Sequences, FiniteSets, Functions

CONSTANTS
  User, Task, NoTask,
  Window,       \* the minute of the sliding window, in steps of the clock
  DayLength,    \* a day, in steps of the clock
  PerMin, PerDay,   \* RATE_LIMIT_CHAT_PER_MIN and _PER_DAY
  Budget,       \* BUDGET_DAILY_USD
  Cap,          \* TASK_MAX_TOKENS
  Own,          \* taskBudget.maxTokens of the configuration
  MaxFrames,    \* bound: the frames of an answer
  MaxNow, MaxCalls   \* bounds

ASSUME LimitAssumption ==
  {Window, DayLength, PerMin, PerDay, Budget, Cap} \subseteq Nat \ {0} /\ Own \in Nat
ASSUME BoundAssumption == {MaxFrames, MaxNow, MaxCalls} \subseteq Nat

\* What the providers make of the services' answers.
P == INSTANCE Providers

Day == 0..(MaxNow \div DayLength)

\* No task is named like a day.
ASSUME TaskAssumption == NoTask \notin Task \cup Day /\ Task \cap Day = {}

VARIABLES
  now,
  minuteHits,   \* per user, the hits in the window when it was last looked at
  dayCounts,    \* per user and day
  dayUsage,     \* per day, what its calls cost
  taskTokens,   \* per task
  calls,        \* the calls of this life that reached the provider, in order
  spent,        \* client: what the answers of each task's calls cost
  over,         \* client: the tasks whose executor has thrown
  asked,        \* history: per user, when the calls passed its rates
  crossing      \* history: per ledger, the calls open when it reached its limit

vars == <<now, minuteHits, dayCounts, dayUsage, taskTokens, calls, spent, over, asked, crossing>>
rates == <<minuteHits, dayCounts, asked>>
ledgers == <<dayUsage, taskTokens, crossing>>

Ledger == Day \cup Task
\* An element of a user's array: when it was pushed, and as which one.
Hit == [at : 0..MaxNow, nr : Nat]
\* heard: the client still waits for its answer. said: what it had streamed
\* when it was done, and who counted it.
Call == [task : Task \cup {NoTask}, use : Nat, state : {"open", "done", "failed"},
         heard : BOOLEAN, said : P!Said]

TypeOK ==
  /\ now \in 0..MaxNow
  /\ minuteHits \in [User -> SUBSET Hit] /\ asked \in [User -> Seq(0..MaxNow)]
  /\ dayCounts \in [User -> [Day -> Nat]]
  /\ dayUsage \in [Day -> Nat] /\ taskTokens \in [Task -> Nat]
  /\ calls \in Seq(Call)
  /\ spent \in [Task -> Nat] /\ over \subseteq Task
  /\ crossing \in [Ledger -> SUBSET (1..MaxCalls)]

Zero(S) == [x \in S |-> 0]

\* What a gateway starts with.
Empty(hits, counts, usage, tokens, times, open) ==
  /\ hits = [u \in User |-> {}]
  /\ counts = [u \in User |-> Zero(Day)]
  /\ usage = Zero(Day)
  /\ tokens = Zero(Task)
  /\ times = [u \in User |-> << >>]
  /\ open = [l \in Ledger |-> {}]

Init ==
  /\ now = 0
  /\ Empty(minuteHits, dayCounts, dayUsage, taskTokens, asked, crossing)
  /\ calls = << >>
  /\ spent = [k \in Task |-> 0]
  /\ over = {}

today == now \div DayLength
Open == {i \in DOMAIN calls : calls[i].state = "open"}
-----------------------------------------------------------------------------
(***************************************************************************)
(* The checks, in their order                                              *)
(***************************************************************************)

InWindowShort(t) == now - t >= 0 /\ now - t < Window - 1
InWindow(t) == now - t >= 0 /\ now - t < Window

SlideWindow(u) == {h \in minuteHits[u] : InWindow(h.at)}

\* checkAndCountChat(): a call that is refused is not counted.
RateOK(u) == Cardinality(SlideWindow(u)) < PerMin /\ dayCounts[u][today] < PerDay

CountChat(u) ==
  /\ minuteHits' = [minuteHits EXCEPT ![u] =
                      SlideWindow(u) \cup {[at |-> now, nr |-> Len(asked[u]) + 1]}]
  /\ dayCounts' = [dayCounts EXCEPT ![u][today] = @ + 1]
  /\ asked' = [asked EXCEPT ![u] = Append(@, now)]

CheckDailyBudgetTooLate == dayUsage[today] <= Budget
CheckDailyBudget == dayUsage[today] < Budget

\* The client reports no budget of its own: the cap of the gateway holds.
CheckTaskBudget(k) == k \in Task => taskTokens[k] < Cap

\* A task has one executor, which waits for each of its calls.
MaySend(k) ==
  k \in Task => k \notin over /\ ~\E i \in Open : calls[i].task = k /\ calls[i].heard

Ends(k) == over' = over \cup ({k} \cap Task)

\* A call above its user's rates.
RefusedByRate(u, k) ==
  /\ MaySend(k)
  /\ ~RateOK(u)
  /\ minuteHits' = [minuteHits EXCEPT ![u] = SlideWindow(u)]
  /\ Ends(k)
  /\ UNCHANGED <<now, dayCounts, asked, ledgers, calls, spent>>

\* A call above a budget: its user's rates have counted it all the same.
RefusedByBudget(u, k) ==
  /\ MaySend(k)
  /\ RateOK(u) /\ ~(CheckDailyBudget /\ CheckTaskBudget(k))
  /\ Len(asked[u]) < MaxCalls
  /\ CountChat(u)
  /\ Ends(k)
  /\ UNCHANGED <<now, ledgers, calls, spent>>

Accepted(u, k) ==
  /\ MaySend(k)
  /\ RateOK(u) /\ CheckDailyBudget /\ CheckTaskBudget(k)
  /\ Len(calls) < MaxCalls
  /\ CountChat(u)
  /\ calls' = Append(calls, [task |-> k, use |-> 0, state |-> "open", heard |-> TRUE,
                            said |-> "nothing"])
  /\ UNCHANGED <<now, ledgers, spent, over>>
-----------------------------------------------------------------------------
(***************************************************************************)
(* The provider                                                            *)
(***************************************************************************)

\* Only the companion's own turns are streamed.
Result(k) == P!OnceResults \cup (IF k = NoTask THEN P!StreamResults ELSE {})

\* recordUsage(): whether anybody still listens or not, on the day it ends.
ChargedIfHeard(i, use) == IF calls[i].heard THEN use ELSE 0
Charged(i, use) == use

Reaches(before, after, limit) == before < limit /\ after >= limit

\* The provider is done: the call is charged, then the client is told, and an
\* executor adds it up against its own budget.
Finish(i, result) ==
  /\ i \in Open
  /\ result.end = "done"
  /\ LET k == calls[i].task
         use == result.use
         charge == Charged(i, use)
     IN /\ calls' = [calls EXCEPT ![i].state = "done", ![i].use = use, ![i].heard = FALSE,
                                  ![i].said = result.said]
        /\ dayUsage' = [dayUsage EXCEPT ![today] = @ + charge]
        /\ taskTokens' = IF k = NoTask THEN taskTokens
                         ELSE [taskTokens EXCEPT ![k] = @ + charge]
        /\ crossing' = [l \in Ledger |->
             IF l = today /\ Reaches(dayUsage[l], dayUsage'[l], Budget) THEN Open
             ELSE IF l = k /\ Reaches(taskTokens[l], taskTokens'[l], Cap)
               THEN {j \in Open : calls[j].task = k}
             ELSE crossing[l]]
        /\ IF k # NoTask /\ calls[i].heard
             THEN /\ spent' = [spent EXCEPT ![k] = @ + use]
                  /\ over' = IF spent'[k] > Own THEN over \cup {k} ELSE over
             ELSE UNCHANGED <<spent, over>>
  /\ UNCHANGED <<now, rates>>

\* The provider fails, after part of the answer perhaps: nothing is charged.
Fail(i, result) ==
  /\ i \in Open
  /\ result.end = "error"
  /\ calls' = [calls EXCEPT ![i].state = "failed", ![i].heard = FALSE]
  /\ IF calls[i].heard THEN Ends(calls[i].task) ELSE UNCHANGED over
  /\ UNCHANGED <<now, rates, ledgers, spent>>

\* The client gives up: no first byte in 12 s, or the connection is lost. The
\* gateway goes on.
GiveUp(i) ==
  /\ i \in Open /\ calls[i].heard
  /\ calls' = [calls EXCEPT ![i].heard = FALSE]
  /\ Ends(calls[i].task)
  /\ UNCHANGED <<now, rates, ledgers, spent>>

Tick ==
  /\ now < MaxNow
  /\ now' = now + 1
  /\ UNCHANGED <<rates, ledgers, calls, spent, over>>

\* The gateway starts again: its counters are gone, and so are the calls, whose
\* clients lose their connection.
Restart ==
  /\ calls # << >>
  /\ Empty(minuteHits', dayCounts', dayUsage', taskTokens', asked', crossing')
  /\ calls' = << >>
  /\ over' = over \cup ({calls[i].task : i \in {j \in Open : calls[j].heard}} \cap Task)
  /\ UNCHANGED <<now, spent>>

Next ==
  \/ \E u \in User, k \in Task \cup {NoTask} :
       RefusedByRate(u, k) \/ RefusedByBudget(u, k) \/ Accepted(u, k)
  \/ \E i \in DOMAIN calls :
       \/ \E result \in Result(calls[i].task) : Finish(i, result) \/ Fail(i, result)
       \/ GiveUp(i)
  \/ Tick
  \/ Restart

Spec == Init /\ [][Next]_vars
-----------------------------------------------------------------------------
(***************************************************************************)
(* Properties                                                              *)
(***************************************************************************)

\* Within one life of the gateway, and however the window slides, over
\* midnight too: no user gets more calls through than PerMin in any Window,
\* nor more than PerDay in a day. The code keeps only what was in the window
\* when it looked last.
RatesHold ==
  \A u \in User :
    LET n == Len(asked[u]) IN
    /\ \A i \in 1..n : i + PerMin <= n => asked[u][i + PerMin] - asked[u][i] >= Window
    /\ \A d \in Day : Cardinality({i \in 1..n : asked[u][i] \div DayLength = d}) <= PerDay

Uses == [i \in DOMAIN calls |-> calls[i].use]
Cost(S) == SumFunctionOnSet(Uses, S)

\* A budget is looked at before a call and charged after it, so it may be
\* overdrawn: by no more than the calls open when it was reached cost, those
\* of the day before included. For a task that is one call.
Overshoot ==
  /\ \A d \in Day : dayUsage[d] < Budget + Cost(crossing[d])
  /\ \A k \in Task :
       /\ taskTokens[k] < Cap + Cost(crossing[k])
       /\ Cardinality(crossing[k]) <= 1

\* The ledgers miss nothing and count nothing twice: what the days were charged
\* is what the calls of this life cost, answered or given up, and what a task
\* was charged is what its calls cost.
LedgersAgree ==
  LET done == {i \in DOMAIN calls : calls[i].state = "done"} IN
  /\ SumFunction(dayUsage) = Cost(done)
  /\ \A k \in Task : taskTokens[k] = Cost({i \in done : calls[i].task = k})

\* No answer streamed to its end by a service like OpenAI's or by the mock is free
\* once it said something: whether the service reports what it used or not, in
\* whatever order and of whatever part of the answer.
NothingFree == \A i \in DOMAIN calls : calls[i].said = "counted" => calls[i].use > 0

\* The same of every provider: what SPEC-GAPS.md (G8) says of providers/*, that
\* streamed text is estimated at two characters a token. The provider for
\* Anthropic takes what is not reported for nothing, so a service that speaks like
\* Anthropic's and reports no usage is within every budget for ever.
NoStreamIsFree == \A i \in DOMAIN calls : calls[i].said # "nothing" => calls[i].use > 0
=============================================================================
