---------------------------- MODULE JaegerSampler ----------------------------
(***************************************************************************)
(* opentelemetry-go-contrib/samplers/jaegerremote: a sampler that polls a  *)
(* server for its strategy, and that can be told to fetch it at once.  An  *)
(* update changes the sampler in place where its kind stays the same, so   *)
(* that the credits of its rate limiters outlive it.                       *)
(*                                                                         *)
(* Time is in whole seconds; rates of traces and credits are in half       *)
(* traces, in which the balances that updates scale stay whole.  Sampling  *)
(* probabilities are in halves.  What a probability decides of a trace     *)
(* changes no state and is left out.                                       *)
(***************************************************************************)
EXTENDS Integers, FiniteSets, FiniteSetsExt

CONSTANTS
    Requests,       \* threads that call ShouldSample again and again
    Operations,     \* span names
    MaxOperations,
    Strategies,     \* what the server may answer: sets of parts, one of a kind
    MaxTime, MaxFetches     \* bounds: the clock, and answers of the server

Updaters == {"poller", "manual"}    \* pollController, and a call of UpdateSampler
All == "all"                        \* stands for the limiter of a rateLimitingSampler

VARIABLES
    now,
    sampler,    \* Sampler.sampler
    at,         \* where each request is: it holds the read lock unless "out"
    op,         \* its operation, or All where there is none
    updateAt,   \* where each updater is
    answer,     \* the strategy it has fetched
    fetches,
    closeAt,    \* where Close is
    inForce,    \* history: the strategy applied last
    made,       \* history: limiters made for each operation
    granted     \* history: credits they gave

jaegerVars == <<now, sampler, at, op, updateAt, answer, fetches, closeAt,
                inForce, made, granted>>

-----------------------------------------------------------------------------
(* Credits: internal/utils/rate_limiter.go.                                *)

Cost == 2

Ceiling(rate) == IF rate > Cost THEN rate ELSE Cost

NewLimiter(rate) == [rate |-> rate, balance |-> Ceiling(rate), lastTick |-> now]

UpdateBalance(l) ==
    [l EXCEPT !.lastTick = now,
              !.balance = Min({@ + (now - l.lastTick) * l.rate, Ceiling(l.rate)})]

\* Fault: the new rate starts with a full balance.
UpdateRefilled(l, rate) == IF rate = l.rate THEN l ELSE NewLimiter(rate)

\* The balance is kept, in proportion to the new maximum.
UpdateLimiter(l, rate) ==
    IF rate = l.rate THEN l
    ELSE LET u == UpdateBalance(l) IN
         [u EXCEPT !.rate = rate, !.balance = (@ * Ceiling(rate)) \div Ceiling(l.rate)]

-----------------------------------------------------------------------------
(* Samplers.                                                               *)

\* Fault: a probability above one is kept.
Unclamped(p) == p

Clamp(p) == IF p > 2 THEN 2 ELSE p

Probabilistic(p) == [kind |-> "probabilistic", rate |-> Clamp(p)]

Init ==
    /\ now = 0
    /\ sampler = Probabilistic(0)
    /\ at = [r \in Requests |-> "out"]
    /\ op = [r \in Requests |-> All]
    /\ updateAt = [u \in Updaters |-> IF u = "poller" THEN "fetch" ELSE "idle"]
    /\ answer = [u \in Updaters |-> {}]
    /\ fetches = 0
    /\ closeAt = "open"
    /\ inForce = {}
    /\ made = [k \in Operations \cup {All} |-> 0]
    /\ granted = [k \in Operations \cup {All} |-> 0]

Tick ==
    /\ now < MaxTime
    /\ now' = now + 1
    /\ UNCHANGED <<sampler, at, op, updateAt, answer, fetches, closeAt, inForce, made, granted>>

PerOperation == sampler.kind = "perOperation"

\* The samplers of the operations an old sampler knows.
Known == IF PerOperation THEN sampler.samplers ELSE [o \in {} |-> 0]

\* Fault: operations that the strategy does not name are kept as they are.
OperationsKept(p) ==
    [kind |-> "perOperation", lowerBound |-> p.lowerBound, default |-> Clamp(p.default),
     samplers |-> [o \in DOMAIN p.rates \cup DOMAIN Known |->
         IF o \notin DOMAIN p.rates THEN Known[o]
         ELSE [rate |-> Clamp(p.rates[o]),
               limiter |-> IF o \in DOMAIN Known
                           THEN UpdateLimiter(Known[o].limiter, p.lowerBound)
                           ELSE NewLimiter(p.lowerBound)]]]

\* newPerOperationSampler, or update: operations the strategy does not name
\* are forgotten.
Operated(p) ==
    [kind |-> "perOperation", lowerBound |-> p.lowerBound, default |-> Clamp(p.default),
     samplers |-> [o \in DOMAIN p.rates |->
         [rate |-> Clamp(p.rates[o]),
          limiter |-> IF o \in DOMAIN Known
                      THEN UpdateLimiter(Known[o].limiter, p.lowerBound)
                      ELSE NewLimiter(p.lowerBound)]]]

Limited(p) ==
    [kind |-> "rateLimiting",
     limiter |-> IF sampler.kind = "rateLimiting" THEN UpdateLimiter(sampler.limiter, p.limit)
                                                  ELSE NewLimiter(p.limit)]

\* The part of a strategy that counts: the first updater that finds its own.
Ruling(s) ==
    CHOOSE p \in s : \A q \in s \ {p} : p.kind = "perOperation" \/ q.kind = "rateLimiting"

Updated(p) ==
    CASE p.kind = "perOperation"  -> Operated(p)
      [] p.kind = "probabilistic" -> Probabilistic(p.rate)
      [] p.kind = "rateLimiting"  -> Limited(p)

\* A rate that a new probabilistic sampler would clamp is an error for an old
\* one; a strategy of no known kind is an error.
Refused(s) ==
    \/ s = {}
    \/ sampler.kind = "probabilistic" /\ Ruling(s).kind = "probabilistic" /\ Ruling(s).rate > 2

\* The limiters of a sampler.
Keys(sam) == CASE sam.kind = "perOperation" -> DOMAIN sam.samplers
               [] sam.kind = "rateLimiting" -> {All}
               [] OTHER                     -> {}

-----------------------------------------------------------------------------
(* ShouldSample.                                                           *)

requestVars == <<now, updateAt, answer, fetches, closeAt, inForce>>

\* The read lock is not given while an updater waits for the lock.
Begin(r) ==
    /\ at[r] = "out"
    /\ \A u \in Updaters : updateAt[u] # "lock"
    /\ \E o \in Operations : op' = [op EXCEPT ![r] = o]
    /\ at' = [at EXCEPT ![r] = IF PerOperation /\ op'[r] \notin DOMAIN sampler.samplers
                               THEN "missed" ELSE "found"]
    /\ UNCHANGED <<requestVars, sampler, made, granted>>

\* Fault: the limit of operations is not looked at again under the lock.
MakeAnyway(r) ==
    /\ at[r] = "missed"
    /\ at' = [at EXCEPT ![r] = "found"]
    /\ IF op[r] \in DOMAIN sampler.samplers
       THEN UNCHANGED <<sampler, made>>
       ELSE /\ sampler' = [sampler EXCEPT !.samplers =
                   [o \in DOMAIN @ \cup {op[r]} |->
                       IF o \in DOMAIN @ THEN @[o]
                       ELSE [rate |-> sampler.default, limiter |-> NewLimiter(sampler.lowerBound)]]]
            /\ made' = [made EXCEPT ![op[r]] = @ + 1]
    /\ UNCHANGED <<requestVars, op, granted>>

\* getSamplerForOperation, under the lock: another request may have been here
\* first; with MaxOperations known, the default sampler decides.
Make(r) ==
    /\ at[r] = "missed"
    /\ IF op[r] \in DOMAIN sampler.samplers
       THEN at' = [at EXCEPT ![r] = "found"] /\ UNCHANGED <<sampler, made>>
       ELSE IF Cardinality(DOMAIN sampler.samplers) >= MaxOperations
       THEN at' = [at EXCEPT ![r] = "out"] /\ UNCHANGED <<sampler, made>>
       ELSE /\ at' = [at EXCEPT ![r] = "found"]
            /\ sampler' = [sampler EXCEPT !.samplers =
                   [o \in DOMAIN @ \cup {op[r]} |->
                       IF o \in DOMAIN @ THEN @[o]
                       ELSE [rate |-> sampler.default, limiter |-> NewLimiter(sampler.lowerBound)]]]
            /\ made' = [made EXCEPT ![op[r]] = @ + 1]
    /\ op' = IF at'[r] = "out" THEN [op EXCEPT ![r] = All] ELSE op
    /\ UNCHANGED <<requestVars, granted>>

\* CheckCredit.
Checked(l) ==
    LET u == IF l.balance >= Cost THEN l ELSE UpdateBalance(l)
    IN  [enough |-> u.balance >= Cost,
         limiter |-> IF u.balance >= Cost THEN [u EXCEPT !.balance = @ - Cost] ELSE u]

\* The limiter is asked whatever the probability has decided.
Decide(r) ==
    LET k == IF PerOperation THEN op[r] ELSE All
        c == Checked(IF PerOperation THEN sampler.samplers[k].limiter ELSE sampler.limiter)
    IN  /\ at[r] = "found"
        /\ at' = [at EXCEPT ![r] = "out"]
        /\ IF sampler.kind = "probabilistic" THEN UNCHANGED <<sampler, granted>>
           ELSE /\ sampler' = IF PerOperation
                              THEN [sampler EXCEPT !.samplers[k].limiter = c.limiter]
                              ELSE [sampler EXCEPT !.limiter = c.limiter]
                /\ granted' = IF c.enough THEN [granted EXCEPT ![k] = @ + 1] ELSE granted
        /\ op' = [op EXCEPT ![r] = All]
        /\ UNCHANGED <<requestVars, made>>

Request(r) == Make(r) \/ Decide(r)

-----------------------------------------------------------------------------
(* UpdateSampler, pollController and Close.                                *)

UpdateGoto(u, from, to) ==
    /\ updateAt[u] = from
    /\ updateAt' = [updateAt EXCEPT ![u] = to]
    /\ UNCHANGED <<now, at, op>>

\* The ticker, or the call.
StartUpdate(u) ==
    /\ UpdateGoto(u, "idle", "fetch")
    /\ UNCHANGED <<sampler, answer, fetches, closeAt, inForce, made, granted>>

\* Once MaxFetches answers have been given, the server fails.
FetchFails(u) ==
    /\ UpdateGoto(u, "fetch", "idle")
    /\ UNCHANGED <<sampler, answer, fetches, closeAt, inForce, made, granted>>

Fetched(u) ==
    /\ fetches < MaxFetches
    /\ UpdateGoto(u, "fetch", "lock")
    /\ \E s \in Strategies : answer' = [answer EXCEPT ![u] = s]
    /\ fetches' = fetches + 1
    /\ UNCHANGED <<sampler, closeAt, inForce, made, granted>>

Apply(u) ==
    /\ UpdateGoto(u, "lock", "idle")
    /\ \A r \in Requests : at[r] = "out"
    /\ IF Refused(answer[u])
       THEN UNCHANGED <<sampler, inForce, made>>
       ELSE /\ sampler' = Updated(Ruling(answer[u]))
            /\ inForce' = answer[u]
            /\ made' = [k \in DOMAIN made |->
                   IF k \in Keys(sampler') \ (IF sampler.kind = sampler'.kind THEN Keys(sampler) ELSE {})
                   THEN made[k] + 1 ELSE made[k]]
    /\ answer' = [answer EXCEPT ![u] = {}]
    /\ UNCHANGED <<fetches, closeAt, granted>>

\* The first Close; another one returns at once.
Close ==
    /\ closeAt = "open"
    /\ closeAt' = "sending"
    /\ UNCHANGED <<now, sampler, at, op, updateAt, answer, fetches, inForce, made, granted>>

\* Fault: the poller does not tell Close that it has ended.
StopSilently ==
    /\ closeAt = "sending"
    /\ UpdateGoto("poller", "idle", "stopped")
    /\ closeAt' = "waiting"
    /\ UNCHANGED <<sampler, answer, fetches, inForce, made, granted>>

\* doneChan has no buffer: it is received from between two updates.
Stop ==
    /\ closeAt = "sending"
    /\ UpdateGoto("poller", "idle", "stopped")
    /\ closeAt' = "returned"
    /\ UNCHANGED <<sampler, answer, fetches, inForce, made, granted>>

Update(u) == FetchFails(u) \/ Fetched(u) \/ Apply(u)

Next ==
    \/ Tick
    \/ \E r \in Requests : Begin(r) \/ Request(r)
    \/ \E u \in Updaters : StartUpdate(u) \/ Update(u)
    \/ Close
    \/ Stop

(***************************************************************************)
(* Threads run on, and a fetch ends one way or the other.  The ticker may  *)
(* be ready whenever doneChan is: select takes each of them in the end.    *)
(***************************************************************************)
Fairness ==
    /\ \A r \in Requests : WF_<<at, sampler, made, granted>>(Request(r))
    /\ \A u \in Updaters : WF_<<updateAt, answer, fetches, sampler, inForce, made>>(Update(u))
    /\ SF_<<updateAt, closeAt>>(Stop)

Spec == Init /\ [][Next]_jaegerVars /\ Fairness

-----------------------------------------------------------------------------
(* Properties. *)

Limiters == [rate : Nat, balance : Nat, lastTick : 0..MaxTime]

JaegerTypeOK ==
    /\ now \in 0..MaxTime
    /\ CASE PerOperation ->
                /\ DOMAIN sampler.samplers \subseteq Operations
                /\ \A o \in DOMAIN sampler.samplers :
                       sampler.samplers[o] \in [rate : 0..2, limiter : Limiters]
         [] sampler.kind = "rateLimiting"  -> sampler.limiter \in Limiters
         [] sampler.kind = "probabilistic" -> sampler.rate \in 0..2
    /\ at \in [Requests -> {"out", "missed", "found"}]
    /\ op \in [Requests -> Operations \cup {All}]
    /\ updateAt \in [Updaters -> {"idle", "fetch", "lock", "stopped"}]
    /\ closeAt \in {"open", "sending", "waiting", "returned"}

(***************************************************************************)
(* A sampler that has been updated in place has the rates of one made anew *)
(* for the strategy in force, down to operations requests have made known  *)
(* in between, whose rates are the defaults (sampler.go, lines 310-334).   *)
(***************************************************************************)
UpdatedLikeNew ==
    inForce # {} =>
        LET p == Ruling(inForce) IN
        CASE p.kind = "perOperation" ->
                 /\ DOMAIN p.rates \subseteq DOMAIN sampler.samplers
                 /\ \A o \in DOMAIN sampler.samplers :
                        /\ sampler.samplers[o].limiter.rate = p.lowerBound
                        /\ sampler.samplers[o].rate =
                               Clamp(IF o \in DOMAIN p.rates THEN p.rates[o] ELSE p.default)
          [] p.kind = "probabilistic" -> sampler = Probabilistic(p.rate)
          [] p.kind = "rateLimiting"  -> sampler.limiter.rate = p.limit

(***************************************************************************)
(* Requests make no more operations known than "the maximum number of      *)
(* operations the sampler will keep track of" (sampler_remote_options.go,  *)
(* lines 95-96), although they look before they lock; a strategy may name  *)
(* more than that by itself.                                               *)
(***************************************************************************)
OperationsBounded ==
    PerOperation =>
        Cardinality(DOMAIN sampler.samplers)
            <= Max({MaxOperations, Cardinality(DOMAIN Ruling(inForce).rates)})

HighestRate == Max({Cost}
                   \cup {Ceiling(p.lowerBound) : p \in {q \in UNION Strategies : q.kind = "perOperation"}}
                   \cup {Ceiling(p.limit) : p \in {q \in UNION Strategies : q.kind = "rateLimiting"}})

(***************************************************************************)
(* However often the strategy changes, a limiter gives no more traces than *)
(* the time since it was made and one full balance allow: an update of its *)
(* rate gives none away, "to avoid thundering herd" (rate_limiter.go,      *)
(* lines 94-106).  What a limiter made anew gives is bounded by how often  *)
(* that happens: at every update for an operation no strategy names.       *)
(***************************************************************************)
GrantsWithinTime ==
    \A k \in DOMAIN granted : granted[k] * Cost <= HighestRate * (now + made[k])

\* Close returns, for every fetch ends (sampler_remote.go, lines 105-140).
CloseReturns == closeAt = "sending" ~> closeAt = "returned"

(***************************************************************************)
(* A sampler that is updated in place acts as its last strategy says,      *)
(* within its bounds (sampler.go and sampler_remote.go as above).          *)
(***************************************************************************)
JaegerSound == JaegerTypeOK /\ UpdatedLikeNew /\ OperationsBounded /\ GrantsWithinTime

=============================================================================
