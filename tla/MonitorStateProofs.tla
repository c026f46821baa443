------------------------- MODULE MonitorStateProofs -------------------------
(***************************************************************************)
(* What the monitor says of the collector (LiveState, service.py) and what *)
(* its panel says of the settings (AdminConfig, admin.py), proved for      *)
(* every number of coroutines and requests, every interval, timeout,       *)
(* threshold and difference of the clocks.                                 *)
(*                                                                         *)
(* The two parts share no variable, and a step is a step of one of them    *)
(* (StateStepIsBoth), so each has its invariant.  That of LiveState says   *)
(* how old everything is that a state is computed from: OnlineInv compares *)
(* a good reading with the last good poll of the collector, OutageInv and  *)
(* ContactInv an answer with the outage, and WellInv an answer with the    *)
(* time the collector has been well.  The last three rest on a number that *)
(* every tick makes smaller (TicksGoBy): the ticks until the loop has an   *)
(* answer, or a refusal, at the latest.  That a moment lies n ticks back   *)
(* and the outcome m ticks ahead, with n + m within a limit, is kept by    *)
(* every tick, and the outcome itself ends it.  That of AdminConfig says   *)
(* of each request what it has read of the stored settings and what it is  *)
(* about to write.                                                         *)
(***************************************************************************)
EXTENDS MCMonitorState, TLAPS

\* A fetch of a coroutine, as far as it is, and what is counted.
Stages == {"idle", "asking", "answered", "refused"}

Fetches == [stage : Stages, wait : 0..Timeout, ok : BOOLEAN, age : 0..Old]

Pasts ==
    [link : 0..Old, out : 0..OfflineAfter, well : 0..Cycle + 1,
     running : 0..Cycle + 1, sinceOk : 0..StaleAfter + Skew, held : BOOLEAN]

\* A coroutine without a fetch has the empty one.
FlightInv ==
    /\ flight \in [Tasks -> Fetches]
    /\ \A t \in Tasks : flight[t].stage = "idle" => flight[t] = Idle

\* The rest of the state: a contact that can be dated was one.
PlainInv ==
    /\ up \in BOOLEAN /\ paused \in BOOLEAN /\ contacted \in BOOLEAN /\ failed \in BOOLEAN
    /\ sample \in [ok : BOOLEAN, age : 0..Old] /\ shown \in [ok : BOOLEAN, age : 0..Old]
    /\ due \in 0..Gap /\ contact \in 0..Old /\ events \in 0..MaxEvents
    /\ (contact < Old => contacted)

LiveTypeInv == FlightInv /\ PlainInv /\ past \in Pasts /\ (paused => past.running = 0)

-----------------------------------------------------------------------------

\* The bounds are numbers, and in order.
LEMMA LiveBounds ==
    /\ Gap \in Nat /\ Gap > 0 /\ Timeout \in Nat /\ Timeout > 0
    /\ StaleAfter \in Nat /\ OfflineAfter \in Nat /\ Skew \in Nat /\ MaxEvents \in Nat
    /\ Old \in Nat /\ Old = OfflineAfter + Timeout + Skew
    /\ Cycle \in Nat /\ Cycle = Gap + 2 * Timeout
    /\ StaleAfter >= 2 * Gap /\ OfflineAfter >= StaleAfter + Gap
    /\ Loop \in Tasks
  BY PollAssumption, ThresholdAssumption, EventAssumption DEF Old, Cycle

\* An age that grows stays within its limit.
LEMMA UpToGrows ==
    ASSUME NEW limit \in Nat, NEW age \in 0..limit
    PROVE  /\ UpTo(limit, age) \in 0..limit
           /\ UpTo(limit, age) >= age /\ UpTo(limit, age) <= age + 1
           /\ UpTo(limit, age) < limit => UpTo(limit, age) = age + 1
  BY DEF UpTo

\* No fetch, and the fields of one.
LEMMA IdleFetch == Idle \in Fetches /\ Idle.stage = "idle" /\ Idle.wait = 0
  BY LiveBounds DEF Idle, Fetches, Stages

\* The fields of a fetch, one by one.
LEMMA FetchFields ==
    ASSUME NEW f \in Fetches
    PROVE  f.stage \in Stages /\ f.wait \in 0..Timeout /\ f.ok \in BOOLEAN /\ f.age \in 0..Old
  BY DEF Fetches

\* The fetch of one task changes.
LEMMA OneFetch ==
    ASSUME FlightInv, NEW t \in Tasks, NEW f \in Fetches,
           f.stage = "idle" => f = Idle,
           flight' = [flight EXCEPT ![t] = f]
    PROVE  /\ FlightInv'
           /\ flight'[t] = f
           /\ \A u \in Tasks : u # t => flight'[u] = flight[u]
  BY DEF FlightInv, Idle

\* A coroutine asks: it alone has a new fetch.
LEMMA AskMoves ==
    ASSUME FlightInv, NEW t \in Tasks, Ask(t)
    PROVE  /\ FlightInv'
           /\ flight'[t].stage = "asking" /\ flight'[t].wait = 0
           /\ \A u \in Tasks : u # t => flight'[u] = flight[u]
<1>1. Asking \in Fetches /\ Asking.stage = "asking" /\ Asking.wait = 0
  BY LiveBounds DEF Asking, Fetches, Stages
<1> QED BY <1>1, OneFetch DEF Ask

\* The collector answers with its sample: that fetch alone changes.
LEMMA AnswerMoves ==
    ASSUME LiveTypeInv, NEW t \in Tasks, Answer(t)
    PROVE  /\ FlightInv'
           /\ flight'[t].stage = "answered" /\ flight'[t].wait = flight[t].wait
           /\ flight'[t].ok = sample.ok /\ flight'[t].age = sample.age
           /\ \A u \in Tasks : u # t => flight'[u] = flight[u]
<1> DEFINE f == [stage |-> "answered", wait |-> flight[t].wait,
                 ok |-> sample.ok, age |-> sample.age]
<1>1. flight[t].wait \in 0..Timeout
  BY FetchFields DEF LiveTypeInv, FlightInv
<1>2. f \in Fetches /\ f.stage = "answered" /\ f.wait = flight[t].wait
      /\ f.ok = sample.ok /\ f.age = sample.age
  BY <1>1 DEF LiveTypeInv, PlainInv, Fetches, Stages
<1>3. flight' = [flight EXCEPT ![t] = f]
  BY DEF Answer, LiveTypeInv, FlightInv
<1> HIDE DEF f
<1> QED BY <1>2, <1>3, OneFetch DEF LiveTypeInv

\* The collector cannot be reached: that fetch alone changes.
LEMMA RefuseMoves ==
    ASSUME LiveTypeInv, NEW t \in Tasks, Refuse(t)
    PROVE  /\ FlightInv'
           /\ flight'[t].stage = "refused" /\ flight'[t].wait = flight[t].wait
           /\ \A u \in Tasks : u # t => flight'[u] = flight[u]
<1> DEFINE f == [stage |-> "refused", wait |-> flight[t].wait, ok |-> FALSE, age |-> 0]
<1>1. flight[t].wait \in 0..Timeout
  BY FetchFields DEF LiveTypeInv, FlightInv
<1>2. f \in Fetches /\ f.stage = "refused" /\ f.wait = flight[t].wait
  BY <1>1, LiveBounds DEF Fetches, Stages
<1>3. flight' = [flight EXCEPT ![t] = f]
  BY DEF Refuse, LiveTypeInv, FlightInv
<1> HIDE DEF f
<1> QED BY <1>2, <1>3, OneFetch DEF LiveTypeInv

\* A coroutine has dealt with its answer or refusal.
LEMMA EndMoves ==
    ASSUME FlightInv, NEW t \in Tasks, flight' = [flight EXCEPT ![t] = Idle]
    PROVE  /\ FlightInv'
           /\ flight'[t].stage = "idle" /\ flight'[t].wait = 0
           /\ \A u \in Tasks : u # t => flight'[u] = flight[u]
  BY IdleFetch, OneFetch

\* A tick: every fetch waits, and what was answered ages.
LEMMA TickMoves ==
    ASSUME LiveTypeInv, Tick
    PROVE  /\ FlightInv'
           /\ \A t \in Tasks :
                /\ flight'[t].stage = flight[t].stage /\ flight'[t].ok = flight[t].ok
                /\ flight[t].stage = "idle" => flight'[t].wait = 0 /\ flight[t].wait = 0
                /\ flight[t].stage # "idle" => flight'[t].wait = flight[t].wait + 1
                /\ flight[t].stage = "answered" => flight'[t].age = Later(flight[t].age)
<1>1. ASSUME NEW t \in Tasks, flight[t].stage = "idle"
      PROVE  flight'[t] = Idle /\ flight[t] = Idle
  BY <1>1 DEF LiveTypeInv, FlightInv, Tick
<1>2. ASSUME NEW t \in Tasks, flight[t].stage # "idle"
      PROVE  /\ flight'[t] \in Fetches /\ flight'[t].stage = flight[t].stage
             /\ flight'[t].ok = flight[t].ok /\ flight'[t].wait = flight[t].wait + 1
             /\ flight[t].stage = "answered" => flight'[t].age = Later(flight[t].age)
  <2>1. flight[t] # Idle
    BY <1>2 DEF Idle
  <2>2. flight[t].wait < Timeout
    BY <2>1 DEF Tick, InTime
  <2>3. flight[t].stage \in Stages /\ flight[t].wait \in 0..Timeout
        /\ flight[t].ok \in BOOLEAN /\ flight[t].age \in 0..Old
    BY FetchFields DEF LiveTypeInv, FlightInv
  <2>4. Later(flight[t].age) \in 0..Old
    BY <2>3, LiveBounds, UpToGrows DEF Later
  <2>5. flight[t].wait + 1 \in 0..Timeout
    BY <2>2, <2>3, LiveBounds
  <2>6. flight'[t] = Waited(flight[t])
    BY <2>1 DEF Tick
  <2>7. Waited(flight[t]) \in Fetches
    BY <2>3, <2>4, <2>5 DEF Waited, Fetches
  <2> QED BY <2>6, <2>7 DEF Waited
<1>3. flight' \in [Tasks -> Fetches]
  <2>1. flight' = [t \in Tasks |-> flight'[t]]
    BY DEF Tick
  <2> QED BY <2>1, <1>1, <1>2, IdleFetch
<1>4. FlightInv'
  BY <1>1, <1>2, <1>3 DEF FlightInv
<1> QED BY <1>1, <1>2, <1>4, IdleFetch

\* What happened so far: one field changes, or all of them with a tick.
PastFields ==
    /\ past.link \in 0..Old /\ past.out \in 0..OfflineAfter
    /\ past.well \in 0..Cycle + 1 /\ past.running \in 0..Cycle + 1
    /\ past.sinceOk \in 0..StaleAfter + Skew /\ past.held \in BOOLEAN

\* The fields, one by one.
LEMMA PastHasFields == ASSUME past \in Pasts PROVE PastFields
  BY DEF Pasts, PastFields

\* The fields a step gives it.
PastBecomes(link, out, well, running, sinceOk, held) ==
    /\ past' \in Pasts
    /\ past'.link = link /\ past'.out = out /\ past'.well = well
    /\ past'.running = running /\ past'.sinceOk = sinceOk /\ past'.held = held

\* A record of values in range has these fields.
LEMMA PastIsSet ==
    ASSUME NEW link \in 0..Old, NEW out \in 0..OfflineAfter, NEW well \in 0..Cycle + 1,
           NEW running \in 0..Cycle + 1, NEW sinceOk \in 0..StaleAfter + Skew,
           NEW held \in BOOLEAN,
           past' = [link |-> link, out |-> out, well |-> well, running |-> running,
                    sinceOk |-> sinceOk, held |-> held]
    PROVE  PastBecomes(link, out, well, running, sinceOk, held)
  BY DEF Pasts, PastBecomes

\* What no clock moves is in its range.
LEMMA Zero ==
    0 \in 0..Old /\ 0 \in 0..OfflineAfter /\ 0 \in 0..Cycle + 1 /\ 0 \in 0..StaleAfter + Skew
  BY LiveBounds

\* The collector becomes unreachable: it is no longer well.
LEMMA PastOutage ==
    ASSUME past \in Pasts, Outage
    PROVE  PastBecomes(0, past.out, 0, past.running, past.sinceOk, past.held)
<1>1. past' = [link |-> 0, out |-> past.out, well |-> 0,
               running |-> past.running, sinceOk |-> past.sinceOk, held |-> past.held]
  BY DEF Outage, Pasts
<1> QED BY <1>1, PastHasFields, Zero, PastIsSet DEF PastFields

\* The collector is reachable again.
LEMMA PastRecovery ==
    ASSUME past \in Pasts, Recovery
    PROVE  PastBecomes(0, past.out, past.well, past.running, past.sinceOk, past.held)
<1>1. past' = [link |-> 0, out |-> past.out, well |-> past.well,
               running |-> past.running, sinceOk |-> past.sinceOk, held |-> past.held]
  BY DEF Recovery, Pasts
<1> QED BY <1>1, PastHasFields, Zero, PastIsSet DEF PastFields

\* Somebody pauses: this is held against the readings until the next answer.
LEMMA PastPause ==
    ASSUME past \in Pasts, Pause
    PROVE  PastBecomes(past.link, past.out, past.well, 0, past.sinceOk, TRUE)
<1>1. past' = [link |-> past.link, out |-> past.out, well |-> past.well,
               running |-> 0, sinceOk |-> past.sinceOk, held |-> TRUE]
  BY DEF Pause, Pasts
<1> QED BY <1>1, PastHasFields, Zero, PastIsSet DEF PastFields

\* The service restarts: the loop begins anew.
LEMMA PastRestart ==
    ASSUME past \in Pasts, Restart
    PROVE  PastBecomes(past.link, past.out, past.well, 0, past.sinceOk, past.held)
<1>1. past' = [link |-> past.link, out |-> past.out, well |-> past.well,
               running |-> 0, sinceOk |-> past.sinceOk, held |-> past.held]
  BY DEF Restart, Pasts
<1> QED BY <1>1, PastHasFields, Zero, PastIsSet DEF PastFields

\* All batteries answered the collector.
LEMMA PastGood ==
    ASSUME past \in Pasts, Sampled(TRUE)
    PROVE  PastBecomes(past.link, past.out, past.well, past.running, 0, past.held)
<1>1. past' = [link |-> past.link, out |-> past.out, well |-> past.well,
               running |-> past.running, sinceOk |-> 0, held |-> past.held]
  BY DEF Sampled, Pasts
<1> QED BY <1>1, PastHasFields, Zero, PastIsSet DEF PastFields

\* A battery did not answer the collector: it is no longer well.
LEMMA PastBad ==
    ASSUME past \in Pasts, Sampled(FALSE)
    PROVE  PastBecomes(past.link, past.out, 0, past.running, past.sinceOk, past.held)
<1>1. past' = [link |-> past.link, out |-> past.out, well |-> 0,
               running |-> past.running, sinceOk |-> past.sinceOk, held |-> past.held]
  BY DEF Sampled, Pasts
<1> QED BY <1>1, PastHasFields, Zero, PastIsSet DEF PastFields

\* An answer is taken.
LEMMA PastTaken ==
    ASSUME past \in Pasts, NEW t \in Tasks, paused \in BOOLEAN, TakeAnswer(t)
    PROVE  PastBecomes(past.link, past.out, past.well, past.running, past.sinceOk, paused)
<1>1. past' = [link |-> past.link, out |-> past.out, well |-> past.well,
               running |-> past.running, sinceOk |-> past.sinceOk, held |-> paused]
  BY DEF TakeAnswer, Pasts
<1> QED BY <1>1, PastHasFields, Zero, PastIsSet DEF PastFields

\* The events are as many as the bound allows.
LEMMA EventCounted == ASSUME PlainInv, Event PROVE events' \in 0..MaxEvents
  BY LiveBounds DEF PlainInv, Event

\* A tick moves every clock.
LEMMA TickClocks ==
    ASSUME LiveTypeInv, Tick
    PROVE  /\ sample' \in [ok : BOOLEAN, age : 0..Old] /\ shown' \in [ok : BOOLEAN, age : 0..Old]
           /\ sample'.ok = sample.ok /\ sample'.age = Later(sample.age)
           /\ shown'.ok = shown.ok /\ shown'.age = Later(shown.age)
           /\ contact' = Later(contact) /\ contact' \in 0..Old
           /\ due' \in 0..Gap /\ due' = IF due > 0 THEN due - 1 ELSE 0
<1>1. /\ sample.age \in 0..Old /\ shown.age \in 0..Old /\ contact \in 0..Old /\ due \in 0..Gap
      /\ sample.ok \in BOOLEAN /\ shown.ok \in BOOLEAN
  BY DEF LiveTypeInv, PlainInv
<1>2. /\ Later(sample.age) \in 0..Old /\ Later(shown.age) \in 0..Old
      /\ Later(contact) \in 0..Old
  BY <1>1, LiveBounds, UpToGrows DEF Later
<1>3. /\ sample' = [ok |-> sample.ok, age |-> Later(sample.age)]
      /\ shown' = [ok |-> shown.ok, age |-> Later(shown.age)]
  BY DEF Tick, LiveTypeInv, PlainInv
<1>4. contact' = Later(contact) /\ due' = IF due > 0 THEN due - 1 ELSE 0
  BY DEF Tick
<1>5. due' \in 0..Gap
  BY <1>1, <1>4, LiveBounds
<1> QED BY <1>1, <1>2, <1>3, <1>4, <1>5

\* A tick moves every clock of what happened.
LEMMA PastTick ==
    ASSUME LiveTypeInv, Tick
    PROVE  PastBecomes(
             Later(past.link),
             IF up /\ past.link >= Cycle THEN 0 ELSE UpTo(OfflineAfter, past.out),
             IF up /\ sample.ok /\ sample'.age <= Gap THEN UpTo(Cycle + 1, past.well) ELSE 0,
             IF paused THEN 0 ELSE UpTo(Cycle + 1, past.running),
             UpTo(StaleAfter + Skew, past.sinceOk),
             past.held)
<1>1. PastFields
  BY PastHasFields DEF LiveTypeInv
<1>2. /\ Later(past.link) \in 0..Old /\ UpTo(OfflineAfter, past.out) \in 0..OfflineAfter
      /\ UpTo(Cycle + 1, past.well) \in 0..Cycle + 1
      /\ UpTo(Cycle + 1, past.running) \in 0..Cycle + 1
      /\ UpTo(StaleAfter + Skew, past.sinceOk) \in 0..StaleAfter + Skew
  <2>1. Old \in Nat /\ OfflineAfter \in Nat /\ Cycle + 1 \in Nat /\ StaleAfter + Skew \in Nat
    BY LiveBounds
  <2> QED BY <1>1, <2>1, UpToGrows DEF PastFields, Later
<1> DEFINE out == IF up /\ past.link >= Cycle THEN 0 ELSE UpTo(OfflineAfter, past.out)
           well == IF up /\ sample.ok /\ sample'.age <= Gap THEN UpTo(Cycle + 1, past.well) ELSE 0
           running == IF paused THEN 0 ELSE UpTo(Cycle + 1, past.running)
<1>3. out \in 0..OfflineAfter /\ well \in 0..Cycle + 1 /\ running \in 0..Cycle + 1
  BY <1>2, Zero
<1>4. past' = [link |-> Later(past.link), out |-> out, well |-> well, running |-> running,
               sinceOk |-> UpTo(StaleAfter + Skew, past.sinceOk), held |-> past.held]
  BY DEF Tick
<1>5. past.held \in BOOLEAN
  BY <1>1 DEF PastFields
<1> HIDE DEF out, well, running
<1>6. PastBecomes(Later(past.link), out, well, running,
                  UpTo(StaleAfter + Skew, past.sinceOk), past.held)
  BY <1>2, <1>3, <1>4, <1>5, PastIsSet
<1> QED BY <1>6 DEF out, well, running

\* The initial state has the types.
LEMMA LiveTypeInit == LiveInit => LiveTypeInv
<1> SUFFICES ASSUME LiveInit PROVE LiveTypeInv
  OBVIOUS
<1>1. FlightInv
  BY IdleFetch DEF LiveInit, FlightInv
<1>2. PlainInv
  <2>1. sample \in [ok : BOOLEAN, age : 0..Old]
    BY Zero DEF LiveInit
  <2>2. shown \in [ok : BOOLEAN, age : 0..Old] /\ contact \in 0..Old
    BY LiveBounds DEF LiveInit
  <2>3. due \in 0..Gap /\ events \in 0..MaxEvents
    BY LiveBounds DEF LiveInit
  <2>4. ~(contact < Old)
    BY LiveBounds DEF LiveInit
  <2> QED BY <2>1, <2>2, <2>3, <2>4 DEF LiveInit, PlainInv
<1>3. past \in Pasts
  BY LiveBounds DEF LiveInit, Pasts
<1>4. ~paused
  BY DEF LiveInit
<1> QED BY <1>1, <1>2, <1>3, <1>4 DEF LiveTypeInv

\* Every step keeps them.
LEMMA LiveTypeStep == LiveTypeInv /\ [LiveNext]_liveVars => LiveTypeInv'
<1> SUFFICES ASSUME LiveTypeInv, [LiveNext]_liveVars PROVE LiveTypeInv'
  OBVIOUS
<1> USE DEF LiveTypeInv
<1>0. FlightInv /\ PlainInv /\ past \in Pasts /\ PastFields /\ paused \in BOOLEAN
  BY PastHasFields DEF PlainInv
<1>1. ASSUME flight' = flight PROVE FlightInv'
  BY <1>0, <1>1 DEF FlightInv
<1>2. ASSUME past' = past, paused' => paused
      PROVE  past' \in Pasts /\ (paused' => past'.running = 0)
  BY <1>0, <1>2
<1>3. CASE Outage
  <2>1. PlainInv'
    BY <1>0, <1>3, EventCounted DEF PlainInv, Outage, monitor
  <2> QED BY <1>0, <1>1, <1>3, <2>1, PastOutage DEF Outage, monitor, PastBecomes
<1>4. CASE Recovery
  <2>1. PlainInv'
    BY <1>0, <1>4 DEF PlainInv, Recovery, monitor
  <2> QED BY <1>0, <1>1, <1>4, <2>1, PastRecovery DEF Recovery, monitor, PastBecomes
<1>5. ASSUME NEW ok \in BOOLEAN, Sampled(ok) PROVE LiveTypeInv'
  <2>1. PlainInv'
    BY <1>0, <1>5, Zero DEF PlainInv, Sampled, monitor
  <2>2. past' \in Pasts /\ past'.running = past.running
    <3>1. CASE ok = TRUE
      BY <1>0, <1>5, <3>1, PastGood DEF PastBecomes
    <3>2. CASE ok = FALSE
      BY <1>0, <1>5, <3>2, PastBad DEF PastBecomes
    <3> QED BY <3>1, <3>2
  <2> QED BY <1>0, <1>1, <1>5, <2>1, <2>2 DEF Sampled, monitor
<1>6. CASE StartCycle
  <2>1. PlainInv'
    BY <1>0, <1>6, LiveBounds DEF PlainInv, StartCycle, collector
  <2>2. FlightInv'
    BY <1>0, <1>1, <1>6, AskMoves, LiveBounds DEF StartCycle
  <2> QED BY <1>0, <1>2, <1>6, <2>1, <2>2 DEF StartCycle
<1>7. CASE Pause
  <2>1. PlainInv'
    BY <1>0, <1>7, EventCounted DEF PlainInv, Pause, collector
  <2> QED BY <1>0, <1>1, <1>7, <2>1, PastPause DEF Pause, PastBecomes
<1>8. CASE Resume
  <2>1. PlainInv'
    BY <1>0, <1>8 DEF PlainInv, Resume, collector
  <2> QED BY <1>0, <1>1, <1>2, <1>8, <2>1 DEF Resume
<1>9. CASE Restart
  <2>1. PlainInv'
    <3>1. events' \in 0..MaxEvents
      BY <1>0, <1>9, EventCounted DEF Restart
    <3>2. shown' \in [ok : BOOLEAN, age : 0..Old] /\ contact' \in 0..Old /\ due' \in 0..Gap
          /\ ~(contact' < Old)
      BY <1>9, LiveBounds DEF Restart
    <3> QED BY <1>0, <1>9, <3>1, <3>2 DEF PlainInv, Restart, collector
  <2>2. FlightInv'
    BY <1>9, IdleFetch DEF Restart, FlightInv
  <2> QED BY <1>0, <1>9, <2>1, <2>2, PastRestart DEF Restart, PastBecomes
<1>10. CASE Tick
  <2>1. PlainInv'
    <3>1. contact' < Old => contact < Old
      BY <1>0, <1>10, TickClocks, UpToGrows, LiveBounds DEF Later, PlainInv
    <3> QED BY <1>0, <1>10, <3>1, TickClocks DEF PlainInv, Tick
  <2>2. FlightInv'
    BY <1>10, TickMoves
  <2>3. past' \in Pasts /\ (paused => past'.running = 0)
    BY <1>10, PastTick DEF PastBecomes
  <2> QED BY <1>10, <2>1, <2>2, <2>3 DEF Tick
<1>11. ASSUME NEW t \in Tasks, ForceCycle(t) PROVE LiveTypeInv'
  <2>1. PlainInv'
    BY <1>0, <1>11, EventCounted DEF PlainInv, ForceCycle, collector, monitor
  <2>2. FlightInv'
    BY <1>0, <1>11, AskMoves DEF ForceCycle
  <2> QED BY <1>0, <1>2, <1>11, <2>1, <2>2 DEF ForceCycle, monitor
<1>12. ASSUME NEW t \in Tasks, Answer(t) PROVE LiveTypeInv'
  <2>1. PlainInv'
    BY <1>0, <1>12 DEF PlainInv, Answer, collector, monitor
  <2>2. FlightInv'
    BY <1>12, AnswerMoves
  <2> QED BY <1>0, <1>2, <1>12, <2>1, <2>2 DEF Answer, monitor
<1>13. ASSUME NEW t \in Tasks, Refuse(t) PROVE LiveTypeInv'
  <2>1. PlainInv'
    BY <1>0, <1>13 DEF PlainInv, Refuse, collector, monitor
  <2>2. FlightInv'
    BY <1>13, RefuseMoves
  <2> QED BY <1>0, <1>2, <1>13, <2>1, <2>2 DEF Refuse, monitor
<1>14. ASSUME NEW t \in Tasks, TakeAnswer(t) PROVE LiveTypeInv'
  <2>1. flight[t].ok \in BOOLEAN /\ flight[t].age \in 0..Old
    BY <1>0, FetchFields DEF FlightInv
  <2>2. PlainInv'
    <3>1. shown' \in [ok : BOOLEAN, age : 0..Old]
      BY <1>14, <2>1 DEF TakeAnswer
    <3>2. contact' \in 0..Old /\ contacted' = TRUE
      BY <1>14, Zero DEF TakeAnswer
    <3> QED BY <1>0, <1>14, <3>1, <3>2 DEF PlainInv, TakeAnswer, collector
  <2>3. FlightInv'
    BY <1>0, <1>14, EndMoves DEF TakeAnswer
  <2> QED BY <1>0, <1>14, <2>2, <2>3, PastTaken DEF TakeAnswer, PastBecomes
<1>15. ASSUME NEW t \in Tasks, TakeRefusal(t) PROVE LiveTypeInv'
  <2>1. PlainInv'
    BY <1>0, <1>15 DEF PlainInv, TakeRefusal, collector
  <2>2. FlightInv'
    BY <1>0, <1>15, EndMoves DEF TakeRefusal
  <2> QED BY <1>0, <1>2, <1>15, <2>1, <2>2 DEF TakeRefusal
<1>16. CASE UNCHANGED liveVars
  <2>1. PlainInv'
    BY <1>0, <1>16 DEF PlainInv, liveVars, collector, monitor
  <2> QED BY <1>0, <1>1, <1>2, <1>16, <2>1 DEF liveVars, monitor
<1> QED BY <1>3, <1>4, <1>5, <1>6, <1>7, <1>8, <1>9, <1>10, <1>11, <1>12, <1>13, <1>14,
           <1>15, <1>16 DEF LiveNext

\* The types, as the run states them.
LEMMA LiveTypes == LiveTypeInv => LiveTypeOK
  BY DEF LiveTypeInv, FlightInv, PlainInv, LiveTypeOK, Fetches, Stages

-----------------------------------------------------------------------------

\* The longest a poll of the loop may take from the end of the one before.
Longest == (IF Gap > Timeout THEN Gap ELSE Timeout) + Timeout

\* Ticks until the loop has an outcome other than `bad`, at the latest: what it waits
\* for, its next cycle, and the fetch of that cycle.
TicksLeft(bad, fetch, wait) ==
    LET rest == Timeout - fetch.wait IN
    IF fetch.stage = "idle" THEN wait + Timeout
    ELSE IF fetch.stage = bad THEN (IF rest > wait THEN rest ELSE wait) + Timeout
    ELSE rest

ToAnswer  == TicksLeft("refused", flight[Loop], due)
ToRefusal == TicksLeft("answered", flight[Loop], due)

\* What began that long ago is over before the limit.
Within(age, left, limit) == age + left <= limit

\* An outcome that comes sooner is in time as well.
LEMMA WithinLess ==
    ASSUME NEW age \in Int, NEW left \in Int, NEW limit \in Int, Within(age, left, limit),
           NEW less \in Int, less <= left
    PROVE  Within(age, less, limit)
  BY DEF Within

\* A tick: the moment lies one tick further back, the outcome one tick nearer.
LEMMA WithinNext ==
    ASSUME NEW age \in Int, NEW left \in Int, NEW limit \in Int, Within(age, left, limit),
           NEW next \in Int, next <= age + 1
    PROVE  Within(next, left - 1, limit)
  BY DEF Within

\* The fields of the fetches.
LEMMA Fetching ==
    ASSUME LiveTypeInv, NEW t \in Tasks
    PROVE  /\ flight[t].stage \in Stages /\ flight[t].wait \in 0..Timeout
           /\ flight[t].ok \in BOOLEAN /\ flight[t].age \in 0..Old
           /\ flight[t].stage = "idle" => flight[t] = Idle /\ flight[t].wait = 0
           /\ flight[t] = Idle => flight[t].stage = "idle"
  BY FetchFields, IdleFetch DEF LiveTypeInv, FlightInv

\* The longest poll is shorter than the cycle the properties allow for.
LEMMA LongestFits ==
    /\ Longest \in Nat /\ Longest < Cycle
    /\ Gap + Timeout <= Longest /\ 2 * Timeout <= Longest
  BY LiveBounds DEF Longest

\* Counted from a moment so late, every outcome is in time.
LEMMA WithinAll ==
    ASSUME NEW age \in Int, NEW left \in 0..Longest, NEW limit \in Int, age + Longest <= limit
    PROVE  Within(age, left, limit)
  BY LongestFits DEF Within

\* The ticks left, for each stage of the fetch.
LEMMA TicksBounded ==
    ASSUME LiveTypeInv, NEW bad
    PROVE  /\ TicksLeft(bad, flight[Loop], due) \in 0..Longest
           /\ flight[Loop].stage = "idle" => TicksLeft(bad, flight[Loop], due) = due + Timeout
           /\ flight[Loop].stage \notin {"idle", bad} =>
                 TicksLeft(bad, flight[Loop], due) = Timeout - flight[Loop].wait
           /\ flight[Loop].stage = bad /\ bad # "idle" =>
                 \/ TicksLeft(bad, flight[Loop], due) = due + Timeout
                 \/ TicksLeft(bad, flight[Loop], due) = 2 * Timeout - flight[Loop].wait
<1>1. flight[Loop].wait \in 0..Timeout /\ due \in 0..Gap
  BY Fetching, LiveBounds DEF LiveTypeInv, PlainInv
<1> QED BY <1>1, LiveBounds, LongestFits DEF TicksLeft

\* The loop has its next answer, or refusal, in time.
Outcomes == ToAnswer \in 0..Longest /\ ToRefusal \in 0..Longest

\* So it is in every state.
LEMMA OutcomesBounded == LiveTypeInv => Outcomes
  BY TicksBounded DEF Outcomes, ToAnswer, ToRefusal

\* Every tick brings the outcome nearer: the loop waits for nothing else.
LEMMA TicksGoBy ==
    ASSUME LiveTypeInv, Tick, NEW bad
    PROVE  TicksLeft(bad, flight'[Loop], due') = TicksLeft(bad, flight[Loop], due) - 1
<1>1. flight[Loop].wait \in 0..Timeout /\ due \in 0..Gap /\ Loop \in Tasks
  BY Fetching, LiveBounds DEF LiveTypeInv, PlainInv
<1>2. /\ flight[Loop].stage # "idle" => flight[Loop].wait < Timeout
      /\ flight[Loop].stage = "idle" => due > 0
  BY <1>1, Fetching DEF Tick, InTime
<1>3. due' = IF due > 0 THEN due - 1 ELSE 0
  BY TickClocks
<1>4. /\ flight'[Loop].stage = flight[Loop].stage
      /\ flight[Loop].stage # "idle" => flight'[Loop].wait = flight[Loop].wait + 1
  BY <1>1, TickMoves
<1>5. CASE flight[Loop].stage = "idle"
  BY <1>1, <1>2, <1>3, <1>4, <1>5, LiveBounds DEF TicksLeft
<1>6. CASE flight[Loop].stage # "idle"
  BY <1>1, <1>2, <1>3, <1>4, <1>6, LiveBounds DEF TicksLeft
<1> QED BY <1>5, <1>6

\* The loop begins its cycle in time, unless it is paused.
LEMMA TicksAtStart ==
    ASSUME LiveTypeInv, StartCycle, ~paused, NEW bad, bad # "asking"
    PROVE  TicksLeft(bad, flight'[Loop], due') = TicksLeft(bad, flight[Loop], due)
<1>1. flight[Loop].stage = "idle" /\ due = 0
  BY Fetching, LiveBounds DEF StartCycle
<1>2. flight'[Loop].stage = "asking" /\ flight'[Loop].wait = 0
  BY AskMoves, LiveBounds DEF StartCycle, LiveTypeInv
<1> QED BY <1>1, <1>2, LiveBounds DEF TicksLeft

\* An outcome is taken: the next of the loop comes in time, counted from a moment that
\* lies no further back than that outcome, and than the one the loop still awaits.
LEMMA TicksAfterEnd ==
    ASSUME LiveTypeInv, NEW t \in Tasks, flight[t].stage # "idle",
           flight' = [flight EXCEPT ![t] = Idle], due' = due,
           NEW bad, bad # "idle", NEW n \in Nat, n <= flight[t].wait,
           flight[Loop].stage = bad => n <= flight[Loop].wait
    PROVE  n + TicksLeft(bad, flight'[Loop], due') <= Cycle
<1>1. /\ flight[Loop].wait \in 0..Timeout /\ due \in 0..Gap /\ Loop \in Tasks
      /\ flight[t].wait \in 0..Timeout
  BY Fetching, LiveBounds DEF LiveTypeInv, PlainInv
<1>2. CASE t = Loop
  <2>1. flight'[Loop].stage = "idle"
    BY <1>2, EndMoves DEF LiveTypeInv
  <2> QED BY <1>1, <2>1, LiveBounds DEF TicksLeft
<1>3. CASE t # Loop
  <2>1. flight'[Loop] = flight[Loop]
    BY <1>1, <1>3, EndMoves DEF LiveTypeInv
  <2> QED BY <1>1, <2>1, LiveBounds, TicksBounded
<1> QED BY <1>2, <1>3

-----------------------------------------------------------------------------

\* A reading that says all batteries answered is no younger than the last such poll.
OnlineInv ==
    /\ sample.ok => past.sinceOk <= sample.age
    /\ shown.ok => past.sinceOk <= shown.age
    /\ \A t \in Tasks : flight[t].stage = "answered" /\ flight[t].ok =>
          past.sinceOk <= flight[t].age

\* While the collector is reachable and nobody pauses, the loop's next answer comes in
\* time, counted from the last answer or from the moment it became reachable.
ContactInv ==
    /\ paused => past.held
    /\ up /\ contacted /\ ~past.held =>
         Within(past.link, ToAnswer, Cycle) \/ Within(contact, ToAnswer, Cycle)
    /\ contacted /\ ~past.held =>
         contact <= past.out + Cycle \/ past.out = OfflineAfter

\* In an outage no answer is younger than it, and the loop's refusal comes in time.
OutageInv ==
    ~up =>
        /\ \A t \in Tasks : flight[t].stage = "answered" => past.link <= flight[t].wait
        /\ past.link <= contact + Timeout
        /\ contacted /\ ~failed =>
             Within(past.link, ToRefusal, Cycle) \/ Within(past.running, ToRefusal, Longest)

\* While the collector is well, what is bad is from before, and the loop's answer
\* comes in time and is good.
WellInv ==
    /\ ~up => past.well = 0
    /\ past.well > 0 => sample.ok /\ sample.age <= Gap
    /\ \A t \in Tasks :
         /\ flight[t].stage = "refused" => past.well <= flight[t].wait
         /\ flight[t].stage = "answered" =>
              \/ past.well <= flight[t].wait
              \/ flight[t].ok /\ flight[t].age <= Gap + flight[t].wait
    /\ \/ Within(past.well, ToAnswer, Cycle)
       \/ Within(past.running, ToAnswer, Longest)
       \/ contacted /\ ~failed /\ shown.ok /\ Within(shown.age, ToAnswer, 2 * Gap + 2 * Timeout)

\* Every step keeps OnlineInv: an answer carries the sample of its moment.
LEMMA OnlineStep ==
    ASSUME LiveTypeInv, OnlineInv, [LiveNext]_liveVars
    PROVE  OnlineInv'
<1>0. PastFields /\ past \in Pasts /\ paused \in BOOLEAN /\ sample.ok \in BOOLEAN
      /\ sample.age \in 0..Old /\ shown.age \in 0..Old
  BY PastHasFields DEF LiveTypeInv, PlainInv
<1>1. ASSUME sample' = sample, shown' = shown, past'.sinceOk = past.sinceOk,
             \A t \in Tasks : \/ flight'[t] = flight[t]
                              \/ flight'[t].stage # "answered"
                              \/ flight'[t].ok = sample.ok /\ flight'[t].age = sample.age
      PROVE  OnlineInv'
  BY <1>1 DEF OnlineInv
<1>2. CASE Outage
  BY <1>0, <1>1, <1>2, PastOutage DEF Outage, monitor, PastBecomes
<1>3. CASE Recovery
  BY <1>0, <1>1, <1>3, PastRecovery DEF Recovery, monitor, PastBecomes
<1>4. CASE Sampled(TRUE)
  <2>1. /\ past'.sinceOk = 0 /\ sample'.age = 0 /\ shown' = shown /\ flight' = flight
    BY <1>0, <1>4, PastGood DEF Sampled, monitor, PastBecomes
  <2>2. \A t \in Tasks : flight[t].age \in 0..Old
    BY Fetching
  <2> QED BY <1>0, <2>1, <2>2, LiveBounds DEF OnlineInv
<1>5. CASE Sampled(FALSE)
  <2>1. /\ past'.sinceOk = past.sinceOk /\ sample'.ok = FALSE
        /\ shown' = shown /\ flight' = flight
    BY <1>0, <1>5, PastBad DEF Sampled, monitor, PastBecomes
  <2> QED BY <2>1 DEF OnlineInv
<1>6. CASE StartCycle
  <2>1. \A t \in Tasks : flight'[t] = flight[t] \/ flight'[t].stage # "answered"
    BY <1>6, AskMoves, LiveBounds DEF StartCycle, LiveTypeInv
  <2> QED BY <1>1, <1>6, <2>1 DEF StartCycle, collector
<1>7. CASE Pause
  BY <1>0, <1>1, <1>7, PastPause DEF Pause, collector, PastBecomes
<1>8. CASE Resume
  BY <1>1, <1>8 DEF Resume, collector
<1>9. CASE Restart
  <2>1. /\ past'.sinceOk = past.sinceOk /\ sample' = sample /\ ~shown'.ok
        /\ \A t \in Tasks : flight'[t] = Idle
    BY <1>0, <1>9, PastRestart DEF Restart, collector, PastBecomes
  <2> QED BY <2>1, IdleFetch DEF OnlineInv
<1>10. CASE Tick
  <2>1. past'.sinceOk = UpTo(StaleAfter + Skew, past.sinceOk)
    BY <1>10, PastTick DEF PastBecomes
  <2>2. \A age \in 0..Old : past.sinceOk <= age => past'.sinceOk <= Later(age)
    BY <1>0, <2>1, LiveBounds DEF PastFields, UpTo, Later
  <2>3. \A t \in Tasks : flight[t].age \in 0..Old
    BY Fetching
  <2> QED BY <1>0, <1>10, <2>2, <2>3, TickClocks, TickMoves DEF OnlineInv
<1>11. ASSUME NEW t \in Tasks, ForceCycle(t) PROVE OnlineInv'
  <2>1. \A u \in Tasks : flight'[u] = flight[u] \/ flight'[u].stage # "answered"
    BY <1>11, AskMoves DEF ForceCycle, LiveTypeInv
  <2> QED BY <1>1, <1>11, <2>1 DEF ForceCycle, collector, monitor
<1>12. ASSUME NEW t \in Tasks, Answer(t) PROVE OnlineInv'
  <2>1. \A u \in Tasks : \/ flight'[u] = flight[u]
                         \/ flight'[u].ok = sample.ok /\ flight'[u].age = sample.age
    BY <1>12, AnswerMoves
  <2> QED BY <1>1, <1>12, <2>1 DEF Answer, collector, monitor
<1>13. ASSUME NEW t \in Tasks, Refuse(t) PROVE OnlineInv'
  <2>1. \A u \in Tasks : flight'[u] = flight[u] \/ flight'[u].stage # "answered"
    BY <1>13, RefuseMoves
  <2> QED BY <1>1, <1>13, <2>1 DEF Refuse, collector, monitor
<1>14. ASSUME NEW t \in Tasks, TakeAnswer(t) PROVE OnlineInv'
  <2>1. past'.sinceOk = past.sinceOk
    BY <1>0, <1>14, PastTaken DEF PastBecomes
  <2>2. \A u \in Tasks : flight'[u] = flight[u] \/ flight'[u].stage # "answered"
    BY <1>14, EndMoves DEF TakeAnswer, LiveTypeInv
  <2>3. /\ sample' = sample /\ flight[t].stage = "answered"
        /\ shown'.ok = flight[t].ok /\ shown'.age = flight[t].age
    BY <1>14 DEF TakeAnswer, collector
  <2> QED BY <2>1, <2>2, <2>3 DEF OnlineInv
<1>15. ASSUME NEW t \in Tasks, TakeRefusal(t) PROVE OnlineInv'
  <2>1. \A u \in Tasks : flight'[u] = flight[u] \/ flight'[u].stage # "answered"
    BY <1>15, EndMoves DEF TakeRefusal, LiveTypeInv
  <2> QED BY <1>1, <1>15, <2>1 DEF TakeRefusal, collector
<1>16. CASE UNCHANGED liveVars
  BY <1>1, <1>16 DEF liveVars, collector, monitor
<1> QED BY <1>2, <1>3, <1>4, <1>5, <1>6, <1>7, <1>8, <1>9, <1>10, <1>11, <1>12, <1>13, <1>14,
           <1>15, <1>16 DEF LiveNext

\* Every step keeps ContactInv: only a tick counts, and it brings the answer nearer.
LEMMA ContactStep ==
    ASSUME LiveTypeInv, ContactInv, [LiveNext]_liveVars
    PROVE  ContactInv'
<1>0. /\ PastFields /\ past \in Pasts /\ paused \in BOOLEAN /\ contact \in 0..Old
      /\ contacted \in BOOLEAN /\ up \in BOOLEAN
  BY PastHasFields DEF LiveTypeInv, PlainInv
<1>t. /\ ToAnswer \in Int /\ ToAnswer' \in Int
      /\ ToAnswer \in 0..Longest /\ ToAnswer' \in 0..Longest
  <2>1. LiveTypeInv'
    BY LiveTypeStep
  <2>2. Outcomes'
    BY <2>1, OutcomesBounded, PTL
  <2> QED BY <2>2, OutcomesBounded, LongestFits DEF Outcomes
<1>1. ASSUME up' => up, paused' => paused, contacted' = contacted, contact' = contact,
             past'.held = past.held, past'.link = past.link \/ ~up', past'.out = past.out,
             ToAnswer' <= ToAnswer \/ past.held \/ ~up'
      PROVE  ContactInv'
  <2>1. ASSUME up', contacted, ~past.held
        PROVE  Within(past'.link, ToAnswer', Cycle) \/ Within(contact', ToAnswer', Cycle)
    <3>1. past'.link = past.link /\ ToAnswer' <= ToAnswer /\ contact' = contact
      BY <1>1, <2>1
    <3>2. Within(past.link, ToAnswer, Cycle) \/ Within(contact, ToAnswer, Cycle)
      BY <1>1, <2>1 DEF ContactInv
    <3>3. past.link \in Int /\ contact \in Int /\ Cycle \in Int
      BY <1>0, LiveBounds DEF PastFields
    <3>4. CASE Within(past.link, ToAnswer, Cycle)
      BY <1>t, <3>1, <3>3, <3>4, WithinLess
    <3>5. CASE Within(contact, ToAnswer, Cycle)
      BY <1>t, <3>1, <3>3, <3>5, WithinLess
    <3> QED BY <3>2, <3>4, <3>5
  <2> QED BY <1>1, <2>1 DEF ContactInv
<1>2. CASE Outage
  BY <1>0, <1>1, <1>2, PastOutage DEF Outage, monitor, PastBecomes
<1>3. CASE Recovery
  <2>1. /\ past'.link = 0 /\ past'.held = past.held /\ past'.out = past.out
        /\ contact' = contact /\ contacted' = contacted /\ paused' = paused
    BY <1>0, <1>3, PastRecovery DEF Recovery, monitor, PastBecomes
  <2>2. Within(past'.link, ToAnswer', Cycle)
    <3>1. past'.link + Longest <= Cycle /\ past'.link \in Int /\ Cycle \in Int
      BY <2>1, LiveBounds, LongestFits
    <3> QED BY <1>t, <3>1, WithinAll
  <2> QED BY <2>1, <2>2 DEF ContactInv
<1>4. ASSUME NEW ok \in BOOLEAN, Sampled(ok) PROVE ContactInv'
  <2>1. past'.held = past.held /\ past'.link = past.link /\ past'.out = past.out
    <3>1. CASE ok = TRUE
      BY <1>0, <1>4, <3>1, PastGood DEF PastBecomes
    <3>2. CASE ok = FALSE
      BY <1>0, <1>4, <3>2, PastBad DEF PastBecomes
    <3> QED BY <3>1, <3>2
  <2>2. ToAnswer' = ToAnswer
    BY <1>4 DEF Sampled, monitor, ToAnswer, TicksLeft
  <2> QED BY <1>1, <1>4, <1>t, <2>1, <2>2, LongestFits DEF Sampled, monitor
<1>6. CASE StartCycle
  <2>1. ToAnswer' = ToAnswer \/ past.held
    BY <1>6, TicksAtStart DEF ToAnswer, ContactInv
  <2> QED BY <1>1, <1>6, <1>t, <2>1, LongestFits DEF StartCycle, collector
<1>7. CASE Pause
  BY <1>0, <1>7, PastPause DEF ContactInv, PastBecomes
<1>8. CASE Resume
  <2>1. ToAnswer' = ToAnswer
    BY <1>8 DEF Resume, ToAnswer, TicksLeft
  <2> QED BY <1>1, <1>8, <1>t, <2>1, LongestFits DEF Resume, collector
<1>9. CASE Restart
  BY <1>9 DEF Restart, ContactInv
<1>10. CASE Tick
  <2>1. /\ past'.held = past.held /\ past'.link = Later(past.link)
        /\ past'.out = IF up /\ past.link >= Cycle THEN 0 ELSE UpTo(OfflineAfter, past.out)
    BY <1>10, PastTick DEF PastBecomes
  <2>2. ToAnswer' = ToAnswer - 1
    BY <1>10, TicksGoBy DEF ToAnswer
  <2>3. contact' = Later(contact)
    BY <1>10, TickClocks
  <2>4. /\ Later(past.link) <= past.link + 1 /\ Later(contact) <= contact + 1
        /\ Later(past.link) \in Nat /\ Later(contact) \in Nat
    BY <1>0, LiveBounds DEF Later, UpTo, PastFields
  <2>5. /\ UpTo(OfflineAfter, past.out) \in Nat
        /\ UpTo(OfflineAfter, past.out) \in {past.out + 1, OfflineAfter}
    BY <1>0, LiveBounds DEF UpTo, PastFields
  <2>6. up' = up /\ paused' = paused /\ contacted' = contacted
    BY <1>10 DEF Tick
  <2>7. ASSUME up, contacted, ~past.held
        PROVE  Within(past'.link, ToAnswer', Cycle) \/ Within(contact', ToAnswer', Cycle)
    <3>1. Within(past.link, ToAnswer, Cycle) \/ Within(contact, ToAnswer, Cycle)
      BY <2>7 DEF ContactInv
    <3>2. /\ past.link \in Int /\ contact \in Int /\ past'.link \in Int /\ contact' \in Int
          /\ Cycle \in Int /\ past'.link <= past.link + 1 /\ contact' <= contact + 1
      BY <1>0, <2>1, <2>3, <2>4, LiveBounds DEF PastFields
    <3> QED BY <1>t, <2>2, <3>1, <3>2, WithinNext
  <2>8. ASSUME contacted, ~past.held
        PROVE  contact' <= past'.out + Cycle \/ past'.out = OfflineAfter
    <3>1. CASE up /\ past.link >= Cycle
      <4>1. Within(past.link, ToAnswer, Cycle) \/ Within(contact, ToAnswer, Cycle)
        BY <2>8, <3>1 DEF ContactInv
      <4>2. ToAnswer >= 1
        BY <1>t, <2>2, LongestFits
      <4>3. past.link \in Int /\ contact \in Int /\ Cycle \in Int /\ ToAnswer \in Int
        BY <1>0, <1>t, LiveBounds DEF PastFields
      <4>4. contact < Cycle
        BY <3>1, <4>1, <4>2, <4>3 DEF Within
      <4>5. past'.out = 0 /\ contact' <= contact + 1 /\ contact' \in Int
        BY <2>1, <2>3, <2>4, <3>1
      <4> QED BY <4>3, <4>4, <4>5
    <3>2. CASE ~(up /\ past.link >= Cycle)
      <4>1. past'.out = past.out + 1 \/ past'.out = OfflineAfter
        BY <2>1, <2>5, <3>2
      <4>2. contact <= past.out + Cycle \/ past.out = OfflineAfter
        BY <2>8 DEF ContactInv
      <4>3. past.out = OfflineAfter => past'.out = OfflineAfter
        BY <1>0, <2>1, <3>2, LiveBounds DEF UpTo, PastFields
      <4>4. contact \in Int /\ contact' \in Int /\ contact' <= contact + 1 /\ past.out \in Int
            /\ Cycle \in Int
        BY <1>0, <2>3, <2>4, LiveBounds DEF PastFields
      <4> QED BY <4>1, <4>2, <4>3, <4>4
    <3> QED BY <3>1, <3>2
  <2> QED BY <2>1, <2>6, <2>7, <2>8 DEF ContactInv
<1>11. ASSUME NEW t \in Tasks, ForceCycle(t) PROVE ContactInv'
  <2>1. flight'[Loop] = flight[Loop] /\ due' = due
    BY <1>11, AskMoves, LiveBounds DEF ForceCycle, LiveTypeInv, monitor
  <2>2. ToAnswer' = ToAnswer
    BY <2>1 DEF ToAnswer, TicksLeft
  <2> QED BY <1>1, <1>11, <1>t, <2>2, LongestFits DEF ForceCycle, collector, monitor
<1>12. ASSUME NEW t \in Tasks, Answer(t) PROVE ContactInv'
  <2>1. \/ flight'[Loop] = flight[Loop]
        \/ /\ flight'[Loop].wait = flight[Loop].wait
           /\ flight[Loop].stage = "asking" /\ flight'[Loop].stage = "answered"
    BY <1>12, AnswerMoves, LiveBounds DEF Answer
  <2>2. due' = due
    BY <1>12 DEF Answer, monitor
  <2>3. ToAnswer' = ToAnswer
    BY <2>1, <2>2 DEF ToAnswer, TicksLeft
  <2> QED BY <1>1, <1>12, <1>t, <2>3, LongestFits DEF Answer, collector, monitor
<1>13. ASSUME NEW t \in Tasks, Refuse(t) PROVE ContactInv'
  BY <1>1, <1>13 DEF Refuse, collector, monitor
<1>14. ASSUME NEW t \in Tasks, TakeAnswer(t) PROVE ContactInv'
  <2>1. past'.held = paused /\ past'.out = past.out
    BY <1>0, <1>14, PastTaken DEF PastBecomes
  <2>2. contact' = 0 /\ paused' = paused
    BY <1>14 DEF TakeAnswer
  <2>3. Within(contact', ToAnswer', Cycle)
    <3>1. contact' + Longest <= Cycle /\ contact' \in Int /\ Cycle \in Int
      BY <2>2, LiveBounds, LongestFits
    <3> QED BY <1>t, <3>1, WithinAll
  <2>4. contact' <= past'.out + Cycle
    BY <1>0, <2>1, <2>2, LiveBounds DEF PastFields
  <2> QED BY <2>1, <2>2, <2>3, <2>4 DEF ContactInv
<1>15. ASSUME NEW t \in Tasks, TakeRefusal(t) PROVE ContactInv'
  <2>1. due' = due /\ flight[t].stage = "refused"
        /\ \/ flight'[Loop] = flight[Loop]
           \/ t = Loop /\ flight'[Loop].stage = "idle"
    BY <1>15, EndMoves, LiveBounds DEF TakeRefusal, LiveTypeInv
  <2>2. flight[Loop].wait \in 0..Timeout /\ due \in 0..Gap
    BY Fetching, LiveBounds DEF LiveTypeInv, PlainInv
  <2>3. ToAnswer' <= ToAnswer
    BY <2>1, <2>2, LiveBounds DEF ToAnswer, TicksLeft
  <2> QED BY <1>1, <1>15, <2>3 DEF TakeRefusal, collector
<1>16. CASE UNCHANGED liveVars
  <2>1. ToAnswer' = ToAnswer
    BY <1>16 DEF liveVars, monitor, ToAnswer, TicksLeft
  <2> QED BY <1>1, <1>16, <1>t, <2>1, LongestFits DEF liveVars, collector, monitor
<1> QED BY <1>2, <1>3, <1>4, <1>6, <1>7, <1>8, <1>9, <1>10, <1>11, <1>12, <1>13, <1>14,
           <1>15, <1>16 DEF LiveNext

\* Every step keeps OutageInv: an answer is from before the outage, or none comes.
LEMMA OutageStep ==
    ASSUME LiveTypeInv, OutageInv, [LiveNext]_liveVars
    PROVE  OutageInv'
<1>0. /\ PastFields /\ past \in Pasts /\ paused \in BOOLEAN /\ contact \in 0..Old
      /\ contacted \in BOOLEAN /\ failed \in BOOLEAN /\ up \in BOOLEAN
      /\ (paused => past.running = 0)
  BY PastHasFields DEF LiveTypeInv, PlainInv
<1>t. /\ ToRefusal \in Int /\ ToRefusal' \in Int
      /\ ToRefusal \in 0..Longest /\ ToRefusal' \in 0..Longest
  <2>1. LiveTypeInv'
    BY LiveTypeStep
  <2>2. Outcomes'
    BY <2>1, OutcomesBounded, PTL
  <2> QED BY <2>2, OutcomesBounded, LongestFits DEF Outcomes
<1>1. ASSUME past'.link = past.link, past'.running = past.running, contact' = contact,
             contacted' = contacted, failed' = failed, up' = up,
             \A t \in Tasks : flight'[t] = flight[t] \/ flight'[t].stage # "answered",
             ToRefusal' = ToRefusal
      PROVE  OutageInv'
  BY <1>1 DEF OutageInv
<1>2. ASSUME past'.link = past.link, past'.running = 0, contact' = contact,
             contacted' = contacted, failed' = failed, up' = up,
             \A t \in Tasks : flight'[t] = flight[t] \/ flight'[t].stage # "answered"
      PROVE  OutageInv'
  <2>1. Within(past'.running, ToRefusal', Longest)
    BY <1>2, <1>t, LongestFits, WithinAll
  <2> QED BY <1>2, <2>1 DEF OutageInv
<1>3. CASE Outage
  <2>1. past'.link = 0 /\ contact' = contact /\ flight' = flight
    BY <1>0, <1>3, PastOutage DEF Outage, monitor, PastBecomes
  <2>2. Within(past'.link, ToRefusal', Cycle)
    <3>1. past'.link + Longest <= Cycle /\ past'.link \in Int /\ Cycle \in Int
      BY <2>1, LiveBounds, LongestFits
    <3> QED BY <1>t, <3>1, WithinAll
  <2>3. \A t \in Tasks : 0 <= flight[t].wait
    BY Fetching, LiveBounds
  <2> QED BY <1>0, <2>1, <2>2, <2>3, LiveBounds DEF OutageInv
<1>4. CASE Recovery
  BY <1>4 DEF Recovery, OutageInv
<1>5. ASSUME NEW ok \in BOOLEAN, Sampled(ok) PROVE OutageInv'
  <2>1. past'.link = past.link /\ past'.running = past.running
    <3>1. CASE ok = TRUE
      BY <1>0, <1>5, <3>1, PastGood DEF PastBecomes
    <3>2. CASE ok = FALSE
      BY <1>0, <1>5, <3>2, PastBad DEF PastBecomes
    <3> QED BY <3>1, <3>2
  <2>2. ToRefusal' = ToRefusal
    BY <1>5 DEF Sampled, monitor, ToRefusal, TicksLeft
  <2> QED BY <1>1, <1>5, <2>1, <2>2 DEF Sampled, monitor
<1>6. CASE StartCycle
  <2>1. \A t \in Tasks : flight'[t] = flight[t] \/ flight'[t].stage # "answered"
    BY <1>6, AskMoves, LiveBounds DEF StartCycle, LiveTypeInv
  <2>2. CASE paused
    BY <1>0, <1>2, <1>6, <2>1, <2>2 DEF StartCycle, collector
  <2>3. CASE ~paused
    <3>1. ToRefusal' = ToRefusal
      BY <1>6, <2>3, TicksAtStart DEF ToRefusal
    <3> QED BY <1>1, <1>6, <2>1, <3>1 DEF StartCycle, collector
  <2> QED BY <2>2, <2>3
<1>7. CASE Pause
  BY <1>0, <1>2, <1>7, PastPause DEF Pause, collector, PastBecomes
<1>8. CASE Resume
  <2>1. ToRefusal' = ToRefusal
    BY <1>8 DEF Resume, ToRefusal, TicksLeft
  <2> QED BY <1>1, <1>8, <2>1 DEF Resume, collector
<1>9. CASE Restart
  <2>1. /\ past'.link = past.link /\ contact' = Old /\ contacted' = FALSE
        /\ \A t \in Tasks : flight'[t] = Idle
    BY <1>0, <1>9, PastRestart DEF Restart, PastBecomes
  <2> QED BY <1>0, <2>1, IdleFetch, LiveBounds DEF OutageInv, PastFields
<1>10. CASE Tick
  <2>1. /\ past'.link = Later(past.link)
        /\ past'.running = IF paused THEN 0 ELSE UpTo(Cycle + 1, past.running)
    BY <1>10, PastTick DEF PastBecomes
  <2>2. ToRefusal' = ToRefusal - 1
    BY <1>10, TicksGoBy DEF ToRefusal
  <2>3. contact' = Later(contact)
    BY <1>10, TickClocks
  <2>4. /\ Later(past.link) <= past.link + 1 /\ Later(past.link) \in Int
        /\ past.link <= contact + Timeout => Later(past.link) <= Later(contact) + Timeout
    BY <1>0, LiveBounds DEF Later, UpTo, PastFields
  <2>5. past'.running <= past.running + 1 /\ past'.running \in Int
    BY <1>0, <2>1, LiveBounds DEF UpTo, PastFields
  <2>6. up' = up /\ contacted' = contacted /\ failed' = failed
    BY <1>10 DEF Tick
  <2>7. /\ past.link \in Int /\ past.running \in Int /\ Cycle \in Int /\ Longest \in Int
    BY <1>0, LiveBounds, LongestFits DEF PastFields
  <2>8. ASSUME ~up, NEW t \in Tasks, flight'[t].stage = "answered"
        PROVE  past'.link <= flight'[t].wait
    <3>1. flight[t].stage = "answered" /\ flight'[t].wait = flight[t].wait + 1
      BY <1>10, <2>8, TickMoves
    <3>2. past.link <= flight[t].wait /\ flight[t].wait \in Int
      BY <2>8, <3>1, Fetching, LiveBounds DEF OutageInv
    <3> QED BY <2>1, <2>4, <2>7, <3>1, <3>2
  <2>9. ASSUME ~up, contacted, ~failed
        PROVE  Within(past'.link, ToRefusal', Cycle) \/ Within(past'.running, ToRefusal', Longest)
    <3>1. CASE Within(past.link, ToRefusal, Cycle)
      BY <1>t, <2>1, <2>2, <2>4, <2>7, <3>1, WithinNext
    <3>2. CASE Within(past.running, ToRefusal, Longest)
      BY <1>t, <2>2, <2>5, <2>7, <3>2, WithinNext
    <3> QED BY <2>9, <3>1, <3>2 DEF OutageInv
  <2> QED BY <2>1, <2>3, <2>4, <2>6, <2>8, <2>9 DEF OutageInv
<1>11. ASSUME NEW t \in Tasks, ForceCycle(t) PROVE OutageInv'
  <2>1. flight'[Loop] = flight[Loop] /\ due' = due
    BY <1>11, AskMoves, LiveBounds DEF ForceCycle, LiveTypeInv, monitor
  <2>2. ToRefusal' = ToRefusal
    BY <2>1 DEF ToRefusal, TicksLeft
  <2>3. \A u \in Tasks : flight'[u] = flight[u] \/ flight'[u].stage # "answered"
    BY <1>11, AskMoves DEF ForceCycle, LiveTypeInv
  <2> QED BY <1>1, <1>11, <2>2, <2>3 DEF ForceCycle, collector, monitor
<1>12. ASSUME NEW t \in Tasks, Answer(t) PROVE OutageInv'
  BY <1>12 DEF Answer, OutageInv, collector
<1>13. ASSUME NEW t \in Tasks, Refuse(t) PROVE OutageInv'
  <2>1. /\ \A u \in Tasks : flight'[u] = flight[u] \/ flight'[u].stage # "answered"
        /\ \/ flight'[Loop] = flight[Loop]
           \/ /\ flight'[Loop].wait = flight[Loop].wait
              /\ flight[Loop].stage = "asking" /\ flight'[Loop].stage = "refused"
    BY <1>13, RefuseMoves, LiveBounds DEF Refuse
  <2>2. due' = due
    BY <1>13 DEF Refuse, monitor
  <2>3. ToRefusal' = ToRefusal
    BY <2>1, <2>2 DEF ToRefusal, TicksLeft
  <2> QED BY <1>1, <1>13, <2>1, <2>3 DEF Refuse, collector, monitor
<1>14. ASSUME NEW t \in Tasks, TakeAnswer(t) PROVE OutageInv'
  <2>1. past'.link = past.link
    BY <1>0, <1>14, PastTaken DEF PastBecomes
  <2>2. /\ contact' = 0 /\ up' = up /\ due' = due
        /\ flight[t].stage = "answered" /\ flight' = [flight EXCEPT ![t] = Idle]
    BY <1>14 DEF TakeAnswer, collector
  <2>3. \A u \in Tasks : flight'[u] = flight[u] \/ flight'[u].stage # "answered"
    BY <2>2, EndMoves DEF LiveTypeInv
  <2>4. ASSUME ~up
        PROVE  past.link <= Timeout /\ Within(past'.link, ToRefusal', Cycle)
    <3>1. /\ past.link <= flight[t].wait /\ flight[t].wait \in 0..Timeout
          /\ flight[Loop].stage = "answered" => past.link <= flight[Loop].wait
      BY <2>2, <2>4, Fetching, LiveBounds DEF OutageInv
    <3>2. past.link \in Nat
      BY <1>0, LiveBounds DEF PastFields
    <3>3. past.link + TicksLeft("answered", flight'[Loop], due') <= Cycle
      BY <2>2, <3>1, <3>2, TicksAfterEnd
    <3> QED BY <2>1, <3>1, <3>2, <3>3, LiveBounds DEF Within, ToRefusal
  <2> QED BY <1>0, <2>1, <2>2, <2>3, <2>4, LiveBounds DEF OutageInv, PastFields
<1>15. ASSUME NEW t \in Tasks, TakeRefusal(t) PROVE OutageInv'
  <2>1. \A u \in Tasks : flight'[u] = flight[u] \/ flight'[u].stage # "answered"
    BY <1>15, EndMoves DEF TakeRefusal, LiveTypeInv
  <2>2. past' = past /\ contact' = contact /\ up' = up /\ failed' = TRUE
    BY <1>15 DEF TakeRefusal, collector
  <2> QED BY <2>1, <2>2 DEF OutageInv
<1>16. CASE UNCHANGED liveVars
  <2>1. ToRefusal' = ToRefusal
    BY <1>16 DEF liveVars, monitor, ToRefusal, TicksLeft
  <2> QED BY <1>1, <1>16, <2>1 DEF liveVars, collector, monitor
<1> QED BY <1>3, <1>4, <1>5, <1>6, <1>7, <1>8, <1>9, <1>10, <1>11, <1>12, <1>13, <1>14,
           <1>15, <1>16 DEF LiveNext

\* Every step keeps WellInv: what is refused was asked before, what is answered is good.
LEMMA WellStep ==
    ASSUME LiveTypeInv, WellInv, [LiveNext]_liveVars
    PROVE  WellInv'
<1> DEFINE Good == 2 * Gap + 2 * Timeout
           Awaited ==
             \/ Within(past.well, ToAnswer, Cycle)
             \/ Within(past.running, ToAnswer, Longest)
             \/ contacted /\ ~failed /\ shown.ok /\ Within(shown.age, ToAnswer, Good)
           FromBefore(f) ==
             /\ f.stage = "refused" => past.well <= f.wait
             /\ f.stage = "answered" =>
                  \/ past.well <= f.wait
                  \/ f.ok /\ f.age <= Gap + f.wait
<1>0. /\ PastFields /\ past \in Pasts /\ paused \in BOOLEAN
      /\ contacted \in BOOLEAN /\ failed \in BOOLEAN /\ up \in BOOLEAN
      /\ sample.ok \in BOOLEAN /\ sample.age \in 0..Old /\ shown.age \in 0..Old
      /\ shown.ok \in BOOLEAN /\ (paused => past.running = 0)
  BY PastHasFields DEF LiveTypeInv, PlainInv
<1>n. /\ past.well \in Nat /\ past.running \in Nat /\ past.running \in Int /\ past.well \in Int
      /\ shown.age \in Int /\ sample.age \in Int /\ Gap \in Int /\ Timeout \in Int
      /\ Cycle \in Int /\ Longest \in Int /\ Good \in Int
      /\ 0 + Longest <= Cycle /\ 0 + Longest <= Longest
  BY <1>0, LiveBounds, LongestFits DEF PastFields
<1>t. /\ ToAnswer \in Int /\ ToAnswer' \in Int
      /\ ToAnswer \in 0..Longest /\ ToAnswer' \in 0..Longest
  <2>1. LiveTypeInv'
    BY LiveTypeStep
  <2>2. Outcomes'
    BY <2>1, OutcomesBounded, PTL
  <2> QED BY <2>2, OutcomesBounded, LongestFits DEF Outcomes
<1>w. Within(0, ToAnswer', Cycle) /\ Within(0, ToAnswer', Longest)
  BY <1>n, <1>t, WithinAll
<1>i. /\ ~up => past.well = 0
      /\ past.well > 0 => sample.ok /\ sample.age <= Gap
      /\ \A t \in Tasks : FromBefore(flight[t])
      /\ Awaited
  BY DEF WellInv
<1>e. ASSUME ~up' => past'.well = 0,
             past'.well > 0 => sample'.ok /\ sample'.age <= Gap,
             \A t \in Tasks : FromBefore(flight[t])',
             Awaited'
      PROVE  WellInv'
  BY <1>e DEF WellInv
<1>z. \A t \in Tasks : flight[t].wait \in Int /\ 0 <= flight[t].wait
  BY Fetching, LiveBounds
<1> HIDE DEF Good
\* Nothing is bad while the collector has not been well.
<1>1. ASSUME past'.well = 0, \A t \in Tasks : flight'[t].wait \in Int /\ 0 <= flight'[t].wait
      PROVE  WellInv'
  BY <1>1, <1>w, <1>e
\* The same fetches, or one less.
<1>2. ASSUME past'.well = past.well, past'.running = past.running, up' = up,
             sample' = sample, shown' = shown, contacted' = contacted, failed' = failed,
             \A t \in Tasks : flight'[t] = flight[t] \/ flight'[t].stage \in {"idle", "asking"},
             ToAnswer' = ToAnswer
      PROVE  WellInv'
  BY <1>2, <1>i, <1>e
\* The loop has just been stopped.
<1>3. ASSUME past'.well = past.well, past'.running = 0, up' = up, sample' = sample,
             \A t \in Tasks : flight'[t] = flight[t] \/ flight'[t].stage \in {"idle", "asking"}
      PROVE  WellInv'
  BY <1>3, <1>i, <1>e, <1>w
<1>4. CASE Outage
  BY <1>0, <1>1, <1>4, <1>z, PastOutage DEF Outage, PastBecomes
<1>5. CASE Recovery
  <2>1. past'.well = 0 /\ flight' = flight
    BY <1>0, <1>5, <1>i, PastRecovery DEF Recovery, PastBecomes
  <2> QED BY <1>1, <1>z, <2>1
<1>6. CASE Sampled(TRUE)
  <2>1. past'.well = past.well /\ past'.running = past.running
    BY <1>0, <1>6, PastGood DEF PastBecomes
  <2>2. sample'.ok = TRUE /\ sample'.age = 0 /\ up' = up /\ UNCHANGED <<flight, monitor>>
    BY <1>6 DEF Sampled
  <2>3. ToAnswer' = ToAnswer
    BY <2>2 DEF monitor, ToAnswer, TicksLeft
  <2> QED BY <1>e, <1>i, <2>1, <2>2, <2>3, LiveBounds DEF monitor
<1>7. CASE Sampled(FALSE)
  BY <1>0, <1>1, <1>7, <1>z, PastBad DEF Sampled, PastBecomes
<1>8. CASE StartCycle
  <2>1. \A t \in Tasks : flight'[t] = flight[t] \/ flight'[t].stage \in {"idle", "asking"}
    BY <1>8, AskMoves, LiveBounds DEF StartCycle, LiveTypeInv
  <2>2. CASE paused
    BY <1>0, <1>3, <1>8, <2>1, <2>2 DEF StartCycle, collector
  <2>3. CASE ~paused
    <3>1. ToAnswer' = ToAnswer
      BY <1>8, <2>3, TicksAtStart DEF ToAnswer
    <3> QED BY <1>2, <1>8, <2>1, <3>1 DEF StartCycle, collector
  <2> QED BY <2>2, <2>3
<1>9. CASE Pause
  BY <1>0, <1>3, <1>9, PastPause DEF Pause, collector, PastBecomes
<1>10. CASE Resume
  <2>1. ToAnswer' = ToAnswer
    BY <1>10 DEF Resume, ToAnswer, TicksLeft
  <2> QED BY <1>2, <1>10, <2>1 DEF Resume, collector
<1>11. CASE Restart
  <2>1. \A t \in Tasks : flight'[t].stage = "idle"
    BY <1>11, IdleFetch DEF Restart
  <2> QED BY <1>0, <1>3, <1>11, <2>1, PastRestart DEF Restart, collector, PastBecomes
<1>12. CASE Tick
  <2>1. /\ past'.well = IF up /\ sample.ok /\ sample'.age <= Gap
                        THEN UpTo(Cycle + 1, past.well) ELSE 0
        /\ past'.running = IF paused THEN 0 ELSE UpTo(Cycle + 1, past.running)
    BY <1>12, PastTick DEF PastBecomes
  <2>2. ToAnswer' = ToAnswer - 1
    BY <1>12, TicksGoBy DEF ToAnswer
  <2>3. /\ past'.well <= past.well + 1 /\ past'.well \in Int
        /\ past'.running <= past.running + 1 /\ past'.running \in Int
    BY <1>0, <2>1, LiveBounds DEF UpTo, PastFields
  <2>4. /\ sample'.ok = sample.ok /\ shown'.ok = shown.ok
        /\ shown'.age <= shown.age + 1 /\ shown'.age \in Int
    BY <1>0, <1>12, TickClocks, LiveBounds DEF Later, UpTo
  <2>5. up' = up /\ contacted' = contacted /\ failed' = failed
    BY <1>12 DEF Tick
  <2>6. ASSUME NEW t \in Tasks PROVE FromBefore(flight[t])'
    <3>1. /\ flight'[t].stage = flight[t].stage /\ flight'[t].ok = flight[t].ok
          /\ flight[t].stage # "idle" => flight'[t].wait = flight[t].wait + 1
          /\ flight[t].stage = "answered" => flight'[t].age = Later(flight[t].age)
      BY <1>12, TickMoves
    <3>2. /\ flight[t].wait \in Int /\ flight[t].age \in Int
          /\ Later(flight[t].age) <= flight[t].age + 1 /\ Later(flight[t].age) \in Int
      BY Fetching, LiveBounds DEF Later, UpTo
    <3>3. FromBefore(flight[t])
      BY <1>i
    <3> QED BY <1>n, <2>3, <3>1, <3>2, <3>3
  <2>7. Awaited'
    <3>1. CASE Within(past.well, ToAnswer, Cycle)
      BY <1>n, <1>t, <2>2, <2>3, <3>1, WithinNext
    <3>2. CASE Within(past.running, ToAnswer, Longest)
      BY <1>n, <1>t, <2>2, <2>3, <3>2, WithinNext
    <3>3. CASE contacted /\ ~failed /\ shown.ok /\ Within(shown.age, ToAnswer, Good)
      <4>1. Within(shown'.age, ToAnswer', Good)
        BY <1>n, <1>t, <2>2, <2>4, <3>3, WithinNext
      <4> QED BY <2>4, <2>5, <3>3, <4>1 DEF Good
    <3> QED BY <1>i, <3>1, <3>2, <3>3
  <2> QED BY <1>e, <2>1, <2>4, <2>5, <2>6, <2>7
<1>13. ASSUME NEW t \in Tasks, ForceCycle(t) PROVE WellInv'
  <2>1. flight'[Loop] = flight[Loop] /\ due' = due
    BY <1>13, AskMoves, LiveBounds DEF ForceCycle, LiveTypeInv, monitor
  <2>2. ToAnswer' = ToAnswer
    BY <2>1 DEF ToAnswer, TicksLeft
  <2>3. \A u \in Tasks : flight'[u] = flight[u] \/ flight'[u].stage \in {"idle", "asking"}
    BY <1>13, AskMoves DEF ForceCycle, LiveTypeInv
  <2> QED BY <1>2, <1>13, <2>2, <2>3 DEF ForceCycle, collector, monitor
<1>14. ASSUME NEW t \in Tasks, Answer(t) PROVE WellInv'
  <2>1. /\ flight'[t].stage = "answered" /\ flight'[t].wait = flight[t].wait
        /\ flight'[t].ok = sample.ok /\ flight'[t].age = sample.age
        /\ \A u \in Tasks : u # t => flight'[u] = flight[u]
    BY <1>14, AnswerMoves
  <2>2. UNCHANGED <<collector, monitor, past>> /\ flight[t].stage = "asking"
    BY <1>14 DEF Answer
  <2>3. ToAnswer' = ToAnswer
    <3>1. \/ flight'[Loop] = flight[Loop]
          \/ /\ flight'[Loop].wait = flight[Loop].wait
             /\ flight[Loop].stage = "asking" /\ flight'[Loop].stage = "answered"
      BY <2>1, <2>2, LiveBounds
    <3>2. due' = due
      BY <2>2 DEF monitor
    <3> QED BY <3>1, <3>2 DEF ToAnswer, TicksLeft
  <2>4. FromBefore(flight[t])'
    <3>1. past.well = 0 \/ (sample.ok /\ sample.age <= Gap)
      BY <1>i, <1>n
    <3> QED BY <1>n, <1>z, <2>1, <2>2, <3>1
  <2>5. \A u \in Tasks : FromBefore(flight[u])'
    BY <1>i, <2>1, <2>2, <2>4
  <2> QED BY <1>e, <1>i, <2>2, <2>3, <2>5 DEF collector, monitor
<1>15. ASSUME NEW t \in Tasks, Refuse(t) PROVE WellInv'
  <2>1. past'.well = 0
    BY <1>15, <1>i DEF Refuse
  <2>2. \A u \in Tasks : flight'[u].wait = flight[u].wait
    BY <1>15, RefuseMoves
  <2> QED BY <1>1, <1>z, <2>1, <2>2
<1>16. ASSUME NEW t \in Tasks, TakeAnswer(t) PROVE WellInv'
  <2> DEFINE left == TicksLeft("refused", flight'[Loop], due')
  <2>1. /\ flight' = [flight EXCEPT ![t] = Idle] /\ due' = due
        /\ sample' = sample /\ up' = up /\ flight[t].stage = "answered"
        /\ contacted' = TRUE /\ failed' = FALSE
        /\ shown'.ok = flight[t].ok /\ shown'.age = flight[t].age
    BY <1>16 DEF TakeAnswer, collector
  <2>2. past'.well = past.well /\ past'.running = past.running
    BY <1>0, <1>16, PastTaken DEF PastBecomes
  <2>3. \A u \in Tasks : flight'[u] = flight[u] \/ flight'[u].stage \in {"idle", "asking"}
    BY <2>1, EndMoves DEF LiveTypeInv
  <2>4. flight[Loop].stage = "refused" => past.well <= flight[Loop].wait
    BY <1>i, LiveBounds
  <2>5. /\ flight[t].wait \in 0..Timeout /\ flight[Loop].wait \in 0..Timeout /\ due \in 0..Gap
        /\ flight[t].age \in Int
    BY Fetching, LiveBounds DEF LiveTypeInv, PlainInv
  <2>6. ToAnswer' = left
    BY DEF ToAnswer
  <2>7. past.well <= flight[t].wait => past.well + left <= Cycle
    BY <1>n, <2>1, <2>4, TicksAfterEnd
  <2>8. ASSUME flight[t].age <= Gap + flight[t].wait
        PROVE  flight[t].age + left <= Good \/ past.well + left <= Cycle
    <3>1. CASE t = Loop
      <4>1. flight'[Loop].stage = "idle"
        BY <2>1, <3>1, EndMoves DEF LiveTypeInv
      <4>2. left = due + Timeout
        BY <2>1, <4>1 DEF TicksLeft
      <4> HIDE DEF left
      <4> QED BY <2>5, <2>8, <4>2, LiveBounds DEF Good
    <3>2. CASE t # Loop
      <4>1. left = TicksLeft("refused", flight[Loop], due)
        BY <2>1, <3>2, EndMoves, LiveBounds DEF LiveTypeInv
      <4> HIDE DEF left
      <4>2. \/ left = due + Timeout
            \/ left = Timeout - flight[Loop].wait
            \/ flight[Loop].stage = "refused" /\ left = 2 * Timeout - flight[Loop].wait
        BY <4>1, TicksBounded
      <4> QED BY <1>n, <2>4, <2>5, <2>8, <4>2, LiveBounds DEF Good
    <3> QED BY <3>1, <3>2
  <2>9. FromBefore(flight[t])
    BY <1>i
  <2>10. CASE past.well <= flight[t].wait \/ past.well + left <= Cycle
    <3>1. Within(past'.well, ToAnswer', Cycle)
      BY <2>2, <2>6, <2>7, <2>10 DEF Within
    <3> QED BY <1>e, <1>i, <2>1, <2>2, <2>3, <3>1
  <2>11. CASE flight[t].ok /\ flight[t].age + left <= Good
    <3>1. Within(shown'.age, ToAnswer', Good)
      BY <2>1, <2>6, <2>11 DEF Within
    <3>2. Awaited'
      BY <2>1, <2>11, <3>1 DEF Good
    <3> QED BY <1>e, <1>i, <2>1, <2>2, <2>3, <3>2
  <2> QED BY <2>1, <2>8, <2>9, <2>10, <2>11
<1>17. ASSUME NEW t \in Tasks, TakeRefusal(t) PROVE WellInv'
  <2>1. /\ flight' = [flight EXCEPT ![t] = Idle] /\ due' = due /\ past' = past
        /\ sample' = sample /\ up' = up /\ flight[t].stage = "refused"
    BY <1>17 DEF TakeRefusal, collector
  <2>2. \A u \in Tasks : flight'[u] = flight[u] \/ flight'[u].stage \in {"idle", "asking"}
    BY <2>1, EndMoves DEF LiveTypeInv
  <2>3. past.well <= flight[t].wait
        /\ (flight[Loop].stage = "refused" => past.well <= flight[Loop].wait)
    BY <1>i, <2>1, LiveBounds
  <2>4. past.well + TicksLeft("refused", flight'[Loop], due') <= Cycle
    BY <1>n, <2>1, <2>3, TicksAfterEnd
  <2>5. Within(past'.well, ToAnswer', Cycle)
    BY <2>1, <2>4 DEF Within, ToAnswer
  <2> QED BY <1>e, <1>i, <2>1, <2>2, <2>5
<1>18. CASE UNCHANGED liveVars
  <2>1. ToAnswer' = ToAnswer
    BY <1>18 DEF liveVars, monitor, ToAnswer, TicksLeft
  <2> QED BY <1>2, <1>18, <2>1 DEF liveVars, collector, monitor
<1> QED BY <1>4, <1>5, <1>6, <1>7, <1>8, <1>9, <1>10, <1>11, <1>12, <1>13, <1>14, <1>15, <1>16,
           <1>17, <1>18 DEF LiveNext

-----------------------------------------------------------------------------

\* The invariant of the connection state.
LiveInv == LiveTypeInv /\ OnlineInv /\ ContactInv /\ OutageInv /\ WellInv

\* It holds at first.
LEMMA LiveInvInit == LiveInit => LiveInv
<1> SUFFICES ASSUME LiveInit PROVE LiveInv
  OBVIOUS
<1>1. LiveTypeInv
  BY LiveTypeInit
<1>2. ASSUME NEW t \in Tasks, flight[t].stage # "idle" PROVE FALSE
  <2>1. flight[t] = Idle
    BY DEF LiveInit
  <2> QED BY <1>2, <2>1 DEF Idle
<1>3. /\ up = TRUE /\ paused = FALSE /\ contacted = FALSE /\ shown.ok = FALSE
      /\ past.well = 0 /\ sample.age = 0
      /\ past.sinceOk = IF sample.ok THEN 0 ELSE StaleAfter + Skew
  BY DEF LiveInit
<1>4. OnlineInv
  BY <1>2, <1>3 DEF OnlineInv
<1>5. ContactInv /\ OutageInv
  BY <1>3 DEF ContactInv, OutageInv
<1>6. Within(past.well, ToAnswer, Cycle)
  <2>1. ToAnswer \in 0..Longest
    BY <1>1, OutcomesBounded DEF Outcomes
  <2> QED BY <1>3, <2>1, LongestFits, LiveBounds, WithinAll
<1>7. WellInv
  BY <1>2, <1>3, <1>6 DEF WellInv
<1> QED BY <1>1, <1>4, <1>5, <1>7 DEF LiveInv

\* Every step keeps it.
LEMMA LiveInvStep == LiveInv /\ [LiveNext]_liveVars => LiveInv'
  BY LiveTypeStep, OnlineStep, ContactStep, OutageStep, WellStep DEF LiveInv

\* What is said of the collector follows from it.
LEMMA LiveInvIsTrue == LiveInv => OnlineWasTrue /\ OfflineIsAnOutageUnlessPaused
<1> SUFFICES ASSUME LiveInv PROVE OnlineWasTrue /\ OfflineIsAnOutageUnlessPaused
  OBVIOUS
<1>1. /\ PastFields /\ shown.age \in 0..Old /\ contact \in 0..Old
      /\ contacted \in BOOLEAN /\ failed \in BOOLEAN
  BY PastHasFields DEF LiveInv, LiveTypeInv, PlainInv
<1>2. ASSUME ConnectionState = "online" PROVE past.sinceOk < StaleAfter + Skew
  <2>1. shown.ok /\ ~Stale
    BY <1>2 DEF ConnectionState
  <2>2. DataAge < StaleAfter
    BY <1>1, <2>1, LiveBounds DEF Stale, DataAge
  <2>3. shown.age < StaleAfter + Skew
    BY <1>1, <2>2, LiveBounds DEF DataAge
  <2>4. past.sinceOk <= shown.age
    BY <2>1 DEF LiveInv, OnlineInv
  <2> QED BY <1>1, <2>3, <2>4, LiveBounds DEF PastFields
<1>3. ASSUME contacted, ConnectionState = "offline", ~past.held PROVE OutageBehind
  <2>1. contact >= OfflineAfter
    BY <1>3 DEF ConnectionState
  <2>2. contact <= past.out + Cycle \/ past.out = OfflineAfter
    BY <1>3 DEF LiveInv, ContactInv
  <2> QED BY <1>1, <2>1, <2>2, LiveBounds DEF OutageBehind, PastFields
<1> QED BY <1>2, <1>3 DEF OnlineWasTrue, OfflineIsAnOutageUnlessPaused

\* What lasts is said, if a poll fits into the thresholds.
LEMMA LiveInvIsInTime ==
    ASSUME Gap + Timeout < OfflineAfter, 2 * Gap + 2 * Timeout < StaleAfter + Skew
    PROVE  LiveInv => OutageIsAnnounced /\ RecoversInTime
<1> SUFFICES ASSUME LiveInv PROVE OutageIsAnnounced /\ RecoversInTime
  OBVIOUS
<1>1. /\ PastFields /\ shown.age \in 0..Old /\ contact \in 0..Old
      /\ contacted \in BOOLEAN /\ failed \in BOOLEAN /\ up \in BOOLEAN
      /\ ToAnswer \in Int /\ ToAnswer >= 0 /\ ToRefusal \in Int /\ ToRefusal >= 0
  BY PastHasFields, OutcomesBounded, LongestFits
     DEF LiveInv, LiveTypeInv, PlainInv, Outcomes
<1>2. ASSUME ~up, past.link >= OfflineAfter + Timeout
      PROVE  /\ ~CollectorReachable
             /\ past.running >= Cycle => ConnectionState = "offline"
  <2>1. past.link <= contact + Timeout
    BY <1>2 DEF LiveInv, OutageInv
  <2>2. contact >= OfflineAfter
    BY <1>1, <1>2, <2>1, LiveBounds DEF PastFields
  <2>3. ASSUME past.running >= Cycle, contacted, ~failed PROVE FALSE
    <3>1. Within(past.link, ToRefusal, Cycle) \/ Within(past.running, ToRefusal, Longest)
      BY <1>2, <2>3 DEF LiveInv, OutageInv
    <3>2. past.link > Cycle
      BY <1>1, <1>2, LiveBounds DEF PastFields
    <3>3. past.running > Longest
      BY <1>1, <2>3, LongestFits, LiveBounds DEF PastFields
    <3>4. past.link \in Int /\ past.running \in Int /\ Cycle \in Int /\ Longest \in Int
      BY <1>1, LongestFits, LiveBounds DEF PastFields
    <3> QED BY <1>1, <3>1, <3>2, <3>3, <3>4 DEF Within
  <2> QED BY <1>1, <2>2, <2>3, LiveBounds DEF CollectorReachable, ConnectionState
<1>3. ASSUME past.well > Cycle, past.running > Cycle PROVE ConnectionState = "online"
  <2>1. \/ Within(past.well, ToAnswer, Cycle)
        \/ Within(past.running, ToAnswer, Longest)
        \/ contacted /\ ~failed /\ shown.ok /\ Within(shown.age, ToAnswer, 2 * Gap + 2 * Timeout)
    BY DEF LiveInv, WellInv
  <2>2. /\ past.well \in Int /\ past.running \in Int /\ Cycle \in Int /\ Longest \in Int
        /\ Longest < Cycle
    BY <1>1, LongestFits, LiveBounds DEF PastFields
  <2>3. contacted /\ ~failed /\ shown.ok /\ Within(shown.age, ToAnswer, 2 * Gap + 2 * Timeout)
    BY <1>1, <1>3, <2>1, <2>2 DEF Within
  <2>4. shown.age < StaleAfter + Skew
    BY <1>1, <2>3, LiveBounds DEF Within
  <2>5. ~Stale
    BY <1>1, <2>3, <2>4, LiveBounds DEF Stale, DataAge
  <2> QED BY <1>1, <2>3, <2>5 DEF ConnectionState
<1> QED BY <1>2, <1>3 DEF OutageIsAnnounced, RecoversInTime

-----------------------------------------------------------------------------
(* The settings. *)

\* The settings that are numbers, and overrides that a store can hold.
Numbered == Fields \ {"rack_name"}

IsOverrides(o) == DOMAIN o \subseteq Fields /\ \A f \in DOMAIN o : o[f] \in Values(f)

\* What is to be written holds the patch, and the rest of what was read.
Carries(o, patch) == \A f \in DOMAIN patch : f \in DOMAIN o /\ o[f] = patch[f]

Extends(o, old, patch) ==
    \A f \in Fields \ DOMAIN patch :
        /\ f \in DOMAIN old <=> f \in DOMAIN o
        /\ f \in DOMAIN old => o[f] = old[f]

RequestInv(r) ==
    /\ request[r].at \in {"none", "refused", "write", "answer", "done"}
    /\ request[r].at = "none" => request[r] = NoRequest
    /\ request[r].at # "none" => request[r].patch \in Patches
    /\ request[r].at \in {"write", "answer", "done"} =>
          \A f \in DOMAIN request[r].patch : Accepted(f, request[r].patch[f])
    /\ request[r].at = "write" =>
          /\ IsOverrides(request[r].overrides)
          /\ Carries(request[r].overrides, request[r].patch)
    /\ fresh[r] =>
          /\ request[r].at \in {"write", "answer", "done"}
          /\ request[r].at = "write" =>
                Extends(request[r].overrides, stored, request[r].patch)
          /\ request[r].at = "answer" => Carries(stored, request[r].patch)

\* What is written or read back carries the patch, and while nothing else is written
\* the rest is as it is stored.
AdminInv ==
    /\ DOMAIN request = Requests /\ DOMAIN fresh = Requests
    /\ IsOverrides(stored)
    /\ \A r \in Requests : RequestInv(r)

\* It holds at first: nothing is stored, nobody asks.
LEMMA AdminInvInit == AdminInit => AdminInv
<1> SUFFICES ASSUME AdminInit PROVE AdminInv
  OBVIOUS
<1>1. IsOverrides(stored)
  BY AdminAssumption DEF AdminInit, IsOverrides
<1>2. ASSUME NEW r \in Requests PROVE RequestInv(r)
  <2>1. request[r] = NoRequest /\ ~fresh[r]
    BY DEF AdminInit
  <2> QED BY <2>1 DEF RequestInv, NoRequest
<1>3. DOMAIN request = Requests /\ DOMAIN fresh = Requests
  BY DEF AdminInit
<1> QED BY <1>1, <1>2, <1>3 DEF AdminInv

\* A patch over overrides.
LEMMA PatchedOverrides ==
    ASSUME NEW o, IsOverrides(o), NEW patch \in Patches
    PROVE  /\ IsOverrides(Patched(o, patch))
           /\ Carries(Patched(o, patch), patch)
           /\ Extends(Patched(o, patch), o, patch)
<1>1. DOMAIN patch \subseteq Fields /\ \A f \in DOMAIN patch : patch[f] \in Values(f)
  BY AdminAssumption
<1>2. DOMAIN Patched(o, patch) = DOMAIN o \cup DOMAIN patch
  BY DEF Patched
<1>3. \A f \in DOMAIN o \cup DOMAIN patch :
         Patched(o, patch)[f] = IF f \in DOMAIN patch THEN patch[f] ELSE o[f]
  BY DEF Patched
<1> QED BY <1>1, <1>2, <1>3 DEF IsOverrides, Carries, Extends

\* Every step of a request keeps it.
LEMMA AdminInvStep == AdminInv /\ [AdminNext]_adminVars => AdminInv'
<1> SUFFICES ASSUME AdminInv, [AdminNext]_adminVars PROVE AdminInv'
  OBVIOUS
<1>0. /\ DOMAIN request = Requests /\ DOMAIN fresh = Requests /\ IsOverrides(stored)
      /\ \A r \in Requests : RequestInv(r)
  BY DEF AdminInv
\* The others are as they were.
<1>1. ASSUME NEW q \in Requests, request'[q] = request[q], fresh'[q] = fresh[q], stored' = stored
      PROVE  RequestInv(q)'
  BY <1>0, <1>1 DEF RequestInv
<1>2. ASSUME NEW r \in Requests, NEW patch \in Patches, Read(r, patch) PROVE AdminInv'
  <2> DEFINE new == [at |-> "write", patch |-> patch, overrides |-> Patched(stored, patch)]
  <2>1. request' = [request EXCEPT ![r] = new] /\ fresh' = [fresh EXCEPT ![r] = TRUE]
        /\ stored' = stored /\ \A f \in DOMAIN patch : Accepted(f, patch[f])
    BY <1>2 DEF Read
  <2>2. /\ new.at = "write" /\ new.patch = patch
        /\ new.overrides = Patched(stored, patch)
    OBVIOUS
  <2> HIDE DEF new
  <2>3. RequestInv(r)'
    BY <1>0, <2>1, <2>2, PatchedOverrides DEF RequestInv
  <2>4. \A q \in Requests : q # r => RequestInv(q)'
    BY <1>0, <1>1, <2>1
  <2> QED BY <1>0, <2>1, <2>3, <2>4 DEF AdminInv
<1>3. ASSUME NEW r \in Requests, NEW patch \in Patches, RefusePut(r, patch) PROVE AdminInv'
  <2> DEFINE new == [at |-> "refused", patch |-> patch]
  <2>1. request' = [request EXCEPT ![r] = new] /\ fresh' = fresh /\ stored' = stored
        /\ request[r] = NoRequest
    BY <1>3 DEF RefusePut
  <2>2. new.at = "refused" /\ new.patch = patch /\ NoRequest.at = "none"
    BY DEF NoRequest
  <2> HIDE DEF new
  <2>3. ~fresh[r]
    BY <1>0, <2>1, <2>2 DEF RequestInv
  <2>4. RequestInv(r)'
    BY <1>0, <2>1, <2>2, <2>3 DEF RequestInv
  <2>5. \A q \in Requests : q # r => RequestInv(q)'
    BY <1>0, <1>1, <2>1
  <2> QED BY <1>0, <2>1, <2>4, <2>5 DEF AdminInv
<1>4. ASSUME NEW r \in Requests, Write(r) PROVE AdminInv'
  <2> DEFINE new == [at |-> "answer", patch |-> request[r].patch]
  <2>1. request' = [request EXCEPT ![r] = new] /\ fresh' = [q \in Requests |-> q = r]
        /\ stored' = request[r].overrides /\ request[r].at = "write"
    BY <1>0, <1>4 DEF Write
  <2>2. new.at = "answer" /\ new.patch = request[r].patch
    OBVIOUS
  <2> HIDE DEF new
  <2>3. RequestInv(r)'
    BY <1>0, <2>1, <2>2 DEF RequestInv
  <2>4. ASSUME NEW q \in Requests, q # r PROVE RequestInv(q)'
    <3>1. request'[q] = request[q] /\ ~fresh'[q]
      BY <1>0, <2>1, <2>4
    <3> QED BY <1>0, <3>1 DEF RequestInv
  <2>5. IsOverrides(stored')
    BY <1>0, <2>1 DEF RequestInv
  <2> QED BY <1>0, <2>1, <2>3, <2>4, <2>5 DEF AdminInv, IsOverrides
<1>5. ASSUME NEW r \in Requests, AnswerPut(r) PROVE AdminInv'
  <2> DEFINE new == [at |-> "done", patch |-> request[r].patch, shown |-> PublicConfig]
  <2>1. request' = [request EXCEPT ![r] = new] /\ fresh' = fresh /\ stored' = stored
        /\ request[r].at = "answer"
    BY <1>0, <1>5 DEF AnswerPut
  <2>2. new.at = "done" /\ new.patch = request[r].patch
    OBVIOUS
  <2> HIDE DEF new
  <2>3. RequestInv(r)'
    BY <1>0, <2>1, <2>2 DEF RequestInv
  <2>4. \A q \in Requests : q # r => RequestInv(q)'
    BY <1>0, <1>1, <2>1
  <2> QED BY <1>0, <2>1, <2>3, <2>4 DEF AdminInv
<1>6. ASSUME NEW r \in Requests, Finish(r) PROVE AdminInv'
  <2>1. request' = [request EXCEPT ![r] = NoRequest] /\ fresh' = [fresh EXCEPT ![r] = FALSE]
        /\ stored' = stored /\ NoRequest.at = "none"
    BY <1>6 DEF Finish, NoRequest
  <2>2. RequestInv(r)'
    BY <1>0, <2>1 DEF RequestInv
  <2>3. \A q \in Requests : q # r => RequestInv(q)'
    BY <1>0, <1>1, <2>1
  <2> QED BY <1>0, <2>1, <2>2, <2>3 DEF AdminInv
<1>7. CASE UNCHANGED adminVars
  BY <1>0, <1>1, <1>7 DEF AdminInv, adminVars
<1> QED BY <1>2, <1>3, <1>4, <1>5, <1>6, <1>7 DEF AdminNext

\* The types follow from it.
LEMMA AdminTypes == AdminInv => AdminTypeOK
  BY DEF AdminInv, RequestInv, IsOverrides, AdminTypeOK, NoRequest

\* The limits, of which TLC knows the values.
LEMMA Limits ==
    ASSUME NEW f \in Numbered
    PROVE  /\ Lowest[f] \in Int /\ Highest[f] \in Int /\ Lowest[f] <= Highest[f]
           /\ Lowest[f]..Highest[f] \subseteq Numbers
           /\ f # "rack_name" /\ f \in Fields
<1>1. f \in {"retention_days", "session_minutes", "energy_pulse_speed"}
  BY DEF Numbered, Fields
<1>2. f \in DOMAIN Lowest
  BY <1>1 DEF Lowest
<1>3. Lowest[f]..Highest[f] \subseteq Numbers
  BY <1>2, AdminAssumption
<1>4. Lowest[f] \in Int /\ Highest[f] \in Int /\ Lowest[f] <= Highest[f]
  BY <1>1 DEF Lowest, Highest
<1> QED BY <1>1, <1>3, <1>4 DEF Fields

\* A number within its limits is read as it is stored.
LEMMA WithinLimitsIsKept ==
    ASSUME NEW f \in Numbered, NEW v \in Numbers, v \in Lowest[f]..Highest[f]
    PROVE  EffectiveNumber(f, v) = v
<1>1. /\ Lowest[f] \in Int /\ Highest[f] \in Int /\ v \in Int
      /\ ~(v < Lowest[f]) /\ ~(v > Highest[f])
  BY Limits, AdminAssumption
<1>2. Clamp(f, v) = v
  BY <1>1 DEF Clamp
<1>3. ~(f = "retention_days" /\ v < Lowest[f]) /\ v # NaN
  BY <1>1, AdminAssumption
<1> QED BY <1>2, <1>3, Zenon DEF EffectiveNumber

\* A change that validation accepts is read back as it was sent.
LEMMA AcceptedIsShown ==
    ASSUME NEW f \in DOMAIN stored, IsOverrides(stored), Accepted(f, stored[f]), stored[f] # NaN
    PROVE  Effective(f) = stored[f]
<1>1. f \in Fields
  BY DEF IsOverrides
<1>2. CASE f = "rack_name"
  BY <1>2 DEF Effective, Accepted
<1>3. CASE f # "rack_name"
  <2>1. f \in Numbered
    BY <1>1, <1>3 DEF Numbered
  <2>2. stored[f] \in Numbers /\ stored[f] \in Lowest[f]..Highest[f]
    BY <1>3 DEF Accepted
  <2>3. EffectiveNumber(f, stored[f]) = stored[f]
    BY <2>1, <2>2, WithinLimitsIsKept
  <2> QED BY <1>3, <2>3 DEF Effective
<1> QED BY <1>2, <1>3

\* No client sends a float that compares with none.
NoNaNSent == \A patch \in Patches : \A f \in DOMAIN patch : patch[f] # NaN

\* Every step keeps that the answer shows the change.
LEMMA ShownStep ==
    ASSUME NoNaNSent, AdminInv, AnswerShowsThePatch, [AdminNext]_adminVars
    PROVE  AnswerShowsThePatch'
<1>0. /\ DOMAIN request = Requests /\ DOMAIN fresh = Requests /\ IsOverrides(stored)
      /\ \A r \in Requests : RequestInv(r)
  BY DEF AdminInv
<1> DEFINE Shows(r) == request[r].at = "done" /\ fresh[r] =>
        \A f \in DOMAIN request[r].patch : request[r].shown[f] = request[r].patch[f]
<1>a. \A r \in Requests : Shows(r)
  BY DEF AnswerShowsThePatch
<1>b. ASSUME \A r \in Requests : Shows(r)' PROVE AnswerShowsThePatch'
  BY <1>b DEF AnswerShowsThePatch
<1>1. ASSUME NEW q \in Requests, request'[q] = request[q], fresh'[q] = fresh[q]
      PROVE  Shows(q)'
  BY <1>a, <1>1
<1>2. ASSUME NEW r \in Requests, NEW new, request' = [request EXCEPT ![r] = new],
             new.at # "done", \A q \in Requests : q # r => fresh'[q] \in {fresh[q], FALSE}
      PROVE  AnswerShowsThePatch'
  <2>1. Shows(r)'
    BY <1>0, <1>2
  <2>2. ASSUME NEW q \in Requests, q # r PROVE Shows(q)'
    <3>1. request'[q] = request[q] /\ (fresh'[q] = fresh[q] \/ fresh'[q] = FALSE)
      BY <1>0, <1>2, <2>2
    <3> QED BY <1>1, <3>1
  <2> QED BY <1>b, <2>1, <2>2
<1>3. ASSUME NEW r \in Requests, NEW patch \in Patches, Read(r, patch) \/ RefusePut(r, patch)
      PROVE  AnswerShowsThePatch'
  <2>1. CASE Read(r, patch)
    <3> DEFINE new == [at |-> "write", patch |-> patch, overrides |-> Patched(stored, patch)]
    <3>1. request' = [request EXCEPT ![r] = new] /\ fresh' = [fresh EXCEPT ![r] = TRUE]
      BY <2>1 DEF Read
    <3>2. new.at # "done"
      OBVIOUS
    <3> HIDE DEF new
    <3> QED BY <1>0, <1>2, <3>1, <3>2
  <2>2. CASE RefusePut(r, patch)
    <3> DEFINE new == [at |-> "refused", patch |-> patch]
    <3>1. request' = [request EXCEPT ![r] = new] /\ fresh' = fresh
      BY <2>2 DEF RefusePut
    <3>2. new.at # "done"
      OBVIOUS
    <3> HIDE DEF new
    <3> QED BY <1>0, <1>2, <3>1, <3>2
  <2> QED BY <1>3, <2>1, <2>2
<1>4. ASSUME NEW r \in Requests, Write(r) PROVE AnswerShowsThePatch'
  <2> DEFINE new == [at |-> "answer", patch |-> request[r].patch]
  <2>1. request' = [request EXCEPT ![r] = new] /\ fresh' = [q \in Requests |-> q = r]
    BY <1>0, <1>4 DEF Write
  <2>2. new.at # "done"
    OBVIOUS
  <2> HIDE DEF new
  <2> QED BY <1>2, <2>1, <2>2
<1>5. ASSUME NEW r \in Requests, AnswerPut(r) PROVE AnswerShowsThePatch'
  <2> DEFINE new == [at |-> "done", patch |-> request[r].patch, shown |-> PublicConfig]
  <2>1. request' = [request EXCEPT ![r] = new] /\ fresh' = fresh
        /\ request[r].at = "answer"
    BY <1>0, <1>5 DEF AnswerPut
  <2>2. new.at = "done" /\ new.patch = request[r].patch /\ new.shown = PublicConfig
    OBVIOUS
  <2> HIDE DEF new
  <2>3. ASSUME fresh[r], NEW f \in DOMAIN request[r].patch
        PROVE  PublicConfig[f] = request[r].patch[f]
    <3>1. f \in DOMAIN stored /\ stored[f] = request[r].patch[f]
      BY <1>0, <2>1, <2>3 DEF RequestInv, Carries
    <3>2. Accepted(f, stored[f]) /\ request[r].patch \in Patches
      BY <1>0, <2>1, <3>1 DEF RequestInv
    <3>3. stored[f] # NaN
      BY <3>1, <3>2 DEF NoNaNSent
    <3>4. Effective(f) = stored[f]
      BY <1>0, <3>1, <3>2, <3>3, AcceptedIsShown
    <3>5. f \in Fields
      BY <1>0, <3>1 DEF IsOverrides
    <3> QED BY <3>1, <3>4, <3>5 DEF PublicConfig
  <2>4. Shows(r)'
    BY <1>0, <2>1, <2>2, <2>3
  <2>5. \A q \in Requests : q # r => Shows(q)'
    BY <1>0, <1>1, <2>1
  <2> QED BY <1>b, <2>4, <2>5
<1>6. ASSUME NEW r \in Requests, Finish(r) PROVE AnswerShowsThePatch'
  <2>1. request' = [request EXCEPT ![r] = NoRequest] /\ fresh' = [fresh EXCEPT ![r] = FALSE]
    BY <1>6 DEF Finish
  <2>2. NoRequest.at # "done"
    BY DEF NoRequest
  <2> QED BY <1>0, <1>2, <2>1, <2>2
<1>7. CASE UNCHANGED adminVars
  BY <1>b, <1>1, <1>7 DEF adminVars
<1> QED BY <1>3, <1>4, <1>5, <1>6, <1>7 DEF AdminNext

\* What the environment sets is within the limits of the panel.
BaseWithinLimits == \A f \in Numbered : Base[f] \in Lowest[f]..Highest[f]

\* What is in force is within the limits of the panel.
LEMMA EffectiveIsWithinLimits ==
    ASSUME BaseWithinLimits, NEW f \in Numbered, NEW v \in Values(f)
    PROVE  EffectiveNumber(f, v) \in Lowest[f]..Highest[f]
<1>1. /\ Lowest[f] \in Int /\ Highest[f] \in Int /\ Lowest[f] <= Highest[f]
      /\ Base[f] \in Lowest[f]..Highest[f] /\ f # "rack_name"
  BY Limits DEF BaseWithinLimits
<1>2. CASE v \in Numbers
  <2>1. v \in Int
    BY <1>2, AdminAssumption
  <2>2. Clamp(f, v) \in Lowest[f]..Highest[f]
    BY <1>1, <2>1 DEF Clamp
  <2> QED BY <1>1, <1>2, <2>2 DEF EffectiveNumber
<1>3. CASE v \notin Numbers
  <2>1. EffectiveNumber(f, v) \in {Highest[f], Base[f]}
    BY <1>1, <1>3 DEF EffectiveNumber
  <2> QED BY <1>1, <2>1
<1> QED BY <1>2, <1>3

\* So the panel can save it.
LEMMA PanelCanSave ==
    ASSUME BaseWithinLimits, IsOverrides(stored)
    PROVE  PanelCanSaveWhatItShows
<1> SUFFICES ASSUME NEW f \in Numbered
             PROVE  Accepted(f, Effective(f)) /\ EffectiveNumber(f, Effective(f)) = Effective(f)
  BY DEF PanelCanSaveWhatItShows, Numbered
<1>1. f # "rack_name" /\ f \in Fields /\ Lowest[f]..Highest[f] \subseteq Numbers
  BY Limits
<1>2. Effective(f) \in Lowest[f]..Highest[f]
  <2>1. CASE f \in DOMAIN stored
    <3>1. EffectiveNumber(f, stored[f]) \in Lowest[f]..Highest[f]
      BY <2>1, EffectiveIsWithinLimits DEF IsOverrides
    <3> QED BY <1>1, <2>1, <3>1 DEF Effective
  <2>2. CASE f \notin DOMAIN stored
    BY <2>2 DEF Effective, BaseWithinLimits
  <2> QED BY <2>1, <2>2
<1>3. Accepted(f, Effective(f))
  BY <1>1, <1>2 DEF Accepted
<1> QED BY <1>1, <1>2, <1>3, WithinLimitsIsKept

\* A write keeps what its patch does not name.
OnlyItsFields ==
    \A r \in Requests :
       request[r].at = "write" /\ request'[r].at = "answer" /\ fresh[r] =>
          \A f \in Fields \ DOMAIN request[r].patch :
             /\ f \in DOMAIN stored <=> f \in DOMAIN stored'
             /\ f \in DOMAIN stored => stored'[f] = stored[f]

\* Every step of a request is such a write, or writes nothing.
LEMMA WriteKeepsTheRest == AdminInv /\ [AdminNext]_adminVars => OnlyItsFields
<1> SUFFICES ASSUME AdminInv, [AdminNext]_adminVars, NEW r \in Requests,
                    request[r].at = "write", request'[r].at = "answer", fresh[r]
             PROVE  Extends(stored', stored, request[r].patch)
  BY DEF OnlyItsFields, Extends
<1>0. DOMAIN request = Requests /\ RequestInv(r)
  BY DEF AdminInv
<1>1. ASSUME NEW q \in Requests, NEW new, request' = [request EXCEPT ![q] = new],
             request[q].at # "write"
      PROVE  FALSE
  <2>1. q # r
    BY <1>1
  <2>2. request'[r] = request[r]
    BY <1>0, <1>1, <2>1
  <2> QED BY <2>2
<1>2. ASSUME NEW q \in Requests, NEW patch \in Patches, Read(q, patch) \/ RefusePut(q, patch)
      PROVE  FALSE
  <2>1. request[q].at # "write"
    BY <1>2 DEF Read, RefusePut, NoRequest
  <2> QED BY <1>1, <1>2, <2>1 DEF Read, RefusePut
<1>3. ASSUME NEW q \in Requests, AnswerPut(q) \/ Finish(q) PROVE FALSE
  BY <1>1, <1>3 DEF AnswerPut, Finish
<1>4. ASSUME NEW q \in Requests, Write(q)
      PROVE  Extends(stored', stored, request[r].patch)
  <2>1. q = r
    <3>1. request' = [request EXCEPT ![q] = [at |-> "answer", patch |-> request[q].patch]]
      BY <1>0, <1>4 DEF Write
    <3> QED BY <1>0, <3>1
  <2> QED BY <1>0, <1>4, <2>1 DEF Write, RequestInv
<1>5. CASE UNCHANGED adminVars
  BY <1>5 DEF adminVars
<1> QED BY <1>2, <1>3, <1>4, <1>5 DEF AdminNext

-----------------------------------------------------------------------------
(* Theorems.  A step of the run is one of its two parts. *)

\* The invariant of both parts.
StateInv == LiveInv /\ AdminInv

stateVars == <<about, liveVars, adminVars>>

\* A step of the whole is one of either part, or leaves it alone.
LEMMA StateStepIsBoth ==
    [StateNext]_stateVars => [LiveNext]_liveVars /\ [AdminNext]_adminVars
  BY DEF StateNext, stateVars

\* Every state of a run has it.
LEMMA StateInvariant == StateSpec => []StateInv
<1>1. StateInit => StateInv
  BY LiveInvInit, AdminInvInit DEF StateInit, StateInv
<1>2. StateInv /\ [StateNext]_stateVars => StateInv'
  BY StateStepIsBoth, LiveInvStep, AdminInvStep DEF StateInv
<1> QED BY <1>1, <1>2, PTL DEF StateSpec, stateVars

\* The types of both parts, for every number of coroutines and requests, every interval,
\* timeout, threshold and difference of the clocks (service.py, config.py).
THEOREM StateTypesCorrect == StateSpec => []StateTypeOK
<1>1. StateInv => StateTypeOK
  BY LiveTypes, AdminTypes DEF StateInv, LiveInv, StateTypeOK
<1> QED BY <1>1, StateInvariant, PTL

\* Neither online nor offline is said of a collector that is not: online means that all
\* active batteries answered lately, and offline, when nobody has paused since the last
\* contact, that the collector has not been reachable for about the configured time
\* (service.py:235, 239), whoever polls when and whichever answer comes in first.
THEOREM NothingWrongIsSaid == StateSpec => []ConnectionIsTrue
<1>1. StateInv => ConnectionIsTrue
  BY LiveInvIsTrue DEF StateInv, ConnectionIsTrue
<1> QED BY <1>1, StateInvariant, PTL

\* An outage that lasts is announced, and a recovery that lasts is noticed
\* (service.py:231), if a poll fits into the time after which the collector counts as
\* offline, and two polls into the one after which readings count as stale.
THEOREM LastingChangesAreNoticed ==
    ASSUME Gap + Timeout < OfflineAfter, 2 * Gap + 2 * Timeout < StaleAfter + Skew
    PROVE  StateSpec => []ChangesAreNoticed
<1>1. StateInv => ChangesAreNoticed
  BY LiveInvIsInTime DEF StateInv, ChangesAreNoticed
<1> QED BY <1>1, StateInvariant, PTL

\* Whatever is stored, the panel shows values that it can save as they are
\* (admin.py:218, 373), and the answer to an accepted change shows the change while no
\* other is written, if the environment's values are within the limits of the panel and
\* no client sends a float that compares with none.
THEOREM PanelIsRight ==
    ASSUME BaseWithinLimits, NoNaNSent
    PROVE  StateSpec => []PanelShowsWhatHolds
<1>1. StateInit => AnswerShowsThePatch
  BY DEF StateInit, AdminInit, AnswerShowsThePatch, NoRequest
<1>2. StateInv /\ AnswerShowsThePatch /\ [StateNext]_stateVars => AnswerShowsThePatch'
  BY StateStepIsBoth, ShownStep DEF StateInv
<1>3. StateSpec => []AnswerShowsThePatch
  BY <1>1, <1>2, StateInvariant, PTL DEF StateSpec, stateVars
<1>4. StateInv => PanelCanSaveWhatItShows
  BY PanelCanSave DEF StateInv, AdminInv
<1>5. PanelCanSaveWhatItShows /\ AnswerShowsThePatch => PanelShowsWhatHolds
  BY DEF PanelShowsWhatHolds
<1> QED BY <1>3, <1>4, <1>5, StateInvariant, PTL

\* A change that no other came between keeps every field it does not name
\* (api.py:539).
THEOREM ChangesKeepOtherFields == StateSpec => WritesOnlyItsFields
<1>1. StateInv /\ [StateNext]_stateVars => [OnlyItsFields]_adminVars
  BY StateStepIsBoth, WriteKeepsTheRest DEF StateInv
<1>2. StateSpec => [][OnlyItsFields]_adminVars
  BY <1>1, StateInvariant, PTL DEF StateSpec, stateVars
<1> QED BY <1>2 DEF WritesOnlyItsFields, OnlyItsFields

=============================================================================
