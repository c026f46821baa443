----------------------------- MODULE LiveState -----------------------------
(***************************************************************************)
(* What the monitor says of its collector: connection_state and            *)
(* collector_reachable of MonitorService, over the polls of the connection *)
(* manager, forced polls beside them, a pause, outages, a collector that   *)
(* stops sampling, and two clocks.  A tick is one live poll interval.  The *)
(* archive work between two polls is taken to fit into the interval.       *)
(***************************************************************************)
EXTENDS Integers

CONSTANTS
    Tasks, Loop,        \* the coroutines that poll, and the one that is run()
    Gap,                \* ticks from one cycle of the loop to the next, or more
    Timeout,            \* ticks a fetch takes at most
    StaleAfter, OfflineAfter,
    Skew,               \* how far the clock of the collector is ahead
    MaxEvents           \* bound: outages, pauses, forced polls and restarts

ASSUME PollAssumption == Loop \in Tasks /\ Gap \in Nat \ {0} /\ Timeout \in Nat \ {0}
ASSUME ThresholdAssumption ==
    /\ StaleAfter \in Nat /\ StaleAfter >= 2 * Gap
    /\ OfflineAfter \in Nat /\ OfflineAfter >= StaleAfter + Gap
ASSUME EventAssumption == Skew \in Nat /\ MaxEvents \in Nat

\* No age is told from an older one past Old, be it by either clock.
Old == OfflineAfter + Timeout + Skew
UpTo(limit, age) == IF age < limit THEN age + 1 ELSE limit
Later(age) == UpTo(Old, age)

\* By then a poll begun since has ended and those begun before have, too.
Cycle == Gap + 2 * Timeout

VARIABLES
    up,         \* the collector can be reached
    sample,     \* its latest poll: whether every active battery answered, and its age
    flight,     \* per task, the fetch it awaits
    due,        \* ticks to the loop's next cycle
    paused,     \* _paused
    contacted,  \* last_success_at is set
    contact,    \* its age
    shown,      \* the snapshot held: _reachable_state, and the age of last_data_at
    failed,     \* last_error is set
    events,     \* outages, pauses, forced polls and restarts so far
    past        \* for how long what the properties speak of has been so

collector == <<up, sample>>
monitor == <<due, paused, contacted, contact, shown, failed>>
liveVars == <<collector, flight, monitor, events, past>>

Idle == [stage |-> "idle", wait |-> 0, ok |-> FALSE, age |-> 0]
Asking == [stage |-> "asking", wait |-> 0, ok |-> FALSE, age |-> 0]

Event == events < MaxEvents /\ events' = events + 1

LiveInit ==
    /\ up = TRUE
    /\ sample \in [ok : BOOLEAN, age : {0}]
    /\ flight = [t \in Tasks |-> Idle]
    /\ due = 0 /\ paused = FALSE /\ contacted = FALSE /\ contact = Old
    /\ shown = [ok |-> FALSE, age |-> Old] /\ failed = FALSE
    /\ events = 0
    /\ past = [link |-> 0, out |-> OfflineAfter, well |-> 0, running |-> 0, held |-> FALSE,
               sinceOk |-> IF sample.ok THEN 0 ELSE StaleAfter + Skew]

-----------------------------------------------------------------------------
(* What the monitor says. *)

\* Mutant: the readings are as old as the last contact.
DataAgeOfContact == contact

\* data_age_seconds: the collector's captured_at against the monitor's clock.
DataAge == IF shown.age > Skew THEN shown.age - Skew ELSE 0

Stale == failed \/ DataAge >= StaleAfter

\* Mutant: old readings are stale before an outage is looked for.
ConnectionStateStaleFirst ==
    CASE ~contacted -> "offline"
      [] contacted /\ Stale -> "stale"
      [] contacted /\ ~Stale /\ failed /\ contact >= OfflineAfter -> "offline"
      [] OTHER -> IF shown.ok THEN "online" ELSE "degraded"

\* Mutant: the outage is measured by the readings.
ConnectionStateOfReadings ==
    LET offline == ~contacted \/ (failed /\ DataAge >= OfflineAfter) IN
    CASE offline -> "offline"
      [] ~offline /\ Stale -> "stale"
      [] OTHER -> IF shown.ok THEN "online" ELSE "degraded"

ConnectionState ==
    LET offline == ~contacted \/ (failed /\ contact >= OfflineAfter) IN
    CASE offline -> "offline"
      [] ~offline /\ Stale -> "stale"
      [] OTHER -> IF shown.ok THEN "online" ELSE "degraded"

CollectorReachable == contacted /\ contact < OfflineAfter /\ ~failed

-----------------------------------------------------------------------------
(* The collector, and the way to it. *)

Outage ==
    /\ Event /\ up /\ up' = FALSE
    /\ past' = [past EXCEPT !.well = 0, !.link = 0]
    /\ UNCHANGED <<sample, flight, monitor>>

Recovery ==
    /\ ~up /\ up' = TRUE
    /\ past' = [past EXCEPT !.link = 0]
    /\ UNCHANGED <<sample, flight, monitor, events>>

\* A poll of the packs ends.  Its interval is longer than the monitor's; how much
\* longer it takes is open.
Sampled(ok) ==
    /\ sample.age > 0
    /\ sample' = [ok |-> ok, age |-> 0]
    /\ past' = IF ok THEN [past EXCEPT !.sinceOk = 0] ELSE [past EXCEPT !.well = 0]
    /\ UNCHANGED <<up, flight, monitor, events>>

-----------------------------------------------------------------------------
(* MonitorService. *)

Ask(t) == flight' = [flight EXCEPT ![t] = Asking]

\* Mutant: after a failure the loop waits longer.
StartCycleBackedOff ==
    /\ due = 0 /\ flight[Loop] = Idle
    /\ due' = IF failed THEN OfflineAfter ELSE Gap
    /\ IF paused THEN UNCHANGED flight ELSE Ask(Loop)
    /\ UNCHANGED <<collector, paused, contacted, contact, shown, failed, events, past>>

\* run(): the next cycle polls, unless paused.
StartCycle ==
    /\ due = 0 /\ flight[Loop] = Idle
    /\ due' = Gap
    /\ IF paused THEN UNCHANGED flight ELSE Ask(Loop)
    /\ UNCHANGED <<collector, paused, contacted, contact, shown, failed, events, past>>

\* force_cycle, paused or not.
ForceCycle(t) ==
    /\ Event /\ t # Loop /\ flight[t] = Idle
    /\ Ask(t)
    /\ UNCHANGED <<collector, monitor, past>>

\* The collector serves the request, or the request fails.
Answer(t) ==
    /\ flight[t].stage = "asking" /\ up
    /\ flight' = [flight EXCEPT ![t] =
         [stage |-> "answered", wait |-> @.wait, ok |-> sample.ok, age |-> sample.age]]
    /\ UNCHANGED <<collector, monitor, events, past>>

Refuse(t) ==
    /\ flight[t].stage = "asking" /\ ~up
    /\ flight' = [flight EXCEPT ![t] =
         [stage |-> "refused", wait |-> @.wait, ok |-> FALSE, age |-> 0]]
    /\ UNCHANGED <<collector, monitor, events, past>>

\* The rest of poll_once, when the thread returns.
TakeAnswer(t) ==
    /\ flight[t].stage = "answered"
    /\ shown' = [ok |-> flight[t].ok, age |-> flight[t].age]
    /\ contacted' = TRUE /\ contact' = 0 /\ failed' = FALSE
    /\ flight' = [flight EXCEPT ![t] = Idle]
    /\ past' = [past EXCEPT !.held = paused]
    /\ UNCHANGED <<collector, due, paused, events>>

TakeRefusal(t) ==
    /\ flight[t].stage = "refused"
    /\ failed' = TRUE
    /\ flight' = [flight EXCEPT ![t] = Idle]
    /\ UNCHANGED <<collector, due, paused, contacted, contact, shown, events, past>>

Pause ==
    /\ Event /\ ~paused /\ paused' = TRUE
    /\ past' = [past EXCEPT !.running = 0, !.held = TRUE]
    /\ UNCHANGED <<collector, flight, due, contacted, contact, shown, failed>>

Resume ==
    /\ paused /\ paused' = FALSE
    /\ UNCHANGED <<collector, flight, due, contacted, contact, shown, failed, events, past>>

\* The monitor starts anew and has heard of nothing.
Restart ==
    /\ Event
    /\ flight' = [t \in Tasks |-> Idle]
    /\ due' = 0 /\ paused' = FALSE /\ contacted' = FALSE /\ contact' = Old
    /\ shown' = [ok |-> FALSE, age |-> Old] /\ failed' = FALSE
    /\ past' = [past EXCEPT !.running = 0]
    /\ UNCHANGED collector

\* A fetch one tick later: its answer ages.
Waited(fetch) ==
    [stage |-> fetch.stage, wait |-> fetch.wait + 1, ok |-> fetch.ok,
     age |-> IF fetch.stage = "answered" THEN Later(fetch.age) ELSE fetch.age]

\* A fetch ends within its timeout and a cycle begins when it is due.
InTime ==
    /\ \A t \in Tasks : flight[t] # Idle => flight[t].wait < Timeout
    /\ due > 0 \/ flight[Loop] # Idle

Tick ==
    /\ InTime
    /\ sample' = [sample EXCEPT !.age = Later(@)]
    /\ flight' = [t \in Tasks |-> IF flight[t] = Idle THEN Idle ELSE Waited(flight[t])]
    /\ due' = IF due > 0 THEN due - 1 ELSE 0
    /\ contact' = Later(contact)
    /\ shown' = [shown EXCEPT !.age = Later(@)]
    /\ past' = [link |-> Later(past.link),
                out |-> IF up /\ past.link >= Cycle THEN 0 ELSE UpTo(OfflineAfter, past.out),
                well |-> IF up /\ sample.ok /\ sample'.age <= Gap
                         THEN UpTo(Cycle + 1, past.well) ELSE 0,
                running |-> IF paused THEN 0 ELSE UpTo(Cycle + 1, past.running),
                sinceOk |-> UpTo(StaleAfter + Skew, past.sinceOk),
                held |-> past.held]
    /\ UNCHANGED <<up, paused, contacted, failed, events>>

LiveNext ==
    \/ Outage \/ Recovery \/ \E ok \in BOOLEAN : Sampled(ok)
    \/ StartCycle \/ Pause \/ Resume \/ Restart \/ Tick
    \/ \E t \in Tasks :
         ForceCycle(t) \/ Answer(t) \/ Refuse(t) \/ TakeAnswer(t) \/ TakeRefusal(t)

LiveSpec == LiveInit /\ [][LiveNext]_liveVars

-----------------------------------------------------------------------------
(* Properties. *)

LiveTypeOK ==
    /\ up \in BOOLEAN
    /\ sample \in [ok : BOOLEAN, age : 0..Old] /\ shown \in [ok : BOOLEAN, age : 0..Old]
    /\ \A t \in Tasks : flight[t] \in
         [stage : {"idle", "asking", "answered", "refused"}, wait : 0..Timeout,
          ok : BOOLEAN, age : 0..Old]
    /\ due \in 0..Gap /\ contact \in 0..Old /\ events \in 0..MaxEvents
    /\ (contact < Old => contacted) /\ (paused => past.running = 0)

\* Whoever polls when, and whichever answer comes first: the monitor says online
\* only if all active batteries answered one of the collector's latest polls
\* (service.py:239; README.md:158), up to the difference of the two clocks.
OnlineWasTrue ==
    ConnectionState = "online" => past.sinceOk < StaleAfter + Skew

\* An outage that lasts is announced: the monitor says offline although an answer
\* from before, or the failure of a poll, comes in late; it does not call the
\* collector reachable even while paused (service.py:235, 246).
OutageIsAnnounced ==
    ~up /\ past.link >= OfflineAfter + Timeout =>
        /\ ~CollectorReachable
        /\ past.running >= Cycle => ConnectionState = "offline"

\* Once the collector is well and the loop runs the monitor soon says online by
\* itself and does not waver, if the clocks agree well enough.
RecoversInTime ==
    past.well > Cycle /\ past.running > Cycle => ConnectionState = "online"

\* The collector has not been steadily reachable for about the configured time.
OutageBehind == past.out + Cycle >= OfflineAfter

\* Without a pause since the last contact offline means that it has not
\* (service.py:235): not that its batteries were silent, nor that one poll failed.
OfflineIsAnOutageUnlessPaused ==
    contacted /\ ConnectionState = "offline" /\ ~past.held => OutageBehind

=============================================================================
