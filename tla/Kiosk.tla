------------------------------- MODULE Kiosk -------------------------------
(***************************************************************************)
(* The kiosk supervisor (kiosk/kiosk.py): a loop of about two seconds that *)
(* probes the monitor, keeps a window manager and a browser running, and   *)
(* shows the dashboard or a waiting page.  One tick is two seconds.  What  *)
(* a page loads once it is shown is not modelled.                          *)
(***************************************************************************)
EXTENDS Integers, Sequences

CONSTANTS
    Refreshes,    \* ticks between periodic refreshes one may set, 0 for none
    MaxFaults     \* bound: outages, recoveries, exits and failed starts

ASSUME KioskAssumption == Refreshes \subseteq Nat /\ MaxFaults \in Nat

\* ten seconds between probes, half a minute of longest backoff, and the minute
\* after which a browser counts as stable
Probe == 5
MaxBackoff == 15
Stable == 30

VARIABLES
    refresh,      \* settings.refresh_minutes, in ticks
    monitorUp,    \* the monitor answers
    manager,      \* the window manager runs
    exited,       \* the browser's process has ended
    faults,       \* faults so far
    online,       \* Availability.online
    failures,     \* Availability.failures, 3 for more
    browser,      \* what was launched: "none", "dashboard" or "waiting"
    probeIn,      \* ticks to next_probe
    launchIn,     \* ticks to next_launch
    age,          \* ticks since launched_at
    backoff,      \* in ticks
    heard         \* the last three probes, for the properties

world == <<refresh, monitorUp, manager, exited>>
loop == <<online, failures, browser, probeIn, launchIn, age, backoff, heard>>
kioskVars == <<world, faults, loop>>

Oldest == IF refresh > Stable THEN refresh ELSE Stable + 1
Least(a, b) == IF a < b THEN a ELSE b

KioskInit ==
    /\ refresh \in Refreshes
    /\ monitorUp \in BOOLEAN /\ manager = FALSE /\ exited = FALSE /\ faults = 0
    /\ online = FALSE /\ failures = 0 /\ browser = "none"
    /\ probeIn = 0 /\ launchIn = 0 /\ age = Oldest /\ backoff = 1
    /\ heard = <<TRUE, TRUE, TRUE>>

-----------------------------------------------------------------------------
(* The world. *)

Fault == faults < MaxFaults /\ faults' = faults + 1

MonitorFails == Fault /\ monitorUp /\ monitorUp' = FALSE /\ UNCHANGED <<refresh, manager, exited, loop>>
MonitorReturns == ~monitorUp /\ monitorUp' = TRUE /\ UNCHANGED <<refresh, manager, exited, faults, loop>>

BrowserExits ==
    /\ Fault /\ browser # "none" /\ ~exited
    /\ exited' = TRUE
    /\ UNCHANGED <<refresh, monitorUp, manager, loop>>

ManagerExits == Fault /\ manager /\ manager' = FALSE /\ UNCHANGED <<refresh, monitorUp, exited, loop>>

-----------------------------------------------------------------------------
(* One round of supervise. *)

\* Mutant: a success does not end a streak of failures.
UpdateKeepingStreak(reachable) ==
    LET streak == IF reachable \/ failures = 3 THEN failures ELSE failures + 1
    IN [failures |-> streak, online |-> IF reachable THEN TRUE ELSE online /\ streak < 3]

\* Availability.update.
Update(reachable) ==
    LET streak == IF reachable THEN 0 ELSE IF failures = 3 THEN 3 ELSE failures + 1
    IN [failures |-> streak, online |-> IF reachable THEN TRUE ELSE online /\ streak < 3]

Target(available) == IF available THEN "dashboard" ELSE "waiting"

\* Mutant: the page on the screen is left there.
SwitchesWhenNone(available) == available # online /\ browser = "none"

\* The browser is stopped when availability has changed, to be launched at once
\* with the other page; so it is when its refresh is due.
Switches(available) == available # online

RefreshDue == refresh > 0 /\ browser # "none" /\ age >= refresh

\* Mutant: nobody looks whether the browser still runs.
GoneUnseen == FALSE

\* browser.poll() is not None.
Gone == browser # "none" /\ exited

\* Mutant: the delay doubles without bound.
DelayDoubled == 2 * backoff

\* The backoff that follows this one.
Delay == Least(MaxBackoff, 2 * backoff)

\* What the loop holds when it comes to launching a browser.
Supervised ==
    LET probed == IF probeIn = 0 THEN Update(monitorUp) ELSE [failures |-> failures, online |-> online]
        stopped == Switches(probed.online) \/ RefreshDue
        gone == ~stopped /\ Gone
    IN [online |-> probed.online, failures |-> probed.failures, age |-> age,
        browser |-> IF stopped \/ gone THEN "none" ELSE browser,
        launchIn |-> IF stopped THEN 0 ELSE IF gone THEN backoff ELSE launchIn,
        backoff |-> IF gone THEN Delay ELSE backoff]

\* The round ends with two seconds of sleep; a probe may time out before.
Sleep(s) ==
    \E ticks \in IF probeIn = 0 THEN {1, 3} ELSE {1} :
        LET left(t) == IF t > ticks THEN t - ticks ELSE 0 IN
        /\ online' = s.online /\ failures' = s.failures
        /\ browser' = s.browser /\ backoff' = s.backoff
        /\ launchIn' = left(s.launchIn)
        /\ probeIn' = left(IF probeIn = 0 THEN Probe ELSE probeIn)
        /\ age' = Least(Oldest, s.age + ticks)
        /\ heard' = IF probeIn = 0 THEN <<heard[2], heard[3], monitorUp>> ELSE heard
        /\ manager' = TRUE /\ UNCHANGED <<refresh, monitorUp>>

Launches(s) == s.browser = "none" /\ s.launchIn = 0

\* No browser is due, or one runs; one that has run for a minute clears the
\* backoff.
Watch ==
    /\ \E s \in {Supervised} :
         /\ ~Launches(s)
         /\ Sleep(IF s.browser # "none" /\ age > Stable THEN [s EXCEPT !.backoff = 1] ELSE s)
         /\ exited' = (exited /\ s.browser # "none")
    /\ UNCHANGED faults

Launch ==
    /\ \E s \in {Supervised} :
         Launches(s) /\ Sleep([s EXCEPT !.browser = Target(s.online), !.age = 0])
    /\ exited' = FALSE
    /\ UNCHANGED faults

LaunchFails ==
    /\ Fault
    /\ \E s \in {Supervised} :
         Launches(s) /\ Sleep([s EXCEPT !.launchIn = s.backoff, !.backoff = Delay])
    /\ exited' = FALSE

\* The window manager does not start: five seconds, and the round begins anew.
ManagerFails ==
    /\ Fault /\ ~manager
    /\ LET left(t) == IF t > 3 THEN t - 3 ELSE 0 IN
         /\ probeIn' = left(probeIn) /\ launchIn' = left(launchIn)
         /\ age' = Least(Oldest, age + 3)
    /\ UNCHANGED <<world, online, failures, browser, backoff, heard>>

Round == Watch \/ Launch

KioskNext ==
    \/ MonitorFails \/ MonitorReturns \/ BrowserExits \/ ManagerExits
    \/ Watch \/ Launch \/ LaunchFails \/ ManagerFails

KioskSpec == KioskInit /\ [][KioskNext]_kioskVars

\* The loop goes round; its faults are finitely many.
KioskFairSpec == KioskSpec /\ WF_kioskVars(Round)

-----------------------------------------------------------------------------
(* Properties. *)

\* Besides the types: whatever fails how often, the browser is launched again
\* within half a minute (kiosk/README.md:76).
KioskTypeOK ==
    /\ faults \in 0..MaxFaults /\ failures \in 0..3
    /\ browser \in {"none", "dashboard", "waiting"} /\ (exited => browser # "none")
    /\ probeIn \in 0..Probe /\ launchIn \in 0..MaxBackoff
    /\ age \in 0..Oldest /\ backoff \in 1..MaxBackoff

\* The screen shows what the supervisor last found: no waiting page stays up
\* once the monitor was reached, and no dashboard once it was given up, however
\* launches, exits, refreshes and switches fall together (kiosk.py:200).
ScreenMatches ==
    /\ browser = "dashboard" => online
    /\ browser = "waiting" => ~online

\* The dashboard is given up for three failed probes in a row and for no fewer
\* (kiosk/README.md:74).
GivenUpAfterThree ==
    [][online /\ ~online' => heard' = <<FALSE, FALSE, FALSE>>]_kioskVars

\* Once the monitor stays reachable the dashboard runs again and keeps running;
\* once it stays away the waiting page does.
ScreenFollowsMonitor ==
    /\ <>[]monitorUp => <>[](browser = "dashboard" /\ ~exited)
    /\ <>[]~monitorUp => <>[](browser = "waiting" /\ ~exited)

=============================================================================
