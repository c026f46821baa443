--------------------------- MODULE MCMonitorState ---------------------------
(***************************************************************************)
(* What the monitor says of its collector (LiveState) and the settings its *)
(* admins change (AdminConfig), for TLC: two parts of the monitor that     *)
(* share nothing, so a behaviour is of one of them.                        *)
(***************************************************************************)
EXTENDS LiveState, AdminConfig, TLC

MCBase ==
    [rack_name |-> "default", retention_days |-> 3, session_minutes |-> 2,
     energy_pulse_speed |-> 1]

\* Overrides that hold anything in one field.
MCJunk ==
    {f :> v : f \in Fields \ {"rack_name"}, v \in Numbers \cup {Text, NaN}}
      \cup {"rack_name" :> Blank}

\* Changes of one field, or of two of which one may be refused.
MCPatches ==
    {"rack_name" :> name : name \in Names}
      \cup {"retention_days" :> n : n \in {1, 4}}
      \cup {("session_minutes" :> n) @@ ("energy_pulse_speed" :> 2) : n \in {1, Text}}
      \cup {("rack_name" :> "garage") @@ ("energy_pulse_speed" :> n) : n \in {0, 1}}

VARIABLE about   \* "collector" or "settings"

\* What is not read in a behaviour has one value.
StateInit ==
    /\ about \in {"collector", "settings"}
    /\ about # "collector" => sample = [ok |-> TRUE, age |-> 0]
    /\ about # "settings" => stored = "rack_name" :> Blank
    /\ LiveInit /\ AdminInit

StateNext ==
    /\ UNCHANGED about
    /\ \/ about = "collector" /\ LiveNext /\ UNCHANGED adminVars
       \/ about = "settings" /\ AdminNext /\ UNCHANGED liveVars

StateSpec == StateInit /\ [][StateNext]_<<about, liveVars, adminVars>>

\* The types of both.
StateTypeOK == LiveTypeOK /\ AdminTypeOK

\* Neither online nor offline is said of a collector that is not, whichever answer
\* comes first and whichever poll fails (service.py:235, 239).
ConnectionIsTrue == OnlineWasTrue /\ OfflineIsAnOutageUnlessPaused

\* An outage and a recovery that last are both noticed in time (service.py:231).
ChangesAreNoticed == OutageIsAnnounced /\ RecoversInTime

\* The panel shows what holds and can be saved: the values in use, and after a
\* change those of the change (admin.py:218, 373).
PanelShowsWhatHolds == PanelCanSaveWhatItShows /\ AnswerShowsThePatch

=============================================================================
