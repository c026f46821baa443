--------------------------- MODULE RackInventory ---------------------------
(***************************************************************************)
(* The rack's inventory: the profiles from the environment, the list an    *)
(* admin saves over them (AdminSettings), and rack_details, which joins    *)
(* them with the batteries of the collector's snapshot.  Names, models and *)
(* IP addresses are not told apart; identifiers are short.                 *)
(***************************************************************************)
EXTENDS PythonNone, Integers, Sequences, SequencesExt

CONSTANTS
    Ids,           \* battery identifiers
    Addresses,
    BaseProfiles,  \* what BQM_BATTERY_IDS and its companions say
    Batteries,     \* what the collector may report of a battery
    MaxRows,       \* bound: rows of a saved list
    MaxBatteries   \* bound: batteries reported at a time

ASSUME InventoryAssumption ==
    /\ None \notin Ids \cup Nat
    /\ Addresses \subseteq Nat /\ MaxRows \in Nat /\ MaxBatteries \in Nat
    \* a form factor the monitor does not know is as good as none
    /\ Batteries \subseteq [id : Ids, address : Addresses, form : {"rack", "floor", "other"},
                            status : {"ok", "error"}]
    /\ BaseProfiles \in Seq([id : Ids, address : Addresses, form : {"rack", "floor"}])
    /\ BaseProfiles # <<>>

VARIABLES
    saved,           \* the list under "batteries" in admin_settings, empty for none
    batteries,       \* what the collector's snapshot reports
    collectorOnline  \* collector_status is online or degraded

inventoryVars == <<saved, batteries, collectorOnline>>

-----------------------------------------------------------------------------
(* AdminSettings. *)

\* Mutant: ids are not compared.
ValidOneByOne(rows) == rows # <<>> /\ \A i \in DOMAIN rows : rows[i].id # None

\* An id left empty or given twice is refused; a row without an address gets its
\* position.
ValidRows(rows) ==
    /\ rows # <<>>
    /\ \A i \in DOMAIN rows : rows[i].id # None
    /\ \A i, j \in DOMAIN rows : rows[i].id = rows[j].id => i = j

\* Mutant: addresses are numbered anew.
ValidatedRenumbered(rows) == [i \in DOMAIN rows |-> [id |-> rows[i].id, address |-> i]]

Validated(rows) ==
    [i \in DOMAIN rows |->
        [id |-> rows[i].id, address |-> IF rows[i].address = None THEN i ELSE rows[i].address]]

\* A saved row is a profile of its own: no form factor is saved, and none is taken
\* from the environment.
EffectiveProfiles ==
    IF saved = <<>> THEN BaseProfiles
    ELSE [i \in DOMAIN saved |->
            [id |-> saved[i].id, address |-> saved[i].address, form |-> "rack"]]

\* What the panel shows, and sends back when it saves.
PublicRows ==
    LET profiles == EffectiveProfiles
    IN [i \in DOMAIN profiles |-> [id |-> profiles[i].id, address |-> profiles[i].address]]

-----------------------------------------------------------------------------
(* rack_details. *)

ById(id) == {i \in DOMAIN batteries : batteries[i].id = id}

\* Of several batteries at one address the last counts.
ByAddress(address) ==
    {i \in DOMAIN batteries : batteries[i].address = address /\
        \A j \in DOMAIN batteries : batteries[j].address = address => j <= i}

\* Indexes of the battery a profile stands for: none or one.
Matched(profile) ==
    IF ById(profile.id) # {} THEN ById(profile.id) ELSE ByAddress(profile.address)

\* Mutant: the inventory knows best.
FormFactorOfProfile(profile, battery) == profile.form

FormFactor(profile, battery) ==
    IF battery.form \in {"rack", "floor"} THEN battery.form ELSE profile.form

Status(status) == IF collectorOnline THEN status ELSE "stale"

Item(profile) ==
    IF Matched(profile) = {}
    THEN [id |-> profile.id, address |-> profile.address, form |-> profile.form,
          status |-> Status("not_seen")]
    ELSE LET battery == batteries[CHOOSE i \in Matched(profile) : TRUE]
         IN [id |-> battery.id, address |-> battery.address,
             form |-> FormFactor(profile, battery), status |-> Status(battery.status)]

\* Mutant: a battery at a known address is known.
UnmatchedByAddress ==
    {k \in DOMAIN batteries : \A i \in DOMAIN EffectiveProfiles :
        EffectiveProfiles[i].address # batteries[k].address}

\* The batteries no profile stands for.
Unmatched ==
    {k \in DOMAIN batteries : \A i \in DOMAIN EffectiveProfiles :
        \A j \in Matched(EffectiveProfiles[i]) : batteries[j].id # batteries[k].id}

\* The cards: one for each profile, and one for each battery that has none.  Their
\* order, profiles first, is not told apart.
Inventory ==
    {Item(EffectiveProfiles[i]) : i \in DOMAIN EffectiveProfiles}
      \cup {Item([id |-> batteries[k].id, address |-> batteries[k].address, form |-> "rack"]) :
              k \in Unmatched}

-----------------------------------------------------------------------------

InventoryInit == saved = <<>> /\ batteries = <<>> /\ collectorOnline = FALSE

\* What an admin may send: the rows the panel shows, one of them changed or left
\* out, or one more.
Rows ==
    LET shown == PublicRows
        row == [id : Ids \cup {None}, address : Addresses \cup {None}] IN
    {shown} \cup {[shown EXCEPT ![i] = r] : i \in DOMAIN shown, r \in row}
      \cup {RemoveAt(shown, i) : i \in DOMAIN shown}
      \cup {Append(shown, r) : r \in row}

\* PUT /api/admin/config with a list of batteries.
Save(rows) ==
    /\ Len(rows) <= MaxRows
    /\ saved' = IF ValidRows(rows) THEN Validated(rows) ELSE saved
    /\ UNCHANGED <<batteries, collectorOnline>>

\* The batteries without the one of an id, if it is among them.
Without(id) ==
    IF ById(id) = {} THEN batteries ELSE RemoveAt(batteries, CHOOSE i \in ById(id) : TRUE)

\* The collector reports a battery, or one it has reported anew, or none any more.
Report(battery) ==
    /\ ById(battery.id) # {} \/ Len(batteries) < MaxBatteries
    /\ batteries' = Append(Without(battery.id), battery)
    /\ collectorOnline' = TRUE
    /\ UNCHANGED saved

Forget(id) ==
    /\ ById(id) # {}
    /\ batteries' = Without(id)
    /\ collectorOnline' = TRUE
    /\ UNCHANGED saved

\* The monitor loses its collector and shows what it last heard.
Lose == collectorOnline /\ collectorOnline' = FALSE /\ UNCHANGED <<saved, batteries>>

InventoryNext ==
    \/ \E rows \in Rows : Save(rows)
    \/ \E battery \in Batteries : Report(battery)
    \/ \E id \in Ids : Forget(id)
    \/ Lose

InventorySpec == InventoryInit /\ [][InventoryNext]_inventoryVars

-----------------------------------------------------------------------------
(* Properties. *)

\* Besides the types: ids stay unique in the saved list and among the batteries.
InventoryTypeOK ==
    /\ \A i, j \in DOMAIN saved : saved[i].id = saved[j].id => i = j
    /\ \A i \in DOMAIN saved : saved[i] \in [id : Ids, address : Addresses \cup 1..MaxRows]
    /\ Range(batteries) \subseteq Batteries
    /\ \A i, j \in DOMAIN batteries : batteries[i].id = batteries[j].id => i = j
    /\ collectorOnline \in BOOLEAN

Listed(battery) == {card \in Inventory : card.id = battery.id}

\* Whatever the inventory says of ids and addresses, every battery the collector
\* reports has a card, with its own status and address (config.py:262).
EveryBatteryListed ==
    \A i \in DOMAIN batteries :
        LET battery == batteries[i] IN
        /\ Listed(battery) # {}
        /\ \A card \in Listed(battery) :
             /\ card.address = battery.address
             /\ card.status = Status(battery.status)

\* The form factor the collector reports outranks the monitor's (config.py:371).
CollectorsFormOutranks ==
    \A i \in DOMAIN batteries : batteries[i].form # "other" =>
        \A card \in Listed(batteries[i]) : card.form = batteries[i].form

\* Saving what the panel shows changes neither ids nor addresses (admin.py:299, 392).
RowsRoundTrip ==
    Len(PublicRows) <= MaxRows =>
        /\ ValidRows(PublicRows)
        /\ Validated(PublicRows) = PublicRows

=============================================================================
