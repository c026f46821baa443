------------------------------- MODULE MCPages -------------------------------
(***************************************************************************)
(* What the monitor computes for a page, for TLC: the bills of the savings *)
(* windows (Savings), the bars of the Hour and Date views (IntervalViews), *)
(* the rack's state of charge, live and archived (RackSoc), and the cards  *)
(* of its packs (RackInventory).  Each is a function of inputs of its own, *)
(* so a behaviour changes those of one of them and none of the others.     *)
(***************************************************************************)
EXTENDS Savings, IntervalViews, RackSoc, RackInventory

\* Three months over the change of season, the year beginning with the second.
MCMonthLengths == <<2, 1, 2>>
MCSummer == {3}

MCCharges ==
    [winter |-> [on_peak |-> 9, off_peak |-> 5, super_off_peak |-> 2],
     summer |-> [on_peak |-> 7, off_peak |-> 4, super_off_peak |-> 2]]

Split(on, off, super) == [on_peak |-> on, off_peak |-> off, super_off_peak |-> super]

\* A day below and a day above what it earns of the block, which the history
\* measures one kWh higher; one without a solar meter.
MCEnergies ==
    {[solar |-> Split(0, 1, 0), grid |-> Split(0, 1, 0), unsplit |-> 0],
     [solar |-> None, grid |-> Split(2, 1, 1), unsplit |-> 1]}

\* A worn pack of 10 ampere-hours and one of 30, full and empty; one of 30 by its
\* rating only, half full, and one that does not say what it holds; packs that report a
\* capacity of nothing, or no charge.  Each that has a capacity reports the charge that
\* it holds of it.
MCReading(soc, remaining, full, rated) ==
    [soc |-> soc, remaining |-> remaining, full |-> full, rated |-> rated]
MCConsistent ==
    {MCReading(100, 10, 10, 20), MCReading(0, 0, 30, None), MCReading(50, 15, None, 30),
     MCReading(50, None, None, 30), MCReading(0, 0, 0, 0), MCReading(None, 5, 10, None)}

\* A small rack as the default one is: the last pack, a floor-standing unit on a bus
\* of its own, shares its address with a rack pack.
MCProfiles == <<[id |-> "rack-1", address |-> 1, form |-> "rack"],
                [id |-> "rack-2", address |-> 1, form |-> "floor"]>>

MCBatteries ==
    {[id |-> id, address |-> address, form |-> report[1], status |-> report[2]] :
        id \in Ids, address \in Addresses, report \in {<<"other", "ok">>, <<"floor", "error">>}}

\* Packs differ in what they report only.
PackSymmetry == Permutations(Packs)

VARIABLE inputs   \* "roll-ups", "intervals", "packs" or "inventory": what changes

pageVars == <<inputs, savingsVars, viewVars, rackVars, inventoryVars>>

\* Where no reading is written, midnight has one value.
PageInit ==
    /\ inputs \in {"roll-ups", "intervals", "packs", "inventory"}
    /\ inputs # "intervals" => midnight = 2
    /\ SavingsInit /\ ViewsInit /\ RackInit /\ InventoryInit

PageNext ==
    /\ UNCHANGED inputs
    /\ \/ inputs = "roll-ups" /\ SavingsNext /\ UNCHANGED <<viewVars, rackVars, inventoryVars>>
       \/ inputs = "intervals" /\ ViewsNext /\ UNCHANGED <<savingsVars, rackVars, inventoryVars>>
       \/ inputs = "packs" /\ RackNext /\ UNCHANGED <<savingsVars, viewVars, inventoryVars>>
       \/ inputs = "inventory" /\ InventoryNext /\ UNCHANGED <<savingsVars, viewVars, rackVars>>

PageSpec == PageInit /\ [][PageNext]_pageVars

\* The types of the four.
PageTypeOK ==
    ViewsTypeOK /\ RackTypeOK /\ InventoryTypeOK /\ (inputs = "roll-ups" => SavingsTypeOK)

\* Both plans bill the energy that was used, at the rates of the season it was used
\* in: what riders add to one bill they add to the other (savings.py:263, 360).
BillsAreOfTheEnergyUsed == inputs = "roll-ups" => RidersCancel /\ PricedByOwnSeason

\* Every kWh of a window is billed in one block, and the year's blocks are those of
\* its months, no day counted twice or left out (storage.py:747, 756).
BlocksAddUp == inputs = "roll-ups" => YearIsItsMonths /\ EveryKwhHasABlock

\* No bar of a view shows more than its bucket and the one before it used, and the
\* bars of a window read throughout show all of it (storage.py:1939, 1963).
BarsAddUp == NoBarTooHigh /\ WholeHoursAddUp

\* The rack's state of charge lies between its packs', each pack that reports one
\* moves it, and no other does (rack_state.py:4).
RackIsItsPacks == NoFullerThanItsPacks /\ EveryPackMovesTheRack /\ SilentPackMovesNothing

\* Every battery reported has a card with its own status, address and form, and
\* saving the cards as shown changes none (config.py:262, 371; admin.py:299).
CardsAreTheBatteries == EveryBatteryListed /\ CollectorsFormOutranks /\ RowsRoundTrip
=============================================================================
