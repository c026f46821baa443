----------------------------- MODULE PagesProofs -----------------------------
(***************************************************************************)
(* The pages, for any packs, batteries, readings, windows, months and      *)
(* prices: the cards of the batteries, the rack's state of charge, the     *)
(* bars of the two views, and what the days of the savings panel used.     *)
(***************************************************************************)
EXTENDS MCPages, FoldTheorems, SequenceTheorems

-----------------------------------------------------------------------------
(* The cards of the batteries (RackInventory).                             *)

\* What is saved, and shown, and what is sent.
SavedRow == [id : Ids, address : Addresses \cup 1..MaxRows]
SentRow == [id : Ids \cup {None}, address : Addresses \cup 1..MaxRows \cup {None}]

Unique(rows) == \A i, j \in DOMAIN rows : rows[i].id = rows[j].id => i = j

InventoryInv ==
    /\ saved \in Seq(SavedRow) /\ Unique(saved)
    /\ batteries \in Seq(Batteries) /\ Unique(batteries)
    /\ collectorOnline \in BOOLEAN

\* A sequence without the item at a place.
LEMMA RemoveAtIs ==
    ASSUME NEW T, NEW s \in Seq(T), NEW i \in 1..Len(s)
    PROVE  /\ RemoveAt(s, i) \in Seq(T) /\ Len(RemoveAt(s, i)) = Len(s) - 1
           /\ \A k \in 1..(Len(s) - 1) : RemoveAt(s, i)[k] = IF k < i THEN s[k] ELSE s[k + 1]
<1> DEFINE a == SubSeq(s, 1, i - 1)
           b == SubSeq(s, i + 1, Len(s))
<1>1. Len(s) \in Nat /\ i \in Nat /\ 1 <= i /\ i <= Len(s)
  OBVIOUS
<1>2. a \in Seq(T) /\ Len(a) = i - 1 /\ \A k \in 1..(i - 1) : a[k] = s[k]
  BY <1>1
<1>3. b \in Seq(T) /\ Len(b) = Len(s) - i /\ \A k \in 1..(Len(s) - i) : b[k] = s[k + i]
  BY <1>1
<1>4. RemoveAt(s, i) = a \o b
  BY DEF RemoveAt
<1> HIDE DEF a, b
<1>0. /\ a \o b \in Seq(T) /\ Len(a \o b) = Len(a) + Len(b)
      /\ \A k \in 1..(Len(a) + Len(b)) : (a \o b)[k] = IF k <= Len(a) THEN a[k] ELSE b[k - Len(a)]
  <2>1. a \in Seq(T) /\ b \in Seq(T)
    BY <1>2, <1>3
  <2> QED BY <2>1, ConcatProperties
<1>5. a \o b \in Seq(T) /\ Len(a \o b) = Len(s) - 1 /\ Len(a) + Len(b) = Len(s) - 1
  BY <1>0, <1>1, <1>2, <1>3
<1>6. ASSUME NEW k \in 1..(Len(s) - 1)
      PROVE  (a \o b)[k] = IF k < i THEN s[k] ELSE s[k + 1]
  <2>1. (a \o b)[k] = IF k <= Len(a) THEN a[k] ELSE b[k - Len(a)]
    BY <1>0, <1>5
  <2>2. CASE k < i
    BY <1>1, <1>2, <2>1, <2>2
  <2>3. CASE ~(k < i)
    <3>1. k - Len(a) \in 1..(Len(s) - i) /\ (k - Len(a)) + i = k + 1
      BY <1>1, <1>2, <2>3
    <3> QED BY <1>1, <1>2, <1>3, <2>1, <2>3, <3>1
  <2> QED BY <2>2, <2>3
<1> QED BY <1>4, <1>5, <1>6

LEMMA RemoveAtUnique ==
    ASSUME NEW T, NEW s \in Seq(T), NEW i \in 1..Len(s), Unique(s)
    PROVE  /\ Unique(RemoveAt(s, i))
           /\ \A k \in DOMAIN RemoveAt(s, i) : RemoveAt(s, i)[k].id # s[i].id
<1> DEFINE r == RemoveAt(s, i)
           at(k) == IF k < i THEN k ELSE k + 1
<1>1. r \in Seq(T) /\ Len(r) = Len(s) - 1 /\ \A k \in 1..(Len(s) - 1) : r[k] = s[at(k)]
  <2>1. \A k \in 1..(Len(s) - 1) : r[k] = IF k < i THEN s[k] ELSE s[k + 1]
    BY RemoveAtIs
  <2> QED BY <2>1, RemoveAtIs
<1>2. DOMAIN r = 1..(Len(s) - 1) /\ DOMAIN s = 1..Len(s) /\ Len(s) \in Nat
  BY <1>1
<1> HIDE DEF r
<1>3. \A k \in 1..(Len(s) - 1) : at(k) \in 1..Len(s) /\ at(k) # i
  BY <1>2
<1>4. \A k, l \in 1..(Len(s) - 1) : at(k) = at(l) => k = l
  BY <1>2
<1> HIDE DEF at
<1>5. \A k, l \in DOMAIN r : r[k].id = r[l].id => k = l
  <2> SUFFICES ASSUME NEW k \in DOMAIN r, NEW l \in DOMAIN r, r[k].id = r[l].id PROVE k = l
    OBVIOUS
  <2>1. s[at(k)].id = s[at(l)].id /\ at(k) \in DOMAIN s /\ at(l) \in DOMAIN s
    BY <1>1, <1>2, <1>3
  <2>2. at(k) = at(l)
    BY <2>1 DEF Unique
  <2> QED BY <1>2, <1>4, <2>2
<1>6. ASSUME NEW k \in DOMAIN r, r[k].id = s[i].id PROVE FALSE
  <2>1. s[at(k)].id = s[i].id /\ at(k) \in DOMAIN s /\ i \in DOMAIN s /\ at(k) # i
    BY <1>1, <1>2, <1>3, <1>6
  <2> QED BY <2>1 DEF Unique
<1> QED BY <1>5, <1>6 DEF Unique, r

LEMMA ShownRows ==
    ASSUME saved \in Seq(SavedRow)
    PROVE  PublicRows \in Seq(SavedRow)
<1>1. CASE saved = <<>>
  <2>1. BaseProfiles \in Seq([id : Ids, address : Addresses, form : {"rack", "floor"}])
        /\ Addresses \subseteq Nat
    BY InventoryAssumption
  <2>2. EffectiveProfiles = BaseProfiles
    BY <1>1 DEF EffectiveProfiles
  <2>3. PublicRows = [i \in DOMAIN BaseProfiles |->
                        [id |-> BaseProfiles[i].id, address |-> BaseProfiles[i].address]]
    BY <2>2 DEF PublicRows
  <2>4. \A i \in 1..Len(BaseProfiles) : [id |-> BaseProfiles[i].id, address |-> BaseProfiles[i].address] \in SavedRow
    <3> SUFFICES ASSUME NEW i \in 1..Len(BaseProfiles)
                 PROVE  [id |-> BaseProfiles[i].id, address |-> BaseProfiles[i].address] \in SavedRow
      OBVIOUS
    <3>1. BaseProfiles[i] \in [id : Ids, address : Addresses, form : {"rack", "floor"}]
      BY <2>1, ElementOfSeq
    <3>2. BaseProfiles[i].id \in Ids /\ BaseProfiles[i].address \in Addresses
      BY <2>1, <3>1
    <3> QED BY <3>2 DEF SavedRow
  <2> QED BY <2>1, <2>3, <2>4, SMTT(40)
<1>2. CASE saved # <<>>
  <2>1. Len(saved) \in Nat /\ DOMAIN saved = 1..Len(saved) /\ Addresses \cup 1..MaxRows \subseteq Nat
    BY InventoryAssumption
  <2>2. PublicRows = [i \in DOMAIN saved |-> [id |-> saved[i].id, address |-> saved[i].address]]
    BY <1>2 DEF EffectiveProfiles, PublicRows
  <2>3. \A i \in 1..Len(saved) : saved[i] \in SavedRow
    BY <2>1
  <2>4. \A i \in 1..Len(saved) : [id |-> saved[i].id, address |-> saved[i].address] \in SavedRow
    BY <2>1, <2>3 DEF SavedRow, SavedRow
  <2> QED BY <2>1, <2>2, <2>4
<1> QED BY <1>1, <1>2

LEMMA SentRows ==
    ASSUME saved \in Seq(SavedRow), NEW rows \in Rows
    PROVE  rows \in Seq(SentRow)
<1> DEFINE shown == PublicRows
           row == [id : Ids \cup {None}, address : Addresses \cup {None}]
<1>0. SavedRow \subseteq SentRow
  BY DEF SavedRow, SentRow
<1>1. shown \in Seq(SentRow)
  BY <1>0, ShownRows, SeqMonotonic
<1>2. \A r \in row : r \in SentRow
  BY InventoryAssumption DEF SentRow
<1>3. \/ rows = shown
      \/ \E i \in DOMAIN shown, r \in row : rows = [shown EXCEPT ![i] = r]
      \/ \E i \in DOMAIN shown : rows = RemoveAt(shown, i)
      \/ \E r \in row : rows = Append(shown, r)
  BY DEF Rows
<1> HIDE DEF shown, row
<1>4. CASE \E i \in DOMAIN shown, r \in row : rows = [shown EXCEPT ![i] = r]
  BY <1>1, <1>2, <1>4
<1>5. CASE \E i \in DOMAIN shown : rows = RemoveAt(shown, i)
  BY <1>1, <1>5, RemoveAtIs
<1>6. CASE \E r \in row : rows = Append(shown, r)
  BY <1>1, <1>2, <1>6
<1> QED BY <1>1, <1>3, <1>4, <1>5, <1>6

\* Rows that pass have ids of their own, and as saved an address each.
LEMMA SavedRows ==
    ASSUME NEW rows \in Seq(SentRow), Len(rows) <= MaxRows, ValidRows(rows)
    PROVE  Validated(rows) \in Seq(SavedRow) /\ Unique(Validated(rows))
<1>1. Len(rows) \in Nat /\ DOMAIN rows = 1..Len(rows) /\ MaxRows \in Nat /\ None \notin Nat
  BY InventoryAssumption
<1>2. Validated(rows) = [i \in 1..Len(rows) |-> Validated(rows)[i]]
  BY <1>1 DEF Validated
<1>3. ASSUME NEW i \in 1..Len(rows)
      PROVE  Validated(rows)[i] \in SavedRow /\ Validated(rows)[i].id = rows[i].id
  <2>1. rows[i] \in SentRow
    BY ElementOfSeq
  <2>2. rows[i].id \in Ids /\ i \in 1..MaxRows
    BY <1>1, <2>1 DEF SentRow, ValidRows
  <2>3. Validated(rows)[i] =
          [id |-> rows[i].id, address |-> IF rows[i].address = None THEN i ELSE rows[i].address]
    BY <1>1 DEF Validated
  <2>4. (IF rows[i].address = None THEN i ELSE rows[i].address) \in Addresses \cup 1..MaxRows
    BY <1>1, <2>1, <2>2 DEF SentRow
  <2> QED BY <2>2, <2>3, <2>4 DEF SavedRow
<1>4. Validated(rows) \in Seq(SavedRow) /\ DOMAIN Validated(rows) = 1..Len(rows)
  <2> DEFINE v == Validated(rows)
  <2>1. v = [i \in 1..Len(rows) |-> v[i]] /\ \A i \in 1..Len(rows) : v[i] \in SavedRow
    BY <1>2, <1>3
  <2> HIDE DEF v
  <2>2. v \in Seq(SavedRow) /\ DOMAIN v = 1..Len(rows)
    BY <1>1, <2>1
  <2> QED BY <2>2 DEF v
<1>5. \A i, j \in 1..Len(rows) : rows[i].id = rows[j].id => i = j
  BY <1>1 DEF ValidRows
<1>6. Unique(Validated(rows))
  BY <1>3, <1>4, <1>5 DEF Unique
<1> QED BY <1>4, <1>6

\* The batteries without one, and with one more.
LEMMA WithoutIs ==
    ASSUME InventoryInv, NEW id
    PROVE  /\ Without(id) \in Seq(Batteries) /\ Unique(Without(id))
           /\ \A k \in DOMAIN Without(id) : Without(id)[k].id # id
<1>1. CASE ById(id) = {}
  <2>1. Without(id) = batteries
    BY <1>1 DEF Without
  <2>2. \A k \in DOMAIN batteries : batteries[k].id # id
    BY <1>1 DEF ById
  <2> QED BY <2>1, <2>2 DEF InventoryInv
<1>2. CASE ById(id) # {}
  <2>1. PICK i \in ById(id) : Without(id) = RemoveAt(batteries, i)
    BY <1>2 DEF Without
  <2>2. i \in 1..Len(batteries) /\ batteries[i].id = id
    BY <2>1 DEF ById, InventoryInv
  <2>3. batteries \in Seq(Batteries) /\ Unique(batteries)
    BY DEF InventoryInv
  <2>4. RemoveAt(batteries, i) \in Seq(Batteries)
    BY <2>2, <2>3, RemoveAtIs
  <2>5. /\ Unique(RemoveAt(batteries, i))
        /\ \A k \in DOMAIN RemoveAt(batteries, i) : RemoveAt(batteries, i)[k].id # batteries[i].id
    BY <2>2, <2>3, RemoveAtUnique
  <2> QED BY <2>1, <2>2, <2>4, <2>5
<1> QED BY <1>1, <1>2

LEMMA InventoryStart == InventoryInit => InventoryInv
<1>1. DOMAIN <<>> = {}
  OBVIOUS
<1> QED BY <1>1, EmptySeq DEF InventoryInit, InventoryInv, Unique

LEMMA InventoryStep ==
    ASSUME InventoryInv, [InventoryNext]_inventoryVars PROVE InventoryInv'
<1>1. ASSUME NEW rows \in Rows, Save(rows) PROVE InventoryInv'
  <2>1. saved \in Seq(SavedRow) /\ rows \in Seq(SentRow)
    BY SentRows DEF InventoryInv
  <2>2. CASE ValidRows(rows)
    <3>1. saved' = Validated(rows) /\ Len(rows) <= MaxRows
      BY <1>1, <2>2 DEF Save
    <3>2. Validated(rows) \in Seq(SavedRow) /\ Unique(Validated(rows))
      BY <2>1, <2>2, <3>1, SavedRows
    <3>3. saved' \in Seq(SavedRow) /\ Unique(saved')
      BY <3>1, <3>2
    <3> QED BY <1>1, <3>3 DEF InventoryInv, Save, Unique
  <2>3. CASE ~ValidRows(rows)
    BY <1>1, <2>3 DEF InventoryInv, Save, Unique
  <2> QED BY <2>2, <2>3
<1>2. ASSUME NEW battery \in Batteries, Report(battery) PROVE InventoryInv'
  <2> DEFINE rest == Without(battery.id)
  <2>1. /\ rest \in Seq(Batteries) /\ Unique(rest)
        /\ \A k \in DOMAIN rest : rest[k].id # battery.id
    BY WithoutIs
  <2>2. batteries' = Append(rest, battery) /\ collectorOnline' = TRUE /\ saved' = saved
    BY <1>2 DEF Report
  <2> HIDE DEF rest
  <2>3. /\ batteries' \in Seq(Batteries) /\ DOMAIN batteries' = 1..(Len(rest) + 1)
        /\ \A k \in 1..Len(rest) : batteries'[k] = rest[k]
        /\ batteries'[Len(rest) + 1] = battery /\ Len(rest) \in Nat /\ DOMAIN rest = 1..Len(rest)
    BY <2>1, <2>2
  <2>4. \A i, j \in DOMAIN batteries' : batteries'[i].id = batteries'[j].id => i = j
    <3> SUFFICES ASSUME NEW i \in 1..(Len(rest) + 1), NEW j \in 1..(Len(rest) + 1),
                        batteries'[i].id = batteries'[j].id
                 PROVE  i = j
      BY <2>3
    <3>1. CASE i \in 1..Len(rest) /\ j \in 1..Len(rest)
      BY <2>1, <2>3, <3>1 DEF Unique
    <3>2. CASE i \in 1..Len(rest) /\ j = Len(rest) + 1
      BY <2>1, <2>3, <3>2
    <3>3. CASE j \in 1..Len(rest) /\ i = Len(rest) + 1
      BY <2>1, <2>3, <3>3
    <3> QED BY <2>3, <3>1, <3>2, <3>3
  <2> QED BY <2>2, <2>3, <2>4 DEF InventoryInv, Unique
<1>3. ASSUME NEW id \in Ids, Forget(id) PROVE InventoryInv'
  <2>1. Without(id) \in Seq(Batteries) /\ Unique(Without(id))
    BY WithoutIs
  <2>2. batteries' = Without(id) /\ collectorOnline' = TRUE /\ saved' = saved
    BY <1>3 DEF Forget
  <2> QED BY <2>1, <2>2 DEF InventoryInv, Unique
<1>4. CASE Lose
  BY <1>4 DEF InventoryInv, Unique, Lose
<1>5. CASE UNCHANGED inventoryVars
  BY <1>5 DEF InventoryInv, Unique, inventoryVars
<1> QED BY <1>1, <1>2, <1>3, <1>4, <1>5 DEF InventoryNext

LEMMA InventoryTyped == ASSUME InventoryInv PROVE InventoryTypeOK
<1>1. \A i \in DOMAIN saved : saved[i] \in [id : Ids, address : Addresses \cup 1..MaxRows]
  <2>1. saved \in Seq(SavedRow)
    BY DEF InventoryInv
  <2>2. \A i \in 1..Len(saved) : saved[i] \in SavedRow
    BY <2>1, ElementOfSeq
  <2> QED BY <2>1, <2>2 DEF SavedRow
<1>2. Range(batteries) \subseteq Batteries
  BY DEF InventoryInv, Range
<1> QED BY <1>1, <1>2 DEF InventoryInv, InventoryTypeOK, Unique

\* A profile stands for one battery or for none.
LEMMA MatchedOne ==
    ASSUME InventoryInv, NEW profile, NEW i \in Matched(profile), NEW j \in Matched(profile)
    PROVE  i = j /\ i \in DOMAIN batteries
<1>1. DOMAIN batteries \subseteq Nat
  BY DEF InventoryInv
<1>2. CASE ById(profile.id) # {}
  BY <1>2 DEF InventoryInv, Unique, Matched, ById
<1>3. CASE ById(profile.id) = {}
  <2>1. i \in ByAddress(profile.address) /\ j \in ByAddress(profile.address)
    BY <1>3 DEF Matched
  <2>2. i <= j /\ j <= i /\ i \in DOMAIN batteries /\ j \in DOMAIN batteries
    BY <2>1 DEF ByAddress
  <2> QED BY <1>1, <2>2
<1> QED BY <1>2, <1>3

\* A card is that of a battery, or no battery has its id.
LEMMA ItemIs ==
    ASSUME InventoryInv, NEW profile
    PROVE  /\ \A j \in Matched(profile) :
                /\ Item(profile).id = batteries[j].id
                /\ Item(profile).address = batteries[j].address
                /\ Item(profile).status = Status(batteries[j].status)
                /\ Item(profile).form = FormFactor(profile, batteries[j])
           /\ Matched(profile) = {} =>
                /\ Item(profile).id = profile.id
                /\ \A j \in DOMAIN batteries : batteries[j].id # profile.id
<1>1. ASSUME NEW j \in Matched(profile)
      PROVE  Item(profile) =
               [id |-> batteries[j].id, address |-> batteries[j].address,
                form |-> FormFactor(profile, batteries[j]), status |-> Status(batteries[j].status)]
  <2>1. (CHOOSE i \in Matched(profile) : TRUE) = j
    BY MatchedOne
  <2> QED BY <2>1 DEF Item
<1>2. ASSUME Matched(profile) = {}
      PROVE  Item(profile).id = profile.id /\ \A j \in DOMAIN batteries : batteries[j].id # profile.id
  <2>1. Item(profile).id = profile.id
    BY <1>2 DEF Item
  <2>2. ById(profile.id) = {}
    BY <1>2 DEF Matched
  <2> QED BY <2>1, <2>2 DEF ById
<1> QED BY <1>1, <1>2

\* Every card with the id of a battery was made of that battery.
LEMMA ListedIs ==
    ASSUME InventoryInv, NEW i \in DOMAIN batteries, NEW card \in Listed(batteries[i])
    PROVE  \E profile : card = Item(profile) /\ i \in Matched(profile)
<1>1. card \in Inventory /\ card.id = batteries[i].id
  BY DEF Listed
<1>2. PICK profile : card = Item(profile)
  BY <1>1 DEF Inventory
<1>3. CASE Matched(profile) = {}
  BY <1>1, <1>2, <1>3, ItemIs
<1>4. CASE Matched(profile) # {}
  <2>1. PICK j \in Matched(profile) : TRUE
    BY <1>4
  <2>2. batteries[j].id = batteries[i].id /\ j \in DOMAIN batteries
    BY <1>1, <1>2, <2>1, ItemIs, MatchedOne
  <2>3. j = i
    BY <2>2 DEF InventoryInv, Unique
  <2> QED BY <1>2, <2>1, <2>3
<1> QED BY <1>3, <1>4

LEMMA EveryCard == ASSUME InventoryInv PROVE EveryBatteryListed
<1> SUFFICES ASSUME NEW i \in DOMAIN batteries
             PROVE  /\ Listed(batteries[i]) # {}
                    /\ \A card \in Listed(batteries[i]) :
                         /\ card.address = batteries[i].address
                         /\ card.status = Status(batteries[i].status)
  BY DEF EveryBatteryListed
<1>1. CASE i \in Unmatched
  <2> DEFINE profile == [id |-> batteries[i].id, address |-> batteries[i].address, form |-> "rack"]
  <2>1. Item(profile) \in Inventory
    BY <1>1 DEF Inventory
  <2>2. i \in Matched(profile)
    BY DEF Matched, ById
  <2> HIDE DEF profile
  <2>3. Item(profile).id = batteries[i].id
    BY <2>2, ItemIs
  <2>4. Item(profile) \in Listed(batteries[i])
    BY <2>1, <2>3 DEF Listed
  <2> QED BY <2>4, ListedIs, ItemIs
<1>2. CASE i \notin Unmatched
  <2>1. PICK k \in DOMAIN EffectiveProfiles :
          \E j \in Matched(EffectiveProfiles[k]) : batteries[j].id = batteries[i].id
    BY <1>2 DEF Unmatched
  <2>2. Item(EffectiveProfiles[k]) \in Inventory
    BY DEF Inventory
  <2>3. Item(EffectiveProfiles[k]).id = batteries[i].id
    BY <2>1, ItemIs
  <2>4. Item(EffectiveProfiles[k]) \in Listed(batteries[i])
    BY <2>2, <2>3 DEF Listed
  <2> QED BY <2>4, ListedIs, ItemIs
<1> QED BY <1>1, <1>2

LEMMA EveryForm == ASSUME InventoryInv PROVE CollectorsFormOutranks
<1> SUFFICES ASSUME NEW i \in DOMAIN batteries, batteries[i].form # "other",
                    NEW card \in Listed(batteries[i])
             PROVE  card.form = batteries[i].form
  BY DEF CollectorsFormOutranks
<1>1. PICK profile : card = Item(profile) /\ i \in Matched(profile)
  BY ListedIs
<1>2. card.form = FormFactor(profile, batteries[i])
  BY <1>1, ItemIs
<1>3. batteries[i] \in Batteries
  BY DEF InventoryInv
<1>4. batteries[i].form \in {"rack", "floor"}
  BY <1>3, InventoryAssumption
<1> QED BY <1>2, <1>4 DEF FormFactor

\* The ids of the environment are read as they are; that they differ is up to whoever
\* sets them.
BaseIdsDiffer == Unique(BaseProfiles)

LEMMA ShownRowsPass ==
    ASSUME BaseIdsDiffer, InventoryInv PROVE RowsRoundTrip
<1>1. PublicRows \in Seq(SavedRow)
  BY ShownRows DEF InventoryInv
<1>2. PublicRows # <<>> /\ Unique(PublicRows)
  <2>1. CASE saved = <<>>
    <3>1. PublicRows = [i \in DOMAIN BaseProfiles |->
                          [id |-> BaseProfiles[i].id, address |-> BaseProfiles[i].address]]
      BY <2>1 DEF EffectiveProfiles, PublicRows
    <3>2. BaseProfiles # <<>> /\ Len(BaseProfiles) \in Nat /\ DOMAIN BaseProfiles = 1..Len(BaseProfiles)
      BY InventoryAssumption
    <3>3. Len(BaseProfiles) # 0
      BY <3>2, InventoryAssumption, EmptySeq
    <3>4. DOMAIN PublicRows = DOMAIN BaseProfiles /\ 1 \in DOMAIN PublicRows
      BY <3>1, <3>2, <3>3
    <3>5. \A i \in DOMAIN PublicRows : PublicRows[i].id = BaseProfiles[i].id
      BY <3>1
    <3> QED BY <3>4, <3>5 DEF BaseIdsDiffer, Unique
  <2>2. CASE saved # <<>>
    <3>1. PublicRows = [i \in DOMAIN saved |-> [id |-> saved[i].id, address |-> saved[i].address]]
      BY <2>2 DEF EffectiveProfiles, PublicRows
    <3>2. Len(saved) \in Nat /\ DOMAIN saved = 1..Len(saved) /\ Len(saved) # 0
      BY <2>2, EmptySeq DEF InventoryInv
    <3> QED BY <3>1, <3>2 DEF InventoryInv, Unique
  <2> QED BY <2>1, <2>2
<1>3. ASSUME NEW i \in DOMAIN PublicRows
      PROVE  PublicRows[i].id # None /\ PublicRows[i].address # None
             /\ PublicRows[i] = [id |-> PublicRows[i].id, address |-> PublicRows[i].address]
  <2>1. PublicRows[i] \in SavedRow
    BY <1>1, ElementOfSeq
  <2>2. None \notin Ids /\ None \notin Addresses \cup 1..MaxRows
    <3>1. Addresses \cup 1..MaxRows \subseteq Nat
      BY InventoryAssumption
    <3> QED BY <3>1, InventoryAssumption
  <2> QED BY <2>1, <2>2 DEF SavedRow
<1>4. ValidRows(PublicRows)
  BY <1>2, <1>3 DEF ValidRows, Unique
<1>5. Validated(PublicRows) = PublicRows
  <2> DEFINE rows == PublicRows
  <2>1. Validated(rows) = [i \in DOMAIN rows |-> rows[i]]
    BY <1>3 DEF Validated
  <2>2. rows = [i \in DOMAIN rows |-> rows[i]]
    <3> HIDE DEF rows
    <3>1. rows \in Seq(SavedRow)
      BY <1>1 DEF rows
    <3> QED BY <3>1
  <2> QED BY <2>1, <2>2
<1> QED BY <1>4, <1>5 DEF RowsRoundTrip

-----------------------------------------------------------------------------
(* The state of charge of the rack (RackSoc).                              *)

Amount == Nat \cup {None}
Report4 == [soc : Amount, remaining : Amount, full : Amount, rated : Amount]

RackInv ==
    /\ latest \in [Packs -> Readings \cup {None}]
    /\ bucket \in [Packs -> Seq(Readings)]
    /\ \A p \in Packs : Len(bucket[p]) <= MaxSamples

LEMMA RackStep == ASSUME RackInv, [RackNext]_rackVars PROVE RackInv'
<1>0. MaxSamples \in Nat
  BY RackSocAssumption
<1>1. CASE ReadPack
  <2>1. PICK p \in Packs, r \in Readings :
          /\ Len(bucket[p]) < MaxSamples
          /\ latest' = [latest EXCEPT ![p] = r]
          /\ bucket' = [bucket EXCEPT ![p] = Append(@, r)]
    BY <1>1 DEF ReadPack
  <2>2. latest' \in [Packs -> Readings \cup {None}]
    BY <2>1 DEF RackInv
  <2>3. bucket[p] \in Seq(Readings)
    BY DEF RackInv
  <2>4. Append(bucket[p], r) \in Seq(Readings) /\ Len(Append(bucket[p], r)) = Len(bucket[p]) + 1
        /\ Len(bucket[p]) \in Nat
    BY <2>3
  <2>5. bucket' \in [Packs -> Seq(Readings)]
    BY <2>1, <2>4 DEF RackInv
  <2>6. \A q \in Packs : Len(bucket'[q]) <= MaxSamples
    BY <1>0, <2>1, <2>4 DEF RackInv
  <2> QED BY <2>2, <2>5, <2>6 DEF RackInv
<1>2. CASE FailPack
  BY <1>2 DEF FailPack, RackInv
<1>3. CASE NextBucket
  BY <1>0, <1>3, EmptySeq DEF NextBucket, RackInv
<1>4. CASE UNCHANGED rackVars
  BY <1>4 DEF rackVars, RackInv
<1> QED BY <1>1, <1>2, <1>3, <1>4 DEF RackNext

LEMMA RackStart == RackInit => RackInv
<1>1. MaxSamples \in Nat
  BY RackSocAssumption
<1> QED BY <1>1, EmptySeq DEF RackInit, RackInv

\* A multiple of a sum.
LEMMA SumAtTimes ==
    ASSUME NEW g, NEW h, NEW S, IsFiniteSet(S), NEW k \in Int,
           \A x \in S : g[x] \in Int /\ h[x] = k * g[x]
    PROVE  SumAt(h, S) = k * SumAt(g, S) /\ SumAt(g, S) \in Int
<1> DEFINE f == [x \in S |-> 0]
<1>1. \A x \in S : f[x] = 0
  OBVIOUS
<1> HIDE DEF f
<1>2. ASSUME NEW x \in S PROVE f[x] \in Int /\ g[x] \in Int /\ h[x] = f[x] + k * g[x]
  <2>1. PICK a \in Int : a = g[x]
    OBVIOUS
  <2>2. k * a \in Int
    OBVIOUS
  <2> QED BY <1>1, <2>1, <2>2
<1>3. SumAt(h, S) = SumAt(f, S) + k * SumAt(g, S)
  BY <1>2, SumAtLinear
<1>4. SumAt(f, S) = 0
  BY <1>1, SumAtZeros
<1>5. PICK b \in Int : b = SumAt(g, S)
  BY SumAtOne
<1>6. k * b \in Int
  OBVIOUS
<1> QED BY <1>3, <1>4, <1>5, <1>6

\* What lies above a multiple of its weight does so in a sum, and what lies below.
Bounded(t, w, S, lo, hi) ==
    \A x \in S : t[x] \in Int /\ w[x] \in Int /\ lo * w[x] <= t[x] /\ t[x] <= hi * w[x]

LEMMA SumsBounded ==
    ASSUME NEW t, NEW w, NEW S, IsFiniteSet(S), NEW lo \in Int, NEW hi \in Int,
           Bounded(t, w, S, lo, hi)
    PROVE  /\ lo * SumAt(w, S) <= SumAt(t, S) /\ SumAt(t, S) <= hi * SumAt(w, S)
           /\ SumAt(w, S) \in Int /\ SumAt(t, S) \in Int
<1> DEFINE low == [x \in S |-> lo * w[x]]
           high == [x \in S |-> hi * w[x]]
<1>0. \A x \in S : t[x] \in Int /\ w[x] \in Int /\ lo * w[x] <= t[x] /\ t[x] <= hi * w[x]
  BY DEF Bounded
<1>1. \A x \in S : low[x] = lo * w[x] /\ high[x] = hi * w[x]
  OBVIOUS
<1> HIDE DEF low, high
<1>2. \A a, b \in Int : a * b \in Int
  OBVIOUS
<1>3. \A x \in S : low[x] \in Int /\ high[x] \in Int
  BY <1>0, <1>1, <1>2
<1>4. SumAt(low, S) <= SumAt(t, S)
  BY <1>0, <1>1, <1>3, SumAtMonotone
<1>5. SumAt(t, S) <= SumAt(high, S)
  BY <1>0, <1>1, <1>3, SumAtMonotone
<1>6. SumAt(low, S) = lo * SumAt(w, S) /\ SumAt(high, S) = hi * SumAt(w, S)
  BY <1>0, <1>1, SumAtTimes
<1>7. SumAt(w, S) \in Int /\ SumAt(t, S) \in Int
  BY <1>0, SumAtOne
<1> QED BY <1>4, <1>5, <1>6, <1>7

\* Among finitely many numbers are a least and a greatest.
LEMMA LeastAndGreatest ==
    ASSUME NEW v, NEW S, IsFiniteSet(S), S # {}, \A x \in S : v[x] \in Nat
    PROVE  \E x, y \in S : \A z \in S : v[x] <= v[z] /\ v[z] <= v[y]
<1> DEFINE Found(T) == \E x, y \in T : \A z \in T : v[x] <= v[z] /\ v[z] <= v[y]
           good == {T \in SUBSET S : T = {} \/ Found(T)}
<1>1. {} \in good
  OBVIOUS
<1>2. ASSUME NEW T \in SUBSET S, NEW z \in S, T \in good, z \notin T PROVE T \cup {z} \in good
  <2>1. CASE T = {}
    <3>1. T \cup {z} = {z} /\ v[z] \in Nat
      BY <2>1
    <3> QED BY <3>1
  <2>2. CASE T # {}
    <3>1. PICK x \in T, y \in T : \A u \in T : v[x] <= v[u] /\ v[u] <= v[y]
      BY <1>2, <2>2
    <3> DEFINE l == IF v[z] <= v[x] THEN z ELSE x
               h == IF v[y] <= v[z] THEN z ELSE y
    <3>2. l \in T \cup {z} /\ h \in T \cup {z}
      OBVIOUS
    <3>3. \A u \in T \cup {z} : v[l] <= v[u] /\ v[u] <= v[h]
      <4>1. v[z] \in Int /\ v[x] \in Int /\ v[y] \in Int /\ v[l] \in Int /\ v[h] \in Int
        OBVIOUS
      <4>2. v[l] <= v[z] /\ v[l] <= v[x] /\ v[z] <= v[h] /\ v[y] <= v[h]
        BY <4>1
      <4> HIDE DEF l, h
      <4>3. ASSUME NEW u \in T PROVE v[l] <= v[u] /\ v[u] <= v[h]
        <5>1. v[x] <= v[u] /\ v[u] <= v[y] /\ v[u] \in Int
          BY <3>1
        <5> QED BY <4>1, <4>2, <5>1
      <4> QED BY <4>2, <4>3
    <3> HIDE DEF l, h
    <3> QED BY <3>2, <3>3
  <2> QED BY <2>1, <2>2
<1> HIDE DEF good
<1>3. Extends(S, good)
  BY <1>2 DEF Extends
<1>4. S \in good
  BY <1>1, <1>3, SubsetInduction
<1> QED BY <1>4 DEF good

LEMMA SumPositive ==
    ASSUME NEW f, NEW S, IsFiniteSet(S), S # {}, \A x \in S : f[x] \in Nat \ {0}
    PROVE  SumAt(f, S) \in Nat \ {0}
<1>1. PICK x \in S : TRUE
  OBVIOUS
<1>2. IsFiniteSet(S \ {x})
  BY FS_RemoveElement
<1>3. SumAt(f, S \ {x}) \in Nat
  BY <1>2, SumAtNat
<1>4. SumAt(f, S) = f[x] + SumAt(f, S \ {x})
  BY SumAtOne
<1>5. PICK a \in Nat : a = f[x] /\ a # 0
  OBVIOUS
<1> QED BY <1>3, <1>4, <1>5

\* What the packs of a set report, as functions.
SocsOf(readings, S) == [p \in S |-> readings[p].soc]
RemainingOf(readings, S) == [p \in S |-> readings[p].remaining]
FullsOf(readings, S) == [p \in S |-> FullOf(readings[p])]

Snapshots == [Packs -> Report4 \cup {None}]
Weighing(readings) == {p \in WithSoc(readings) : HasCapacity(readings[p])}

LEMMA CapacityIs ==
    ASSUME NEW readings
    PROVE  LET S == Weighing(readings)
           IN Capacity(readings) =
                <<100 * SumAt(RemainingOf(readings, S), S), SumAt(FullsOf(readings, S), S)>>
<1> DEFINE S == Weighing(readings)
           remaining(p) == readings[p].remaining
           full(p) == FullOf(readings[p])
<1>1. IsFiniteSet(S)
  BY RackSocAssumption, FS_Subset DEF Weighing, WithSoc
<1>2. Capacity(readings) = <<100 * MapThenSumSet(remaining, S), MapThenSumSet(full, S)>>
  BY DEF Capacity, SumOver, Weighing
<1>3. OnSet(remaining, S) = RemainingOf(readings, S) /\ OnSet(full, S) = FullsOf(readings, S)
  BY DEF OnSet, RemainingOf, FullsOf
<1> HIDE DEF S, remaining, full
<1>4. /\ MapThenSumSet(remaining, S) = SumAt(OnSet(remaining, S), S)
      /\ MapThenSumSet(full, S) = SumAt(OnSet(full, S), S)
  BY <1>1, SumIsOfFunction
<1>5. Capacity(readings) = <<100 * SumAt(RemainingOf(readings, S), S), SumAt(FullsOf(readings, S), S)>>
  BY <1>2, <1>3, <1>4
<1> QED BY <1>5 DEF S

LEMMA MeanIs ==
    ASSUME NEW readings
    PROVE  LET S == WithSoc(readings)
           IN Mean(readings) = <<SumAt(SocsOf(readings, S), S), Cardinality(S)>>
<1> DEFINE S == WithSoc(readings)
           soc(p) == readings[p].soc
<1>1. IsFiniteSet(S)
  BY RackSocAssumption, FS_Subset DEF WithSoc
<1>2. Mean(readings) = <<MapThenSumSet(soc, S), Cardinality(S)>>
  BY DEF Mean, SumOver
<1>3. OnSet(soc, S) = SocsOf(readings, S)
  BY DEF OnSet, SocsOf
<1> HIDE DEF S, soc
<1>4. MapThenSumSet(soc, S) = SumAt(OnSet(soc, S), S)
  BY <1>1, SumIsOfFunction
<1>5. Mean(readings) = <<SumAt(SocsOf(readings, S), S), Cardinality(S)>>
  BY <1>2, <1>3, <1>4
<1> QED BY <1>5 DEF S

\* The numbers in what is reported.
LEMMA ReportedNumbers ==
    ASSUME NEW readings \in Snapshots
    PROVE  /\ WithSoc(readings) \subseteq Packs /\ IsFiniteSet(WithSoc(readings))
           /\ \A p \in WithSoc(readings) :
                /\ readings[p] \in Report4 /\ readings[p].soc \in Nat
                /\ HasCapacity(readings[p]) =>
                     /\ readings[p].remaining \in Nat /\ FullOf(readings[p]) \in Nat \ {0}
<1>1. IsFiniteSet(WithSoc(readings)) /\ WithSoc(readings) \subseteq Packs
  BY RackSocAssumption, FS_Subset DEF WithSoc
<1>2. ASSUME NEW p \in WithSoc(readings)
      PROVE  readings[p] \in Report4 /\ readings[p].soc \in Nat
  <2>1. readings[p] \in Report4
    BY <1>1 DEF WithSoc, Snapshots
  <2> QED BY <2>1 DEF WithSoc, Report4, Amount
<1>3. ASSUME NEW p \in WithSoc(readings), HasCapacity(readings[p])
      PROVE  readings[p].remaining \in Nat /\ FullOf(readings[p]) \in Nat \ {0}
  <2>1. readings[p] \in Report4
    BY <1>2
  <2> DEFINE r == readings[p]
  <2>2. r.remaining \in Amount /\ r.full \in Amount /\ r.rated \in Amount
    BY <2>1 DEF Report4
  <2>3. r.remaining # None /\ FullOf(r) # None /\ FullOf(r) > 0
    BY <1>3 DEF HasCapacity, NotNegative, Positive
  <2>4. FullOf(r) \in Amount
    BY <2>2 DEF FullOf
  <2> HIDE DEF r
  <2>5. r.remaining \in Nat /\ FullOf(r) \in Nat \ {0}
    BY <2>2, <2>3, <2>4 DEF Amount
  <2> QED BY <2>5 DEF r
<1> QED BY <1>1, <1>2, <1>3

\* The figure is a fraction.
LEMMA LiveFraction ==
    ASSUME NEW readings \in Snapshots, WithSoc(readings) # {}
    PROVE  /\ Weighable(readings) =>
                /\ Weighing(readings) = WithSoc(readings)
                /\ RackStateOfCharge(readings) = Capacity(readings)
           /\ ~Weighable(readings) => RackStateOfCharge(readings) = Mean(readings)
           /\ RackStateOfCharge(readings)[1] \in Int
           /\ RackStateOfCharge(readings)[2] \in Nat \ {0}
<1> DEFINE S == WithSoc(readings)
<1>1. CASE Weighable(readings)
  <2>1. Weighing(readings) = S
    BY <1>1 DEF Weighable, Weighing
  <2>2. RackStateOfCharge(readings) = Capacity(readings)
    BY <1>1 DEF RackStateOfCharge
  <2>3. Capacity(readings) = <<100 * SumAt(RemainingOf(readings, S), S), SumAt(FullsOf(readings, S), S)>>
    BY <2>1, CapacityIs
  <2>4. \A p \in S : RemainingOf(readings, S)[p] \in Nat /\ FullsOf(readings, S)[p] \in Nat \ {0}
    BY <1>1, ReportedNumbers DEF RemainingOf, FullsOf, Weighable
  <2>5. SumAt(RemainingOf(readings, S), S) \in Nat
    BY <2>4, ReportedNumbers, SumAtNat
  <2>6. SumAt(FullsOf(readings, S), S) \in Nat \ {0}
    BY <2>4, ReportedNumbers, SumPositive
  <2>7. PICK a \in Nat : a = SumAt(RemainingOf(readings, S), S)
    BY <2>5
  <2>8. 100 * a \in Int
    OBVIOUS
  <2> HIDE DEF S
  <2>9. RackStateOfCharge(readings)[1] \in Int /\ RackStateOfCharge(readings)[2] \in Nat \ {0}
    BY <2>2, <2>3, <2>6, <2>7, <2>8
  <2> QED BY <1>1, <2>1, <2>2, <2>9 DEF S
<1>2. CASE ~Weighable(readings)
  <2>1. RackStateOfCharge(readings) = Mean(readings)
    BY <1>2 DEF RackStateOfCharge
  <2>2. Mean(readings) = <<SumAt(SocsOf(readings, S), S), Cardinality(S)>>
    BY MeanIs
  <2>3. \A p \in S : SocsOf(readings, S)[p] \in Nat
    BY ReportedNumbers DEF SocsOf
  <2>4. SumAt(SocsOf(readings, S), S) \in Nat
    BY <2>3, ReportedNumbers, SumAtNat
  <2>5. Cardinality(S) \in Nat \ {0}
    BY ReportedNumbers, FS_CardinalityType, FS_EmptySet
  <2> HIDE DEF S
  <2> QED BY <1>2, <2>1, <2>2, <2>4, <2>5
<1> QED BY <1>1, <1>2

\* A pack's state of charge is what it holds of what it can hold.
Agrees(r) == r.soc # None /\ HasCapacity(r) => r.soc * FullOf(r) = 100 * r.remaining

LEMMA LiveBetween ==
    ASSUME NEW readings \in Snapshots, WithSoc(readings) # {},
           \A p \in WithSoc(readings) : Agrees(readings[p])
    PROVE  /\ \E p \in WithSoc(readings) : AtMost(<<readings[p].soc, 1>>, RackStateOfCharge(readings))
           /\ \E p \in WithSoc(readings) : AtMost(RackStateOfCharge(readings), <<readings[p].soc, 1>>)
<1> DEFINE S == WithSoc(readings)
           soc == SocsOf(readings, S)
           soc100(p) == readings[p].soc
<1>1. IsFiniteSet(S) /\ \A p \in S : soc[p] = readings[p].soc /\ soc[p] \in Nat
  BY ReportedNumbers DEF SocsOf
<1>2. PICK x \in S, y \in S : \A z \in S : soc[x] <= soc[z] /\ soc[z] <= soc[y]
  <2> HIDE DEF S, soc
  <2>1. S # {}
    BY DEF S
  <2> QED BY <1>1, <2>1, LeastAndGreatest
<1>3. PICK lo \in Nat, hi \in Nat : lo = readings[x].soc /\ hi = readings[y].soc
  BY <1>1
<1> SUFFICES AtMost(<<lo, 1>>, RackStateOfCharge(readings)) /\ AtMost(RackStateOfCharge(readings), <<hi, 1>>)
  BY <1>3
<1>4. \A p \in S : lo <= soc[p] /\ soc[p] <= hi
  BY <1>1, <1>2, <1>3
<1>5. CASE Weighable(readings)
  <2> DEFINE r == RemainingOf(readings, S)
             w == FullsOf(readings, S)
             t == [p \in S |-> 100 * r[p]]
  <2>1. RackStateOfCharge(readings) = <<100 * SumAt(r, S), SumAt(w, S)>>
    BY <1>5, LiveFraction, CapacityIs
  <2>2. \A p \in S : /\ r[p] = readings[p].remaining /\ w[p] = FullOf(readings[p])
                     /\ r[p] \in Nat /\ w[p] \in Nat /\ soc[p] * w[p] = 100 * r[p]
    BY <1>1, <1>5, ReportedNumbers DEF RemainingOf, FullsOf, Weighable, Agrees, WithSoc
  <2>3. \A p \in S : t[p] = 100 * r[p]
    OBVIOUS
  <2> HIDE DEF S, soc, r, w, t
  <2>4. Bounded(t, w, S, lo, hi)
    <3> SUFFICES ASSUME NEW p \in S
                 PROVE  t[p] \in Int /\ w[p] \in Int /\ lo * w[p] <= t[p] /\ t[p] <= hi * w[p]
      BY DEF Bounded
    <3>1. PICK a \in Nat, b \in Nat, c \in Nat : a = soc[p] /\ b = w[p] /\ c = r[p]
      BY <1>1, <2>2
    <3>2. lo <= a /\ a <= hi /\ a * b = 100 * c /\ t[p] = 100 * c
      BY <1>4, <2>2, <2>3, <3>1
    <3>3. lo * b <= a * b /\ a * b <= hi * b
      <4>1. \A i, j, k \in Nat : i <= j => i * k <= j * k
        OBVIOUS
      <4> QED BY <3>2, <4>1
    <3> QED BY <3>1, <3>2, <3>3
  <2>5. lo * SumAt(w, S) <= SumAt(t, S) /\ SumAt(t, S) <= hi * SumAt(w, S)
        /\ SumAt(w, S) \in Int /\ SumAt(t, S) \in Int
    BY <1>1, <2>4, SumsBounded
  <2>6. SumAt(t, S) = 100 * SumAt(r, S)
    BY <1>1, <2>2, <2>3, SumAtTimes
  <2>7. RackStateOfCharge(readings)[1] = SumAt(t, S) /\ RackStateOfCharge(readings)[2] = SumAt(w, S)
    BY <2>1, <2>6
  <2> QED BY <2>5, <2>7 DEF AtMost
<1>6. CASE ~Weighable(readings)
  <2> DEFINE one == [p \in S |-> 1]
  <2>1. RackStateOfCharge(readings) = <<SumAt(soc, S), Cardinality(S)>>
    BY <1>6, LiveFraction, MeanIs
  <2>2. \A p \in S : one[p] = 1
    OBVIOUS
  <2> HIDE DEF S, soc, one
  <2>3. Bounded(soc, one, S, lo, hi)
    <3>1. lo * 1 = lo /\ hi * 1 = hi
      OBVIOUS
    <3> QED BY <1>1, <1>4, <2>2, <3>1 DEF Bounded
  <2>4. lo * SumAt(one, S) <= SumAt(soc, S) /\ SumAt(soc, S) <= hi * SumAt(one, S)
        /\ SumAt(one, S) \in Int /\ SumAt(soc, S) \in Int
    BY <1>1, <2>3, SumsBounded
  <2>5. SumAt(one, S) = 1 * Cardinality(S)
    BY <1>1, <2>2, SumAtConstant
  <2>6. Cardinality(S) \in Nat
    BY <1>1, FS_CardinalityType
  <2>7. SumAt(one, S) = Cardinality(S)
    BY <2>5, <2>6
  <2> QED BY <2>1, <2>4, <2>7 DEF AtMost
<1> QED BY <1>5, <1>6

\* The same packs weigh alike when one of them says it is full.
Filled(readings, p) ==
    [readings EXCEPT ![p].soc = 100,
                     ![p].remaining = IF @ = None THEN None ELSE FullOf(readings[p])]

LEMMA FilledIs ==
    ASSUME NEW readings \in Snapshots, NEW p \in WithSoc(readings)
    PROVE  LET filled == Filled(readings, p)
           IN /\ filled \in Snapshots /\ WithSoc(filled) = WithSoc(readings)
              /\ Weighable(filled) <=> Weighable(readings)
              /\ filled[p].soc = 100
              /\ HasCapacity(readings[p]) => filled[p].remaining = FullOf(readings[p])
              /\ FullOf(filled[p]) = FullOf(readings[p])
              /\ \A q \in Packs : q # p => filled[q] = readings[q]
<1> DEFINE r == readings[p]
           s == [r EXCEPT !.soc = 100, !.remaining = IF @ = None THEN None ELSE FullOf(r)]
           filled == Filled(readings, p)
<1>1. r \in Report4 /\ p \in Packs
  BY ReportedNumbers
<1>2. readings \in [Packs -> Report4 \cup {None}]
  BY DEF Snapshots
<1>3. filled = [readings EXCEPT ![p] = s]
  BY <1>1, <1>2 DEF Filled, Report4
<1>4. r.soc \in Amount /\ r.remaining \in Amount /\ r.full \in Amount /\ r.rated \in Amount
  BY <1>1 DEF Report4
<1>5. FullOf(r) \in Amount
  BY <1>4 DEF FullOf
<1>6. /\ s \in Report4 /\ s.soc = 100 /\ s.full = r.full /\ s.rated = r.rated
      /\ s.remaining = IF r.remaining = None THEN None ELSE FullOf(r)
  <2> HIDE DEF r
  <2> DEFINE x == IF r.remaining = None THEN None ELSE FullOf(r)
             u == [r EXCEPT !.soc = 100]
  <2>1. 100 \in Amount /\ x \in Amount
    BY <1>5 DEF Amount
  <2>2. /\ u \in Report4 /\ u.soc = 100 /\ u.full = r.full /\ u.rated = r.rated
        /\ u.remaining = r.remaining
    BY <1>1, <2>1 DEF Report4
  <2>3. s = [u EXCEPT !.remaining = x]
    BY <2>2
  <2> HIDE DEF u, x, s
  <2>4. /\ s \in Report4 /\ s.soc = u.soc /\ s.full = u.full /\ s.rated = u.rated
        /\ s.remaining = x
    BY <2>1, <2>2, <2>3 DEF Report4
  <2> QED BY <2>2, <2>4 DEF x
<1>7. HasCapacity(s) <=> HasCapacity(r)
  <2>1. None \notin Int
    BY RackSocAssumption
  <2>2. CASE r.remaining = None
    BY <1>6, <2>2 DEF HasCapacity, NotNegative
  <2>3. CASE r.remaining # None
    <3>1. s.remaining = FullOf(r) /\ FullOf(s) = FullOf(r) /\ r.remaining \in Nat
      BY <1>4, <1>6, <2>3 DEF Amount, FullOf
    <3>2. Positive(FullOf(r)) => NotNegative(FullOf(r))
      BY <1>5 DEF Positive, NotNegative, Amount
    <3> QED BY <1>5, <2>3, <3>1, <3>2 DEF HasCapacity, NotNegative
  <2> QED BY <2>2, <2>3
<1> HIDE DEF s, r
<1>8. filled \in Snapshots
  BY <1>1, <1>2, <1>3, <1>6 DEF Snapshots
<1>9. filled[p] = s /\ \A q \in Packs : q # p => filled[q] = readings[q]
  BY <1>1, <1>2, <1>3
<1> HIDE DEF filled
<1>10. s # None /\ s.soc = 100 /\ 100 # None
  BY <1>6, RackSocAssumption DEF Report4, Amount
<1>11. p \in WithSoc(filled) /\ WithSoc(filled) = WithSoc(readings)
  BY <1>1, <1>9, <1>10 DEF WithSoc
<1>12. \A q \in Packs : HasCapacity(filled[q]) <=> HasCapacity(readings[q])
  BY <1>7, <1>9 DEF r
<1>13. Weighable(filled) <=> Weighable(readings)
  BY <1>11, <1>12 DEF Weighable, WithSoc
<1>14. filled[p].soc = 100 /\ FullOf(filled[p]) = FullOf(readings[p])
  BY <1>6, <1>9, <1>10 DEF r, FullOf
<1>15. HasCapacity(readings[p]) => filled[p].remaining = FullOf(readings[p])
  BY <1>6, <1>9 DEF r, HasCapacity, NotNegative
<1> QED BY <1>8, <1>9, <1>11, <1>13, <1>14, <1>15 DEF filled

LEMMA PackMoves ==
    ASSUME NEW readings \in Snapshots, NEW p \in WithSoc(readings), readings[p].soc < 100,
           Agrees(readings[p])
    PROVE  ~AtMost(RackStateOfCharge(Filled(readings, p)), RackStateOfCharge(readings))
<1> DEFINE filled == Filled(readings, p)
           S == WithSoc(readings)
<1>1. /\ filled \in Snapshots /\ WithSoc(filled) = S
      /\ Weighable(filled) <=> Weighable(readings)
      /\ filled[p].soc = 100
      /\ HasCapacity(readings[p]) => filled[p].remaining = FullOf(readings[p])
      /\ FullOf(filled[p]) = FullOf(readings[p])
      /\ \A q \in Packs : q # p => filled[q] = readings[q]
  BY FilledIs
<1>2. S # {} /\ IsFiniteSet(S) /\ S \subseteq Packs /\ p \in S
  BY ReportedNumbers
<1> HIDE DEF filled
<1> SUFFICES RackStateOfCharge(filled)[1] * RackStateOfCharge(readings)[2]
               > RackStateOfCharge(readings)[1] * RackStateOfCharge(filled)[2]
  <2>1. /\ RackStateOfCharge(filled)[1] \in Int /\ RackStateOfCharge(filled)[2] \in Nat \ {0}
        /\ RackStateOfCharge(readings)[1] \in Int /\ RackStateOfCharge(readings)[2] \in Nat \ {0}
    BY <1>1, <1>2, LiveFraction
  <2>2. \A a, b, c, d \in Int : a * d > c * b => ~(a * d <= c * b)
    <3>1. \A a, b \in Int : a * b \in Int
      OBVIOUS
    <3> QED BY <3>1
  <2> QED BY <2>1, <2>2 DEF AtMost, filled
<1>3. \A a, b \in Int, d \in Nat \ {0} : a < b => b * d > a * d
  OBVIOUS
<1>4. CASE Weighable(readings)
  <2> DEFINE r == RemainingOf(readings, S)
             n == RemainingOf(filled, S)
             w == FullsOf(readings, S)
             m == FullsOf(filled, S)
  <2>1. RackStateOfCharge(readings) = <<100 * SumAt(r, S), SumAt(w, S)>>
    BY <1>2, <1>4, LiveFraction, CapacityIs
  <2>2. RackStateOfCharge(filled) = <<100 * SumAt(n, S), SumAt(m, S)>>
    <3>1. Weighing(filled) = S /\ RackStateOfCharge(filled) = Capacity(filled)
      BY <1>1, <1>2, <1>4, LiveFraction
    <3> QED BY <3>1, CapacityIs
  <2>3. \A q \in S : /\ r[q] = readings[q].remaining /\ w[q] = FullOf(readings[q])
                     /\ n[q] = filled[q].remaining /\ m[q] = FullOf(filled[q])
                     /\ r[q] \in Nat /\ w[q] \in Nat \ {0}
    BY <1>4, ReportedNumbers DEF RemainingOf, FullsOf, Weighable
  <2> HIDE DEF r, n, w, m
  <2>4. \A q \in S : m[q] = w[q] /\ (q # p => n[q] = r[q])
    BY <1>1, <1>2, <2>3
  <2>5. n[p] = w[p] /\ readings[p].soc * w[p] = 100 * r[p]
    <3>1. HasCapacity(readings[p]) /\ readings[p].soc # None
      BY <1>4, ReportedNumbers DEF Weighable, WithSoc
    <3> QED BY <1>1, <1>2, <2>3, <3>1 DEF Agrees
  <2>6. r[p] < n[p] /\ n[p] \in Nat
    <3>1. PICK a \in Nat, b \in Nat \ {0}, c \in Nat : a = readings[p].soc /\ b = w[p] /\ c = r[p]
      BY <1>2, <2>3, ReportedNumbers
    <3>2. a <= 99 /\ a * b = 100 * c
      BY <2>5, <3>1
    <3>3. a * b <= 99 * b
      <4>1. \A i, j, k \in Nat : i <= j => i * k <= j * k
        OBVIOUS
      <4> QED BY <3>2, <4>1
    <3>4. c < b
      BY <3>2, <3>3
    <3> QED BY <2>5, <3>1, <3>4
  <2>7. \A q \in S : r[q] \in Int /\ n[q] \in Int /\ r[q] <= n[q]
    BY <2>3, <2>4, <2>6
  <2>8. SumAt(r, S) < SumAt(n, S)
    BY <1>2, <2>6, <2>7, SumAtStrict
  <2>9. SumAt(r, S) \in Int /\ SumAt(n, S) \in Int
    BY <1>2, <2>7, SumAtOne
  <2>10. SumAt(m, S) = SumAt(w, S)
    BY <1>2, <2>4, SumsAgree
  <2>11. SumAt(w, S) \in Nat \ {0}
    BY <1>2, <2>3, SumPositive
  <2>12. PICK a \in Int, b \in Int, d \in Nat \ {0} : a = SumAt(r, S) /\ b = SumAt(n, S) /\ d = SumAt(w, S)
    BY <2>9, <2>11
  <2>13. 100 * a < 100 * b /\ 100 * a \in Int /\ 100 * b \in Int
    BY <2>8, <2>12
  <2>14. (100 * b) * d > (100 * a) * d
    BY <1>3, <2>13
  <2> QED BY <2>1, <2>2, <2>10, <2>12, <2>14
<1>5. CASE ~Weighable(readings)
  <2> DEFINE r == SocsOf(readings, S)
             n == SocsOf(filled, S)
  <2>1. RackStateOfCharge(readings) = <<SumAt(r, S), Cardinality(S)>>
    BY <1>2, <1>5, LiveFraction, MeanIs
  <2>2. RackStateOfCharge(filled) = <<SumAt(n, S), Cardinality(S)>>
    BY <1>1, <1>2, <1>5, LiveFraction, MeanIs
  <2>3. \A q \in S : r[q] = readings[q].soc /\ n[q] = filled[q].soc /\ r[q] \in Nat
    BY ReportedNumbers DEF SocsOf
  <2> HIDE DEF r, n
  <2>4. r[p] < n[p] /\ \A q \in S : r[q] \in Int /\ n[q] \in Int /\ r[q] <= n[q]
    BY <1>1, <1>2, <2>3
  <2>5. SumAt(r, S) < SumAt(n, S)
    BY <1>2, <2>4, SumAtStrict
  <2>6. SumAt(r, S) \in Int /\ SumAt(n, S) \in Int
    BY <1>2, <2>4, SumAtOne
  <2>7. Cardinality(S) \in Nat \ {0}
    BY <1>2, FS_CardinalityType, FS_EmptySet
  <2>8. SumAt(n, S) * Cardinality(S) > SumAt(r, S) * Cardinality(S)
    BY <1>3, <2>5, <2>6, <2>7
  <2> QED BY <2>1, <2>2, <2>8
<1> QED BY <1>4, <1>5

\* A pack that reports no state of charge is as good as none.
LEMMA SilentPack ==
    ASSUME NEW readings \in Snapshots, NEW heard,
           WithSoc(heard) = WithSoc(readings), \A p \in WithSoc(readings) : heard[p] = readings[p]
    PROVE  RackStateOfCharge(readings) = RackStateOfCharge(heard)
<1> DEFINE S == WithSoc(readings)
<1>1. WithSoc(heard) = S /\ \A p \in S : heard[p] = readings[p]
  OBVIOUS
<1>2. Weighing(heard) = Weighing(readings) /\ (Weighable(heard) <=> Weighable(readings))
  BY <1>1 DEF Weighing, Weighable
<1>3. Weighing(readings) \subseteq S
  BY DEF Weighing
<1> HIDE DEF S
<1>4. Mean(heard) = Mean(readings)
  <2>1. \A p \in S : SocsOf(heard, S)[p] = SocsOf(readings, S)[p]
    BY <1>1 DEF SocsOf
  <2>2. SumAt(SocsOf(heard, S), S) = SumAt(SocsOf(readings, S), S)
    BY <2>1, ReportedNumbers, SumsAgree DEF S
  <2> QED BY <1>1, <2>2, MeanIs DEF S
<1>5. Capacity(heard) = Capacity(readings)
  <2> DEFINE W == Weighing(readings)
  <2>1. \A p \in W : /\ RemainingOf(heard, W)[p] = RemainingOf(readings, W)[p]
                     /\ FullsOf(heard, W)[p] = FullsOf(readings, W)[p]
    BY <1>1, <1>3 DEF RemainingOf, FullsOf
  <2>2. IsFiniteSet(W)
    BY <1>3, ReportedNumbers, FS_Subset DEF S
  <2> HIDE DEF W
  <2>3. /\ SumAt(RemainingOf(heard, W), W) = SumAt(RemainingOf(readings, W), W)
        /\ SumAt(FullsOf(heard, W), W) = SumAt(FullsOf(readings, W), W)
    BY <2>1, <2>2, SumsAgree
  <2> QED BY <1>2, <2>3, CapacityIs DEF W
<1> QED BY <1>1, <1>2, <1>4, <1>5 DEF RackStateOfCharge, S

LEMMA SilentPacks == ASSUME latest \in Snapshots PROVE SilentPackMovesNothing
<1> DEFINE heard == [p \in Packs |-> IF p \in WithSoc(latest) THEN latest[p] ELSE None]
<1>1. WithSoc(heard) = WithSoc(latest) /\ \A p \in WithSoc(latest) : heard[p] = latest[p]
  BY DEF WithSoc
<1> HIDE DEF heard
<1>2. RackStateOfCharge(latest) = RackStateOfCharge(heard)
  BY <1>1, SilentPack
<1> QED BY <1>2 DEF SilentPackMovesNothing, heard

\* The rows of a pack in the archive, by their place.
LEMMA RowsAre ==
    ASSUME RackInv, NEW p \in Packs
    PROVE  /\ bucket[p] \in Seq(Readings) /\ Len(bucket[p]) \in 0..3 /\ DOMAIN bucket[p] = 1..Len(bucket[p])
           /\ DOMAIN SocRows(p) = {i \in DOMAIN bucket[p] : Valid(bucket[p][i])}
           /\ \A i \in DOMAIN SocRows(p) : SocRows(p)[i] = bucket[p][i]
           /\ DOMAIN CapacityRows(p) = {i \in DOMAIN bucket[p] : Weighed(bucket[p][i])}
           /\ \A i \in DOMAIN CapacityRows(p) : CapacityRows(p)[i] = bucket[p][i]
<1>1. bucket[p] \in Seq(Readings) /\ Len(bucket[p]) <= MaxSamples /\ MaxSamples \in 1..3
  BY RackSocAssumption DEF RackInv
<1>2. Len(bucket[p]) \in 0..3 /\ DOMAIN bucket[p] = 1..Len(bucket[p])
  <2>1. bucket[p] \in Seq(Readings)
    BY <1>1
  <2>2. PICK n \in Nat : n = Len(bucket[p]) /\ DOMAIN bucket[p] = 1..n
    BY <2>1, LenProperties
  <2>3. PICK m \in 1..3 : m = MaxSamples /\ n <= m
    BY <1>1, <2>2
  <2>4. n \in 0..3
    BY <2>3
  <2> QED BY <2>2, <2>4
<1>3. /\ SocRows(p) = [i \in {i \in DOMAIN bucket[p] : Valid(bucket[p][i])} |-> bucket[p][i]]
      /\ CapacityRows(p) = [i \in {i \in DOMAIN bucket[p] : Weighed(bucket[p][i])} |-> bucket[p][i]]
  BY DEF SocRows, CapacityRows, RestrictValues, Restrict
<1> QED BY <1>1, <1>2, <1>3

\* At most three places.
LEMMA FewPlaces ==
    ASSUME NEW n \in 0..3, NEW D \in SUBSET (1..n), D # {}
    PROVE  IsFiniteSet(D) /\ Cardinality(D) \in 1..3
<1>1. IsFiniteSet(1..n) /\ Cardinality(1..n) = n
  <2>1. 1 \in Int /\ n \in Int
    OBVIOUS
  <2>2. IsFiniteSet(1..n) /\ Cardinality(1..n) = IF 1 > n THEN 0 ELSE n - 1 + 1
    BY <2>1, FS_Interval, Zenon
  <2> QED BY <2>2
<1>2. IsFiniteSet(D) /\ Cardinality(D) <= n
  BY <1>1, FS_Subset
<1>3. Cardinality(D) \in Nat /\ Cardinality(D) # 0
  BY <1>2, FS_CardinalityType, FS_EmptySet
<1> QED BY <1>2, <1>3

\* Six times the average of one, two or three numbers is a multiple of their sum.
FieldOf(rows, field) == [i \in DOMAIN rows |-> rows[i][field]]

LEMMA AverageIs ==
    ASSUME NEW rows, NEW field, IsFiniteSet(DOMAIN rows), Cardinality(DOMAIN rows) \in 1..3,
           \A i \in DOMAIN rows : rows[i][field] \in Nat
    PROVE  \E k \in 1..6 : /\ k * Cardinality(DOMAIN rows) = 6
                           /\ k = 6 \div Cardinality(DOMAIN rows)
                           /\ Average(rows, field) = k * SumAt(FieldOf(rows, field), DOMAIN rows)
                           /\ SumAt(FieldOf(rows, field), DOMAIN rows) \in Nat
<1> DEFINE D == DOMAIN rows
           value(i) == rows[i][field]
<1>1. Average(rows, field) = (6 * MapThenSumSet(value, D)) \div Cardinality(D)
  BY DEF Average, SumOver
<1>2. OnSet(value, D) = FieldOf(rows, field)
  BY DEF OnSet, FieldOf
<1>3. \A i \in D : FieldOf(rows, field)[i] \in Nat
  BY DEF FieldOf
<1> HIDE DEF value, D
<1>4. MapThenSumSet(value, D) = SumAt(FieldOf(rows, field), D)
  BY <1>2, SumIsOfFunction DEF D
<1>5. SumAt(FieldOf(rows, field), D) \in Nat
  BY <1>3, SumAtNat DEF D
<1>6. PICK a \in Nat, n \in 1..3 : a = SumAt(FieldOf(rows, field), D) /\ n = Cardinality(D)
  BY <1>5 DEF D
<1>7. \E k \in 1..6 : k * n = 6 /\ k = 6 \div n /\ (6 * a) \div n = k * a
  <2>1. CASE n = 1
    <3>1. 6 * 1 = 6 /\ 6 = 6 \div 1 /\ (6 * a) \div 1 = 6 * a
      OBVIOUS
    <3> QED BY <2>1, <3>1
  <2>2. CASE n = 2
    <3>1. 3 * 2 = 6 /\ 3 = 6 \div 2 /\ (6 * a) \div 2 = 3 * a
      OBVIOUS
    <3> QED BY <2>2, <3>1
  <2>3. CASE n = 3
    <3>1. 2 * 3 = 6 /\ 2 = 6 \div 3 /\ (6 * a) \div 3 = 2 * a
      OBVIOUS
    <3> QED BY <2>3, <3>1
  <2> QED BY <2>1, <2>2, <2>3
<1> QED BY <1>1, <1>4, <1>5, <1>6, <1>7 DEF D

\* A pack's averages lie between bounds of its states of charge.
LEMMA AveragesBetween ==
    ASSUME RackInv, NEW p \in Packs, \A r \in Readings : Agrees(r), NEW lo \in Nat, NEW hi \in Nat,
           \A i \in DOMAIN SocRows(p) : lo <= bucket[p][i].soc /\ bucket[p][i].soc <= hi
    PROVE  /\ DOMAIN SocRows(p) # {} =>
                /\ Average(SocRows(p), "soc") \in Nat
                /\ lo * 6 <= Average(SocRows(p), "soc") /\ Average(SocRows(p), "soc") <= hi * 6
           /\ DOMAIN CapacityRows(p) # {} =>
                /\ Average(CapacityRows(p), "remaining") \in Nat
                /\ Average(CapacityRows(p), "full") \in Nat \ {0}
                /\ lo * Average(CapacityRows(p), "full") <= 100 * Average(CapacityRows(p), "remaining")
                /\ 100 * Average(CapacityRows(p), "remaining") <= hi * Average(CapacityRows(p), "full")
<1>0. \A a, b, c \in Int : a * (b * c) = b * (a * c)
  OBVIOUS
<1>00. \A a, b \in Int, k \in 1..6 : a <= b => k * a <= k * b
  <2>1. \A a, b \in Int : /\ 1 * a = a /\ 2 * a = a + a /\ 3 * a = a + a + a /\ 4 * a = a + a + a + a
                          /\ 5 * a = a + a + a + a + a /\ 6 * a = a + a + a + a + a + a
    OBVIOUS
  <2> QED BY <2>1
<1>1. ASSUME DOMAIN SocRows(p) # {}
      PROVE  /\ Average(SocRows(p), "soc") \in Nat
             /\ lo * 6 <= Average(SocRows(p), "soc") /\ Average(SocRows(p), "soc") <= hi * 6
  <2> DEFINE rows == SocRows(p)
             D == DOMAIN rows
             soc == FieldOf(rows, "soc")
             one == [i \in D |-> 1]
  <2>1. IsFiniteSet(D) /\ Cardinality(D) \in 1..3
    BY <1>1, RowsAre, FewPlaces
  <2>2. \A i \in D : rows[i].soc \in Nat /\ lo <= rows[i].soc /\ rows[i].soc <= hi
    <3> SUFFICES ASSUME NEW i \in D
                 PROVE  rows[i].soc \in Nat /\ lo <= rows[i].soc /\ rows[i].soc <= hi
      OBVIOUS
    <3>1. rows[i] = bucket[p][i] /\ Valid(bucket[p][i])
      BY RowsAre
    <3>2. lo <= bucket[p][i].soc /\ bucket[p][i].soc <= hi
      OBVIOUS
    <3> DEFINE b == bucket[p][i]
    <3>3. b.soc \in 0..100
      BY <3>1 DEF Valid
    <3>4. lo <= b.soc /\ b.soc <= hi /\ rows[i] = b
      BY <3>1, <3>2
    <3> HIDE DEF b, rows
    <3> QED BY <3>3, <3>4
  <2>3. \A i \in D : soc[i] = rows[i].soc /\ one[i] = 1
    BY DEF FieldOf
  <2> HIDE DEF rows
  <2>4. PICK k \in 1..6 : /\ k * Cardinality(D) = 6 /\ Average(rows, "soc") = k * SumAt(soc, D)
                          /\ SumAt(soc, D) \in Nat
    BY <2>1, <2>2, AverageIs
  <2> HIDE DEF D, soc, one
  <2>5. Bounded(soc, one, D, lo, hi)
    <3>1. lo * 1 = lo /\ hi * 1 = hi
      OBVIOUS
    <3> QED BY <2>2, <2>3, <3>1 DEF Bounded
  <2>6. lo * SumAt(one, D) <= SumAt(soc, D) /\ SumAt(soc, D) <= hi * SumAt(one, D)
    BY <2>1, <2>5, SumsBounded
  <2>7. SumAt(one, D) = 1 * Cardinality(D)
    BY <2>1, <2>3, SumAtConstant
  <2>8. PICK s \in Nat, n \in Nat : s = SumAt(soc, D) /\ n = Cardinality(D) /\ n = SumAt(one, D)
    BY <2>1, <2>4, <2>7
  <2>9. lo * n <= s /\ s <= hi * n /\ lo * n \in Int /\ hi * n \in Int
    <3>1. lo * n \in Int /\ hi * n \in Int
      OBVIOUS
    <3> QED BY <2>6, <2>8, <3>1
  <2>10. k * (lo * n) <= k * s /\ k * s <= k * (hi * n)
    BY <1>00, <2>9
  <2>11. k * (lo * n) = lo * (k * n) /\ k * (hi * n) = hi * (k * n)
    BY <1>0
  <2>12. k * n = 6
    BY <2>4, <2>8
  <2>13. k * s \in Nat
    OBVIOUS
  <2>14. Average(rows, "soc") = k * s
    BY <2>4, <2>8
  <2>15. lo * 6 <= Average(rows, "soc") /\ Average(rows, "soc") <= hi * 6
    BY <2>10, <2>11, <2>12, <2>14
  <2> QED BY <2>13, <2>14, <2>15 DEF rows
<1>2. ASSUME DOMAIN CapacityRows(p) # {}
      PROVE  /\ Average(CapacityRows(p), "remaining") \in Nat
             /\ Average(CapacityRows(p), "full") \in Nat \ {0}
             /\ lo * Average(CapacityRows(p), "full") <= 100 * Average(CapacityRows(p), "remaining")
             /\ 100 * Average(CapacityRows(p), "remaining") <= hi * Average(CapacityRows(p), "full")
  <2> DEFINE rows == CapacityRows(p)
             D == DOMAIN rows
             r == FieldOf(rows, "remaining")
             w == FieldOf(rows, "full")
             t == [i \in D |-> 100 * r[i]]
  <2>1. IsFiniteSet(D) /\ Cardinality(D) \in 1..3
    BY <1>2, RowsAre, FewPlaces
  <2>2. \A i \in D : /\ rows[i].soc \in Nat /\ lo <= rows[i].soc /\ rows[i].soc <= hi
                     /\ rows[i].remaining \in Nat /\ rows[i].full \in Nat \ {0}
                     /\ rows[i].soc * rows[i].full = 100 * rows[i].remaining
    <3> SUFFICES ASSUME NEW i \in D
                 PROVE  /\ rows[i].soc \in Nat /\ lo <= rows[i].soc /\ rows[i].soc <= hi
                        /\ rows[i].remaining \in Nat /\ rows[i].full \in Nat \ {0}
                        /\ rows[i].soc * rows[i].full = 100 * rows[i].remaining
      OBVIOUS
    <3>1. rows[i] = bucket[p][i] /\ Weighed(bucket[p][i]) /\ i \in 1..Len(bucket[p])
          /\ bucket[p] \in Seq(Readings)
      BY RowsAre
    <3>2. Valid(bucket[p][i])
      BY <3>1 DEF Weighed
    <3>3. i \in DOMAIN SocRows(p)
      BY <3>1, <3>2, RowsAre
    <3> DEFINE b == bucket[p][i]
    <3>4. b \in Readings /\ b \in Report4
      BY <3>1, ElementOfSeq, RackSocAssumption DEF Report4, Amount
    <3> HIDE DEF b
    <3>5. Weighed(b) /\ rows[i] = b
      BY <3>1 DEF b
    <3> HIDE DEF rows
    <3>6. b.remaining \in Nat /\ b.full \in Nat \ {0} /\ b.soc \in Nat /\ b.soc # None
      BY <3>4, <3>5 DEF Weighed, Valid, NotNegative, Positive, Report4, Amount
    <3>7. FullOf(b) = b.full /\ HasCapacity(b)
      BY <3>5, <3>6 DEF Weighed, FullOf, HasCapacity
    <3>8. b.soc * b.full = 100 * b.remaining
      BY <3>4, <3>6, <3>7 DEF Agrees
    <3>9. lo <= b.soc /\ b.soc <= hi
      BY <3>3 DEF b
    <3> QED BY <3>5, <3>6, <3>8, <3>9
  <2>3. \A i \in D : r[i] = rows[i].remaining /\ w[i] = rows[i].full /\ t[i] = 100 * r[i]
    BY DEF FieldOf
  <2> HIDE DEF rows
  <2>4. PICK k \in 1..6 : /\ k = 6 \div Cardinality(D) /\ Average(rows, "remaining") = k * SumAt(r, D)
                          /\ SumAt(r, D) \in Nat
    BY <2>1, <2>2, AverageIs
  <2>5. PICK l \in 1..6 : /\ l = 6 \div Cardinality(D) /\ Average(rows, "full") = l * SumAt(w, D)
    BY <2>1, <2>2, AverageIs
  <2>16. D # {}
    BY <1>2 DEF rows
  <2> HIDE DEF D, r, w, t
  <2>6. SumAt(w, D) \in Nat \ {0}
    BY <2>1, <2>2, <2>3, <2>16, SumPositive
  <2>7. Bounded(t, w, D, lo, hi)
    <3> SUFFICES ASSUME NEW i \in D
                 PROVE  t[i] \in Int /\ w[i] \in Int /\ lo * w[i] <= t[i] /\ t[i] <= hi * w[i]
      BY DEF Bounded
    <3>1. PICK a \in Nat, b \in Nat, c \in Nat : a = rows[i].soc /\ b = w[i] /\ c = r[i]
      BY <2>2, <2>3
    <3>2. lo <= a /\ a <= hi /\ a * b = 100 * c /\ t[i] = 100 * c
      BY <2>2, <2>3, <3>1
    <3>3. lo * b <= a * b /\ a * b <= hi * b
      <4>1. \A x, y, z \in Nat : x <= y => x * z <= y * z
        OBVIOUS
      <4> QED BY <3>2, <4>1
    <3> QED BY <3>1, <3>2, <3>3
  <2>8. lo * SumAt(w, D) <= SumAt(t, D) /\ SumAt(t, D) <= hi * SumAt(w, D)
    BY <2>1, <2>7, SumsBounded
  <2>9. SumAt(t, D) = 100 * SumAt(r, D)
    BY <2>1, <2>2, <2>3, SumAtTimes
  <2>10. PICK a \in Nat, b \in Nat \ {0} : a = SumAt(r, D) /\ b = SumAt(w, D)
    BY <2>4, <2>6
  <2>11. lo * b <= 100 * a /\ 100 * a <= hi * b /\ lo * b \in Int /\ hi * b \in Int /\ 100 * a \in Int
    <3>1. lo * b \in Int /\ hi * b \in Int /\ 100 * a \in Int
      OBVIOUS
    <3> QED BY <2>8, <2>9, <2>10, <3>1
  <2>12. k * (lo * b) <= k * (100 * a) /\ k * (100 * a) <= k * (hi * b)
    BY <1>00, <2>11
  <2>13. k * (lo * b) = lo * (k * b) /\ k * (hi * b) = hi * (k * b) /\ k * (100 * a) = 100 * (k * a)
    BY <1>0
  <2>14. k * a \in Nat /\ k * b \in Nat \ {0}
    <3>1. 1 * b <= k * b
      <4>1. \A x, y, z \in Nat : x <= y => x * z <= y * z
        OBVIOUS
      <4> QED BY <4>1
    <3>2. k * a \in Nat /\ k * b \in Nat
      OBVIOUS
    <3> QED BY <3>1, <3>2
  <2>15. Average(rows, "remaining") = k * a /\ Average(rows, "full") = k * b
    BY <2>4, <2>5, <2>10
  <2> HIDE DEF D
  <2>17. /\ lo * Average(rows, "full") <= 100 * Average(rows, "remaining")
         /\ 100 * Average(rows, "remaining") <= hi * Average(rows, "full")
    BY <2>12, <2>13, <2>15
  <2> QED BY <2>14, <2>15, <2>17 DEF rows
<1> QED BY <1>1, <1>2

\* What the history adds up: the averages of the packs of a set.
RemainingAverages(S) == [p \in S |-> Average(CapacityRows(p), "remaining")]
FullAverages(S) == [p \in S |-> Average(CapacityRows(p), "full")]
SocAverages(S) == [p \in S |-> Average(SocRows(p), "soc")]

InBucket == {p \in Packs : DOMAIN SocRows(p) # {}}
WeighedInBucket == {p \in InBucket : DOMAIN CapacityRows(p) # {}}

LEMMA BucketSocIs ==
    /\ IsFiniteSet(InBucket)
    /\ InBucket = {} => BucketSoc = None
    /\ InBucket # {} /\ WeighedInBucket = InBucket =>
         BucketSoc = <<100 * SumAt(RemainingAverages(InBucket), InBucket),
                       SumAt(FullAverages(InBucket), InBucket)>>
    /\ InBucket # {} /\ WeighedInBucket # InBucket =>
         BucketSoc = <<SumAt(SocAverages(InBucket), InBucket), 6 * Cardinality(InBucket)>>
<1> DEFINE S == InBucket
           remaining(p) == Average(CapacityRows(p), "remaining")
           full(p) == Average(CapacityRows(p), "full")
           soc(p) == Average(SocRows(p), "soc")
<1>1. IsFiniteSet(S)
  BY RackSocAssumption, FS_Subset DEF InBucket
<1>2. BucketSoc = IF S = {} THEN None
                  ELSE IF WeighedInBucket = S
                    THEN <<100 * MapThenSumSet(remaining, S), MapThenSumSet(full, S)>>
                  ELSE <<MapThenSumSet(soc, S), 6 * Cardinality(S)>>
  BY DEF BucketSoc, SumOver, InBucket, WeighedInBucket
<1>3. /\ OnSet(remaining, S) = RemainingAverages(S) /\ OnSet(full, S) = FullAverages(S)
      /\ OnSet(soc, S) = SocAverages(S)
  BY DEF OnSet, RemainingAverages, FullAverages, SocAverages
<1> HIDE DEF S, remaining, full, soc
<1>4. /\ MapThenSumSet(remaining, S) = SumAt(OnSet(remaining, S), S)
      /\ MapThenSumSet(full, S) = SumAt(OnSet(full, S), S)
      /\ MapThenSumSet(soc, S) = SumAt(OnSet(soc, S), S)
  BY <1>1, SumIsOfFunction
<1>5. BucketSoc = IF S = {} THEN None
                  ELSE IF WeighedInBucket = S
                    THEN <<100 * SumAt(RemainingAverages(S), S), SumAt(FullAverages(S), S)>>
                  ELSE <<SumAt(SocAverages(S), S), 6 * Cardinality(S)>>
  BY <1>2, <1>3, <1>4
<1> QED BY <1>1, <1>5 DEF S

\* The readings of a bucket that say how much they hold have a capacity.
LEMMA FullAverage ==
    ASSUME RackInv, NEW p \in Packs, DOMAIN CapacityRows(p) # {}
    PROVE  Average(CapacityRows(p), "full") \in Nat \ {0}
<1> DEFINE rows == CapacityRows(p)
           D == DOMAIN rows
           w == FieldOf(rows, "full")
<1>1. IsFiniteSet(D) /\ Cardinality(D) \in 1..3
  BY RowsAre, FewPlaces
<1>2. \A i \in D : rows[i].full \in Nat \ {0}
  <2> SUFFICES ASSUME NEW i \in D PROVE rows[i].full \in Nat \ {0}
    OBVIOUS
  <2>1. rows[i] = bucket[p][i] /\ Weighed(bucket[p][i]) /\ i \in 1..Len(bucket[p])
        /\ bucket[p] \in Seq(Readings)
    BY RowsAre
  <2> DEFINE b == bucket[p][i]
  <2>2. b \in Readings /\ b \in Report4
    BY <2>1, ElementOfSeq, RackSocAssumption DEF Report4, Amount
  <2>3. Weighed(b) /\ rows[i] = b
    BY <2>1
  <2> HIDE DEF b, rows
  <2> QED BY <2>2, <2>3 DEF Weighed, Positive, Report4, Amount
<1>3. \A i \in D : w[i] = rows[i].full
  BY DEF FieldOf
<1>4. D # {}
  OBVIOUS
<1> HIDE DEF rows
<1>5. PICK k \in 1..6 : Average(rows, "full") = k * SumAt(w, D)
  BY <1>1, <1>2, AverageIs
<1> HIDE DEF D, w
<1>6. SumAt(w, D) \in Nat \ {0}
  BY <1>1, <1>2, <1>3, <1>4, SumPositive
<1>7. PICK b \in Nat \ {0} : b = SumAt(w, D)
  BY <1>6
<1>8. k * b \in Nat \ {0}
  <2>1. \A x \in Nat \ {0} : /\ 1 * x = x /\ 2 * x = x + x /\ 3 * x = x + x + x
                             /\ 4 * x = x + x + x + x /\ 5 * x = x + x + x + x + x
                             /\ 6 * x = x + x + x + x + x + x
    OBVIOUS
  <2> QED BY <2>1
<1> QED BY <1>5, <1>7, <1>8 DEF rows

LEMMA ArchivedFraction ==
    ASSUME RackInv, InBucket # {}
    PROVE  BucketSoc # None => BucketSoc[2] \in Nat \ {0}
<1> DEFINE S == InBucket
<1>1. IsFiniteSet(S) /\ S \subseteq Packs
  BY BucketSocIs DEF InBucket
<1>2. CASE WeighedInBucket = S
  <2>1. \A p \in S : FullAverages(S)[p] \in Nat \ {0}
    <3>1. \A p \in S : DOMAIN CapacityRows(p) # {}
      BY <1>2 DEF WeighedInBucket
    <3>2. \A p \in S : FullAverages(S)[p] = Average(CapacityRows(p), "full")
      BY DEF FullAverages
    <3> QED BY <1>1, <3>1, <3>2, FullAverage
  <2>2. SumAt(FullAverages(S), S) \in Nat \ {0}
    BY <1>1, <2>1, SumPositive
  <2> QED BY <1>2, <2>2, BucketSocIs
<1>3. CASE WeighedInBucket # S
  <2>1. Cardinality(S) \in Nat \ {0}
    BY <1>1, FS_CardinalityType, FS_EmptySet
  <2>2. BucketSoc[2] = 6 * Cardinality(S)
    BY <1>3, BucketSocIs
  <2> QED BY <2>1, <2>2
<1> QED BY <1>2, <1>3

\* The archived figure lies between bounds of the states of charge in the bucket.
LEMMA ArchivedBetween ==
    ASSUME RackInv, InBucket # {}, \A r \in Readings : Agrees(r), NEW lo \in Nat, NEW hi \in Nat,
           \A p \in Packs : \A i \in DOMAIN SocRows(p) :
               lo <= bucket[p][i].soc /\ bucket[p][i].soc <= hi
    PROVE  /\ lo * BucketSoc[2] <= BucketSoc[1] /\ BucketSoc[1] <= hi * BucketSoc[2]
           /\ BucketSoc[1] \in Int /\ BucketSoc[2] \in Int
<1> DEFINE S == InBucket
<1>1. IsFiniteSet(S) /\ S \subseteq Packs /\ \A p \in S : DOMAIN SocRows(p) # {}
  BY BucketSocIs DEF InBucket
<1>2. CASE WeighedInBucket = S
  <2> DEFINE r == RemainingAverages(S)
             w == FullAverages(S)
             t == [p \in S |-> 100 * r[p]]
  <2>1. BucketSoc = <<100 * SumAt(r, S), SumAt(w, S)>>
    BY <1>2, BucketSocIs
  <2>2. \A p \in S : DOMAIN CapacityRows(p) # {}
    BY <1>2 DEF WeighedInBucket
  <2>3. \A p \in S : /\ r[p] = Average(CapacityRows(p), "remaining")
                     /\ w[p] = Average(CapacityRows(p), "full")
    BY DEF RemainingAverages, FullAverages
  <2>4. \A p \in S : t[p] = 100 * r[p]
    OBVIOUS
  <2> HIDE DEF r, w, t
  <2>5. \A p \in S : /\ r[p] \in Nat /\ w[p] \in Nat /\ lo * w[p] <= 100 * r[p]
                     /\ 100 * r[p] <= hi * w[p]
    BY <1>1, <2>2, <2>3, AveragesBetween
  <2> HIDE DEF S
  <2>6. Bounded(t, w, S, lo, hi)
    <3> SUFFICES ASSUME NEW p \in S
                 PROVE  t[p] \in Int /\ w[p] \in Int /\ lo * w[p] <= t[p] /\ t[p] <= hi * w[p]
      BY DEF Bounded
    <3>1. PICK b \in Nat, c \in Nat : b = w[p] /\ c = r[p]
      BY <2>5
    <3>2. 100 * c \in Int
      OBVIOUS
    <3> QED BY <2>4, <2>5, <3>1, <3>2
  <2>7. lo * SumAt(w, S) <= SumAt(t, S) /\ SumAt(t, S) <= hi * SumAt(w, S)
        /\ SumAt(w, S) \in Int /\ SumAt(t, S) \in Int
    BY <1>1, <2>6, SumsBounded
  <2>8. SumAt(t, S) = 100 * SumAt(r, S)
    BY <1>1, <2>4, <2>5, SumAtTimes
  <2> QED BY <2>1, <2>7, <2>8
<1>3. CASE WeighedInBucket # S
  <2> DEFINE a == SocAverages(S)
             six == [p \in S |-> 6]
  <2>1. BucketSoc = <<SumAt(a, S), 6 * Cardinality(S)>>
    BY <1>3, BucketSocIs
  <2>2. \A p \in S : a[p] = Average(SocRows(p), "soc") /\ six[p] = 6
    BY DEF SocAverages
  <2> HIDE DEF a, six
  <2>3. \A p \in S : a[p] \in Nat /\ lo * 6 <= a[p] /\ a[p] <= hi * 6
    BY <1>1, <2>2, AveragesBetween
  <2> HIDE DEF S
  <2>4. Bounded(a, six, S, lo, hi)
    BY <2>2, <2>3 DEF Bounded
  <2>5. lo * SumAt(six, S) <= SumAt(a, S) /\ SumAt(a, S) <= hi * SumAt(six, S)
        /\ SumAt(six, S) \in Int /\ SumAt(a, S) \in Int
    BY <1>1, <2>4, SumsBounded
  <2>6. SumAt(six, S) = 6 * Cardinality(S)
    BY <1>1, <2>2, SumAtConstant
  <2> QED BY <2>1, <2>5, <2>6
<1> QED BY <1>2, <1>3

LEMMA ArchiveBetween ==
    ASSUME RackInv, \A r \in Readings : Agrees(r)
    PROVE  LET archived == UNION {Range(SocRows(p)) : p \in Packs}
           IN archived # {} =>
                /\ \E r \in archived : AtMost(<<r.soc, 1>>, BucketSoc)
                /\ \E r \in archived : AtMost(BucketSoc, <<r.soc, 1>>)
<1> DEFINE archived == UNION {Range(SocRows(p)) : p \in Packs}
           socs == {r.soc : r \in archived}
           missing == {100 - n : n \in socs}
<1> SUFFICES ASSUME archived # {}
             PROVE  /\ \E r \in archived : AtMost(<<r.soc, 1>>, BucketSoc)
                    /\ \E r \in archived : AtMost(BucketSoc, <<r.soc, 1>>)
  OBVIOUS
<1>1. \A p \in Packs : \A i \in DOMAIN SocRows(p) : /\ SocRows(p)[i] = bucket[p][i]
                                                    /\ Valid(bucket[p][i])
  BY RowsAre
<1>2. \A p \in Packs : \A i \in DOMAIN SocRows(p) : bucket[p][i] \in archived
  BY <1>1 DEF Range
<1>3. \A r \in archived : r.soc \in 0..100
  <2> SUFFICES ASSUME NEW r \in archived PROVE r.soc \in 0..100
    OBVIOUS
  <2>1. PICK p \in Packs : r \in Range(SocRows(p))
    OBVIOUS
  <2>2. PICK i \in DOMAIN SocRows(p) : r = SocRows(p)[i]
    BY <2>1 DEF Range
  <2> QED BY <1>1, <2>2 DEF Valid
<1>4. InBucket # {}
  <2>1. PICK p \in Packs : Range(SocRows(p)) # {}
    OBVIOUS
  <2>2. DOMAIN SocRows(p) # {}
    BY <2>1 DEF Range
  <2> QED BY <2>2 DEF InBucket
<1> HIDE DEF archived
<1>5. socs # {} /\ socs \subseteq 0..100
  BY <1>3
<1>6. PICK lo \in socs : \A n \in socs : lo <= n
  <2> HIDE DEF socs
  <2>1. socs \in SUBSET Nat
    BY <1>5
  <2> QED BY <1>5, <2>1, LeastNatural
<1>7. missing \subseteq Nat /\ missing # {}
  BY <1>5
<1>8. PICK least \in missing : \A n \in missing : least <= n
  <2> HIDE DEF missing
  <2> QED BY <1>7, LeastNatural
<1>9. PICK hi \in socs : \A n \in socs : n <= hi
  <2>1. PICK h \in socs : least = 100 - h
    BY <1>8
  <2>2. \A n \in socs : 100 - h <= 100 - n
    BY <1>8, <2>1
  <2> HIDE DEF socs, missing
  <2>3. \A n \in socs : n \in Int /\ h \in Int
    BY <1>5
  <2> QED BY <2>2, <2>3
<1>10. PICK x \in archived, y \in archived : lo = x.soc /\ hi = y.soc
  BY <1>6, <1>9
<1>11. \A r \in archived : lo <= r.soc /\ r.soc <= hi
  BY <1>6, <1>9
<1> HIDE DEF socs, missing
<1>12. \A p \in Packs : \A i \in DOMAIN SocRows(p) : lo <= bucket[p][i].soc /\ bucket[p][i].soc <= hi
  BY <1>2, <1>11
<1>13. lo \in Nat /\ hi \in Nat
  BY <1>5, <1>6, <1>9
<1>14. /\ lo * BucketSoc[2] <= BucketSoc[1] /\ BucketSoc[1] <= hi * BucketSoc[2]
       /\ BucketSoc[1] \in Int /\ BucketSoc[2] \in Int
  BY <1>4, <1>12, <1>13, ArchivedBetween
<1>15. AtMost(<<lo, 1>>, BucketSoc) /\ AtMost(BucketSoc, <<hi, 1>>)
  BY <1>14 DEF AtMost
<1> QED BY <1>10, <1>15

LEMMA RackTyped == RackInv => RackTypeOK
<1> SUFFICES ASSUME RackInv PROVE RackTypeOK
  OBVIOUS
<1>1. latest \in Snapshots
  BY RackSocAssumption DEF RackInv, Snapshots, Report4, Amount
<1>2. \A p \in Packs : Len(bucket[p]) <= MaxSamples /\ Range(bucket[p]) \subseteq Readings
  <2> SUFFICES ASSUME NEW p \in Packs PROVE Range(bucket[p]) \subseteq Readings
    BY DEF RackInv
  <2>1. bucket[p] \in Seq(Readings)
    BY DEF RackInv
  <2>2. \A i \in DOMAIN bucket[p] : bucket[p][i] \in Readings
    BY <2>1, ElementOfSeq, LenProperties
  <2> QED BY <2>2 DEF Range
<1>3. RackStateOfCharge(latest) # None => RackStateOfCharge(latest)[2] > 0
  <2>1. RackStateOfCharge(latest) # None => WithSoc(latest) # {}
    BY DEF RackStateOfCharge
  <2> QED BY <1>1, <2>1, LiveFraction
<1>4. BucketSoc # None => BucketSoc[2] > 0
  BY BucketSocIs, ArchivedFraction
<1>5. latest \in [Packs -> Readings \union {None}]
  BY DEF RackInv
<1> QED BY <1>2, <1>3, <1>4, <1>5 DEF RackTypeOK

LEMMA RackIs ==
    ASSUME RackInv, \A r \in Readings : Agrees(r)
    PROVE  RackIsItsPacks
<1>1. latest \in Snapshots
  BY RackSocAssumption DEF RackInv, Snapshots, Report4, Amount
<1>2. \A p \in WithSoc(latest) : Agrees(latest[p])
  BY DEF WithSoc, RackInv
<1>3. NoFullerThanItsPacks
  BY <1>1, <1>2, LiveBetween, ArchiveBetween DEF NoFullerThanItsPacks
<1>4. EveryPackMovesTheRack
  BY <1>1, <1>2, PackMoves DEF EveryPackMovesTheRack, Filled
<1> QED BY <1>1, <1>3, <1>4, SilentPacks DEF RackIsItsPacks

-----------------------------------------------------------------------------
(* The bars of the Hour and the Date view (IntervalViews).                 *)

\* What a history says was used between two slots, and what the counter reads at
\* the end of a slot of it.
Slots(f, from, to) == {s \in DOMAIN f : from <= s /\ s < to}
UsedOf(f, from, to) == SumAt(f, Slots(f, from, to))
CounterOf(f, mid, s) ==
    IF mid <= s THEN UsedOf(f, mid, s + 1) ELSE StartsAt + UsedOf(f, 0, s + 1)

Histories(n) == [0..(n - 1) -> {0, 1}]

ViewsInv ==
    /\ now \in Nat /\ now <= Horizon /\ midnight \in ResetSlots
    /\ used \in Histories(now)
    /\ meter = CounterOf(used, midnight, now - 1)
    /\ DOMAIN reads \subseteq 0..(now - 1)
    /\ \A s \in DOMAIN reads : reads[s] \in {None, CounterOf(used, midnight, s)}

LEMMA IntervalFinite == ASSUME NEW a \in Int, NEW b \in Int PROVE IsFiniteSet(a..b)
BY FS_Interval

\* The slots of a history between two others are finitely many, each with a number.
LEMMA SlotsAre ==
    ASSUME NEW n \in Nat, NEW f \in Histories(n), NEW a \in Int, NEW c \in Int
    PROVE  /\ IsFiniteSet(Slots(f, a, c)) /\ Slots(f, a, c) \subseteq 0..(n - 1)
           /\ \A s \in Slots(f, a, c) : f[s] \in Nat /\ f[s] \in Int /\ f[s] <= 1
           /\ UsedOf(f, a, c) \in Nat
<1>1. DOMAIN f = 0..(n - 1) /\ \A s \in 0..(n - 1) : f[s] \in {0, 1}
  BY DEF Histories
<1>2. IsFiniteSet(0..(n - 1))
  BY IntervalFinite
<1>3. IsFiniteSet(Slots(f, a, c)) /\ Slots(f, a, c) \subseteq 0..(n - 1)
  BY <1>1, <1>2, FS_Subset DEF Slots
<1>4. \A s \in Slots(f, a, c) : f[s] \in Nat /\ f[s] \in Int /\ f[s] <= 1
  BY <1>1, <1>3
<1> QED BY <1>3, <1>4, SumAtNat DEF UsedOf

\* What was used in two stretches, one after the other.
LEMMA UsedSplits ==
    ASSUME NEW n \in Nat, NEW f \in Histories(n),
           NEW a \in Int, NEW b \in Int, NEW c \in Int, a <= b, b <= c
    PROVE  UsedOf(f, a, c) = UsedOf(f, a, b) + UsedOf(f, b, c)
<1>0. DOMAIN f \subseteq Int
  BY DEF Histories
<1>1. /\ Slots(f, a, c) = Slots(f, a, b) \cup Slots(f, b, c)
      /\ Slots(f, a, b) \cap Slots(f, b, c) = {}
  BY <1>0 DEF Slots
<1>2. \A s \in Slots(f, a, b) \cup Slots(f, b, c) : f[s] \in Int
  BY SlotsAre
<1> QED BY <1>1, <1>2, SlotsAre, SumAtUnion DEF UsedOf

LEMMA UsedNothing ==
    ASSUME NEW n \in Nat, NEW f \in Histories(n), NEW a \in Int
    PROVE  UsedOf(f, a, a) = 0
<1>1. Slots(f, a, a) = {}
  BY DEF Slots, Histories
<1> QED BY <1>1, SumAtEmpty DEF UsedOf

\* A longer stretch used more, and no stretch more than it has slots.
LEMMA UsedWithin ==
    ASSUME NEW n \in Nat, NEW f \in Histories(n), NEW a \in Int, NEW b \in Int,
           NEW c \in Int, NEW d \in Int, a <= b, b <= c, c <= d
    PROVE  UsedOf(f, b, c) <= UsedOf(f, a, d)
<1>1. UsedOf(f, a, d) = UsedOf(f, a, b) + UsedOf(f, b, d)
  BY UsedSplits
<1>2. UsedOf(f, b, d) = UsedOf(f, b, c) + UsedOf(f, c, d)
  BY UsedSplits
<1>3. UsedOf(f, a, b) \in Nat /\ UsedOf(f, c, d) \in Nat /\ UsedOf(f, b, c) \in Nat
  BY SlotsAre
<1> QED BY <1>1, <1>2, <1>3

LEMMA UsedAtMost ==
    ASSUME NEW n \in Nat, NEW f \in Histories(n), NEW a \in Int, NEW c \in Int, a <= c
    PROVE  UsedOf(f, a, c) <= c - a
<1> DEFINE S == Slots(f, a, c)
           one == [s \in S |-> 1]
<1>1. \A s \in S : one[s] = 1 /\ one[s] \in Int
  OBVIOUS
<1>2. IsFiniteSet(S) /\ \A s \in S : f[s] \in Int /\ f[s] <= 1
  BY SlotsAre
<1>3. S \subseteq a..(c - 1)
  BY DEF Slots, Histories
<1> HIDE DEF S, one
<1>4. SumAt(f, S) <= SumAt(one, S)
  BY <1>1, <1>2, SumAtMonotone
<1>5. SumAt(one, S) = 1 * Cardinality(S)
  BY <1>1, <1>2, SumAtConstant
<1>6. Cardinality(S) <= c - a
  <2>1. a \in Int /\ c - 1 \in Int
    OBVIOUS
  <2>2. IsFiniteSet(a..(c - 1)) /\ Cardinality(a..(c - 1)) = IF a > c - 1 THEN 0 ELSE (c - 1) - a + 1
    BY <2>1, FS_Interval, Zenon
  <2>3. Cardinality(S) <= Cardinality(a..(c - 1))
    BY <1>3, <2>2, FS_Subset
  <2> QED BY <2>2, <2>3
<1>7. Cardinality(S) \in Nat /\ UsedOf(f, a, c) = SumAt(f, S) /\ UsedOf(f, a, c) \in Nat
  BY <1>2, FS_CardinalityType, SlotsAre DEF UsedOf, S
<1> QED BY <1>4, <1>5, <1>6, <1>7

\* One slot more.
LEMMA UsedExtends ==
    ASSUME NEW n \in Nat, NEW f \in Histories(n), NEW e \in {0, 1}
    PROVE  LET g == Extend(f, n, e)
           IN /\ g \in Histories(n + 1)
              /\ \A a, c \in Int : c <= n => UsedOf(g, a, c) = UsedOf(f, a, c)
              /\ \A a \in Int : a <= n => UsedOf(g, a, n + 1) = UsedOf(f, a, n) + e
<1> DEFINE g == Extend(f, n, e)
<1>1. DOMAIN f = 0..(n - 1) /\ \A s \in 0..(n - 1) : f[s] \in {0, 1}
  BY DEF Histories
<1>2. DOMAIN g = 0..n /\ g[n] = e /\ \A s \in 0..(n - 1) : g[s] = f[s]
  BY <1>1 DEF Extend
<1>3. g \in Histories(n + 1)
  <2>1. g = [s \in DOMAIN g |-> g[s]]
    BY DEF Extend
  <2>2. \A s \in DOMAIN g : g[s] \in {0, 1}
    BY <1>1, <1>2
  <2>3. DOMAIN g = 0..((n + 1) - 1)
    BY <1>2
  <2> HIDE DEF g
  <2> QED BY <2>1, <2>2, <2>3 DEF Histories
<1> HIDE DEF g
<1>4. ASSUME NEW a \in Int, NEW c \in Int, c <= n PROVE UsedOf(g, a, c) = UsedOf(f, a, c)
  <2>1. Slots(g, a, c) = Slots(f, a, c)
    BY <1>1, <1>2, <1>4 DEF Slots
  <2>2. \A s \in Slots(f, a, c) : g[s] = f[s]
    BY <1>2, SlotsAre
  <2> QED BY <2>1, <2>2, SlotsAre, SumsAgree DEF UsedOf
<1>5. ASSUME NEW a \in Int, a <= n PROVE UsedOf(g, a, n + 1) = UsedOf(f, a, n) + e
  <2>1. Slots(g, a, n + 1) = Slots(f, a, n) \cup {n} /\ n \notin Slots(f, a, n)
    BY <1>1, <1>2, <1>5 DEF Slots
  <2>2. \A s \in Slots(f, a, n) : g[s] = f[s]
    BY <1>2, SlotsAre
  <2>3. SumAt(g, Slots(f, a, n)) = UsedOf(f, a, n)
    BY <2>2, SlotsAre, SumsAgree DEF UsedOf
  <2>4. \A s \in Slots(f, a, n) : g[s] \in Int
    BY <2>2, SlotsAre
  <2>5. SumAt(g, Slots(f, a, n) \cup {n}) = g[n] + SumAt(g, Slots(f, a, n))
    BY <1>2, <2>1, <2>4, SlotsAre, SumAtMore
  <2>6. UsedOf(f, a, n) \in Nat
    BY SlotsAre
  <2>7. UsedOf(g, a, n + 1) = e + UsedOf(f, a, n)
    BY <1>2, <2>1, <2>3, <2>5 DEF UsedOf
  <2> QED BY <2>6, <2>7
<1> QED BY <1>3, <1>4, <1>5 DEF g

LEMMA CounterExtends ==
    ASSUME NEW n \in Nat, NEW f \in Histories(n), NEW e \in {0, 1}, NEW mid \in Nat
    PROVE  /\ \A s \in 0..(n - 1) : CounterOf(Extend(f, n, e), mid, s) = CounterOf(f, mid, s)
           /\ CounterOf(Extend(f, n, e), mid, n) = (IF n = mid THEN 0 ELSE CounterOf(f, mid, n - 1)) + e
<1> DEFINE g == Extend(f, n, e)
<1>1. /\ \A a, c \in Int : c <= n => UsedOf(g, a, c) = UsedOf(f, a, c)
      /\ \A a \in Int : a <= n => UsedOf(g, a, n + 1) = UsedOf(f, a, n) + e
  BY UsedExtends
<1> HIDE DEF g
<1>2. ASSUME NEW s \in 0..(n - 1) PROVE CounterOf(g, mid, s) = CounterOf(f, mid, s)
  BY <1>1 DEF CounterOf
<1>3. CounterOf(g, mid, n) = (IF n = mid THEN 0 ELSE CounterOf(f, mid, n - 1)) + e
  <2>0. (n - 1) + 1 = n /\ StartsAt \in Nat /\ UsedOf(f, 0, n) \in Nat /\ UsedOf(f, mid, n) \in Nat
    BY SlotsAre, IntervalViewsAssumption
  <2>1. CASE mid = n
    BY <1>1, <2>1, UsedNothing DEF CounterOf
  <2>2. CASE mid < n
    <3>1. mid <= n /\ mid <= n - 1 /\ mid # n
      BY <2>2
    <3>2. CounterOf(g, mid, n) = UsedOf(f, mid, n) + e
      BY <1>1, <3>1 DEF CounterOf
    <3> QED BY <2>0, <3>1, <3>2 DEF CounterOf
  <2>3. CASE mid > n
    <3>1. ~(mid <= n) /\ ~(mid <= n - 1) /\ mid # n
      BY <2>3
    <3>2. CounterOf(g, mid, n) = StartsAt + (UsedOf(f, 0, n) + e)
      BY <1>1, <3>1 DEF CounterOf
    <3> QED BY <2>0, <3>1, <3>2 DEF CounterOf
  <2> QED BY <2>1, <2>2, <2>3
<1> QED BY <1>2, <1>3 DEF g

LEMMA ViewsStart == ViewsInit => ViewsInv
<1> SUFFICES ASSUME ViewsInit PROVE ViewsInv
  OBVIOUS
<1>1. now = 0 /\ used = <<>> /\ reads = <<>> /\ midnight \in ResetSlots /\ midnight \in Nat /\ meter = StartsAt
  BY IntervalViewsAssumption DEF ViewsInit
<1>2. DOMAIN <<>> = {} /\ 0..(0 - 1) = {}
  OBVIOUS
<1>3. used \in Histories(0)
  <2>1. <<>> = [s \in 0..(0 - 1) |-> 0]
    BY <1>2
  <2> QED BY <1>1, <2>1 DEF Histories
<1>4. UsedOf(used, 0, 0) = 0
  BY <1>3, UsedNothing
<1>5. CounterOf(used, midnight, 0 - 1) = StartsAt
  <2>1. ~(midnight <= 0 - 1) /\ (0 - 1) + 1 = 0 /\ StartsAt + 0 = StartsAt
    BY <1>1, IntervalViewsAssumption
  <2> QED BY <1>4, <2>1 DEF CounterOf
<1>6. DOMAIN reads = {}
  BY <1>1, <1>2
<1> QED BY <1>1, <1>3, <1>5, <1>6, IntervalViewsAssumption DEF ViewsInv

LEMMA ViewsStep == ASSUME ViewsInv, [ViewsNext]_viewVars PROVE ViewsInv'
<1>0. midnight \in Nat /\ now \in Nat /\ Horizon \in Nat
  BY IntervalViewsAssumption DEF ViewsInv
<1>1. CASE Read
  <2>1. PICK e \in {0, 1} :
          /\ now' = now + 1 /\ meter' = Counts(e) /\ used' = Extend(used, now, e)
          /\ \/ reads' = Extend(reads, now, Counts(e))
             \/ MayMiss /\ reads' = reads
             \/ MayMiss /\ reads' = Extend(reads, now, None)
    BY <1>1 DEF Read
  <2>2. now < Horizon /\ midnight' = midnight
    BY <1>1 DEF Read
  <2>3. used \in Histories(now) /\ meter = CounterOf(used, midnight, now - 1)
    BY DEF ViewsInv
  <2>4. used' \in Histories(now + 1)
    BY <1>0, <2>1, <2>3, UsedExtends
  <2>5. /\ \A s \in 0..(now - 1) : CounterOf(used', midnight, s) = CounterOf(used, midnight, s)
        /\ CounterOf(used', midnight, now) = Counts(e)
    BY <1>0, <2>1, <2>3, CounterExtends DEF Counts
  <2>6. DOMAIN reads' \subseteq 0..now /\ \A s \in DOMAIN reads' : reads'[s] \in {None, CounterOf(used', midnight, s)}
    <3>1. DOMAIN reads \subseteq 0..(now - 1) /\ \A s \in DOMAIN reads : reads[s] \in {None, CounterOf(used, midnight, s)}
      BY DEF ViewsInv
    <3>2. now \notin DOMAIN reads /\ DOMAIN reads \subseteq 0..now /\ now \in 0..now
      BY <1>0, <3>1
    <3>3. ASSUME NEW x \in {None, Counts(e)}, reads' = Extend(reads, now, x)
          PROVE  DOMAIN reads' \subseteq 0..now /\ \A s \in DOMAIN reads' : reads'[s] \in {None, CounterOf(used', midnight, s)}
      <4>1. DOMAIN reads' = DOMAIN reads \cup {now} /\ reads'[now] = x /\ \A s \in DOMAIN reads : reads'[s] = reads[s]
        BY <3>2, <3>3 DEF Extend
      <4> QED BY <2>5, <3>1, <3>2, <4>1
    <3>4. CASE reads' = reads
      BY <2>5, <3>1, <3>2, <3>4
    <3> QED BY <2>1, <3>3, <3>4
  <2>7. (now + 1) - 1 = now /\ now + 1 \in Nat /\ now + 1 <= Horizon
    BY <1>0, <2>2
  <2>8. midnight' \in ResetSlots
    BY <2>2 DEF ViewsInv
  <2> QED BY <2>1, <2>2, <2>4, <2>5, <2>6, <2>7, <2>8 DEF ViewsInv
<1>2. CASE UNCHANGED viewVars
  BY <1>2 DEF viewVars, ViewsInv
<1> QED BY <1>1, <1>2 DEF ViewsNext

\* What a view is, whichever it is.
LEMMA ViewIs ==
    ASSUME ViewsInv, NEW v \in Views
    PROVE  /\ v.start \in Int /\ v.end \in Int /\ v.width \in Nat \ {0}
           /\ v.width <= SeedReach /\ v.width <= PerHour
<1>1. /\ now \in Nat /\ Rolling \in Nat /\ WindowStart \in Nat /\ WindowEnd \in Nat
      /\ PerHour \in Nat \ {0} /\ SeedReach \in Nat /\ SeedReach >= PerHour
  BY IntervalViewsAssumption DEF ViewsInv
<1>2. CASE v = DateView
  BY <1>1, <1>2 DEF DateView
<1>3. CASE v = HourView
  BY <1>1, <1>3 DEF HourView
<1> QED BY <1>2, <1>3 DEF Views

\* The first slots of the buckets of a view.
Grid(v, k) == v.start + k * v.width

LEMMA GridIs ==
    ASSUME NEW v, v.start \in Int, v.width \in Nat \ {0}
    PROVE  /\ \A k \in Int : /\ Grid(v, k) \in Int /\ Grid(v, k + 1) = Grid(v, k) + v.width
                             /\ (Grid(v, k) - v.start) % v.width = 0
           /\ Grid(v, 0) = v.start /\ Grid(v, -1) = v.start - v.width
           /\ \A j, k \in Int : j < k => Grid(v, j) + v.width <= Grid(v, k)
           /\ \A k \in Int : /\ k < 0 => Grid(v, k) + v.width <= v.start
                             /\ k > 0 => v.start + v.width <= Grid(v, k)
           /\ \A s \in Int : \E k \in Int : /\ Bucket(v, s) = Grid(v, k)
                                           /\ Grid(v, k) <= s /\ s < Grid(v, k) + v.width
           /\ \A s \in Int : (s - v.start) % v.width = 0 => \E k \in Int : s = Grid(v, k)
<1>1. PICK a \in Int, w \in Nat \ {0} : a = v.start /\ w = v.width
  OBVIOUS
<1>2. /\ \A k \in Int : k * w \in Int /\ (k + 1) * w = k * w + w /\ (k * w) % w = 0
      /\ \A j, k \in Int : j < k => j * w + w <= k * w
      /\ 0 * w = 0 /\ (-1) * w = -w
  <2>1. \A k \in Int : (k * w) % w = 0
    OBVIOUS
  <2>2. \A k \in Int : k * w \in Int /\ (k + 1) * w = k * w + w
    OBVIOUS
  <2>3. \A j, k \in Int : j < k => j * w + w <= k * w
    OBVIOUS
  <2>4. 0 * w = 0 /\ (-1) * w = -w
    OBVIOUS
  <2> QED BY <2>1, <2>2, <2>3, <2>4
<1>3. \A x \in Int : x \div w \in Int /\ (x \div w) * w <= x /\ x < (x \div w) * w + w
  OBVIOUS
<1>4. ASSUME NEW x \in Int, x % w = 0 PROVE \E k \in Int : x = k * w
  <2>1. x = (x \div w) * w
    BY <1>4
  <2>2. x \div w \in Int
    BY <1>3
  <2> QED BY <2>1, <2>2
<1>g. \A k \in Int : Grid(v, k) = a + k * w
  BY <1>1 DEF Grid
<1>5. ASSUME NEW k \in Int
      PROVE  /\ Grid(v, k) \in Int /\ Grid(v, k + 1) = Grid(v, k) + w
             /\ (Grid(v, k) - a) % w = 0
  <2>1. PICK m \in Int : m = k * w
    BY <1>2
  <2>2. Grid(v, k) = a + m /\ Grid(v, k + 1) = a + (m + w) /\ m % w = 0
    BY <1>2, <1>g, <2>1
  <2>3. (a + m) - a = m
    OBVIOUS
  <2> QED BY <2>2, <2>3
<1>6. Grid(v, 0) = a /\ Grid(v, -1) = a - w
  <2>1. 0 \in Int /\ -1 \in Int /\ a + 0 = a /\ a + (-w) = a - w
    OBVIOUS
  <2> QED BY <1>2, <1>g, <2>1
<1>7. ASSUME NEW j \in Int, NEW k \in Int, j < k PROVE Grid(v, j) + w <= Grid(v, k)
  <2>1. PICK m \in Int, n \in Int : m = j * w /\ n = k * w
    BY <1>2
  <2>2. m + w <= n
    BY <1>2, <1>7, <2>1
  <2>3. (a + m) + w <= a + n
    BY <2>2
  <2> QED BY <1>g, <2>1, <2>3
<1>8. ASSUME NEW s \in Int
      PROVE  \E k \in Int : Bucket(v, s) = Grid(v, k) /\ Grid(v, k) <= s /\ s < Grid(v, k) + w
  <2>1. PICK k \in Int : k = (s - a) \div w /\ k * w <= s - a /\ s - a < k * w + w
    BY <1>3
  <2>2. PICK m \in Int : m = k * w
    BY <1>2
  <2>3. Grid(v, k) = a + m /\ Bucket(v, s) = a + m
    BY <1>1, <1>g, <2>1, <2>2 DEF Bucket
  <2> QED BY <2>1, <2>2, <2>3
<1>9. ASSUME NEW s \in Int, (s - a) % w = 0 PROVE \E k \in Int : s = Grid(v, k)
  <2>1. PICK k \in Int : s - a = k * w
    BY <1>4, <1>9
  <2>2. PICK m \in Int : m = k * w
    BY <1>2
  <2>3. s = a + m
    BY <2>1, <2>2
  <2> QED BY <1>g, <2>2, <2>3
<1>10. ASSUME NEW k \in Int PROVE (k < 0 => Grid(v, k) + w <= a) /\ (k > 0 => a + w <= Grid(v, k))
  <2>1. 0 \in Int
    OBVIOUS
  <2> QED BY <1>6, <1>7, <2>1
<1> QED BY <1>1, <1>5, <1>6, <1>7, <1>8, <1>9, <1>10

\* Two first slots are a bucket apart, or more.
LEMMA GridApart ==
    ASSUME NEW v, v.start \in Int, v.width \in Nat \ {0}, NEW j \in Int, NEW k \in Int
    PROVE  /\ Grid(v, j) \in Int /\ Grid(v, k) \in Int
           /\ j < k => Grid(v, j) + v.width <= Grid(v, k)
           /\ k < j => Grid(v, k) + v.width <= Grid(v, j)
<1>1. /\ \A i \in Int : Grid(v, i) \in Int
      /\ \A h, i \in Int : h < i => Grid(v, h) + v.width <= Grid(v, i)
  BY GridIs
<1> QED BY <1>1

LEMMA GridSide ==
    ASSUME NEW v, v.start \in Int, v.width \in Nat \ {0}, NEW k \in Int
    PROVE  /\ Grid(v, k) \in Int /\ Grid(v, k + 1) = Grid(v, k) + v.width /\ Grid(v, 0) = v.start
           /\ (k < 0 => Grid(v, k) + v.width <= v.start) /\ (k > 0 => v.start + v.width <= Grid(v, k))
BY GridIs

LEMMA GridBefore ==
    ASSUME NEW v, v.start \in Int, v.width \in Nat \ {0}, NEW k \in Int
    PROVE  Grid(v, k - 1) \in Int /\ Grid(v, k) = Grid(v, k - 1) + v.width
<1>1. k - 1 \in Int /\ (k - 1) + 1 = k
  OBVIOUS
<1>2. \A i \in Int : Grid(v, i) \in Int /\ Grid(v, i + 1) = Grid(v, i) + v.width
  BY GridIs
<1> QED BY <1>1, <1>2

LEMMA BucketAt ==
    ASSUME NEW v, v.start \in Int, v.width \in Nat \ {0}, NEW k \in Int, NEW s \in Int,
           Grid(v, k) <= s, s < Grid(v, k) + v.width
    PROVE  Bucket(v, s) = Grid(v, k)
<1>1. PICK j \in Int : Bucket(v, s) = Grid(v, j) /\ Grid(v, j) <= s /\ s < Grid(v, j) + v.width
  BY GridIs
<1>2. /\ Grid(v, j) \in Int /\ Grid(v, k) \in Int
      /\ j < k => Grid(v, j) + v.width <= Grid(v, k)
      /\ k < j => Grid(v, k) + v.width <= Grid(v, j)
  BY GridApart
<1>3. j = k
  BY <1>1, <1>2
<1> QED BY <1>1, <1>3

\* Finitely many numbers have a greatest.
LEMMA GreatestInteger ==
    ASSUME NEW S \in SUBSET Int, IsFiniteSet(S), S # {}
    PROVE  Max(S) \in S /\ \A y \in S : y <= Max(S)
<1> DEFINE Has(T) == \E x \in T : \A y \in T : x >= y
           good == {T \in SUBSET S : T = {} \/ Has(T)}
<1>1. {} \in good
  OBVIOUS
<1>2. ASSUME NEW T \in SUBSET S, NEW z \in S, T \in good, z \notin T PROVE T \cup {z} \in good
  <2>1. CASE T = {}
    <3>1. z >= z
      OBVIOUS
    <3> QED BY <2>1, <3>1
  <2>2. CASE T # {}
    <3>1. PICK x \in T : \A y \in T : x >= y
      BY <1>2, <2>2
    <3>2. x >= z \/ \A y \in T \cup {z} : z >= y
      <4>1. \A y \in T : x \in Int /\ y \in Int /\ z \in Int
        OBVIOUS
      <4> QED BY <3>1, <4>1
    <3>3. Has(T \cup {z})
      BY <3>1, <3>2
    <3> QED BY <3>3
  <2> QED BY <2>1, <2>2
<1> HIDE DEF good
<1>3. Extends(S, good)
  BY <1>2 DEF Extends
<1>4. S \in good
  BY <1>1, <1>3, SubsetInduction
<1>5. \E x \in S : \A y \in S : x >= y
  BY <1>4 DEF good
<1>6. Max(S) \in S /\ \A y \in S : Max(S) >= y
  BY <1>5 DEF Max
<1> QED BY <1>6

LEMMA IntervalsAre ==
    ASSUME NEW v
    PROVE  LET I == Intervals(v)
           IN /\ DOMAIN I = {Bucket(v, s) : s \in Within(v)}
                              \cup (IF Seed(v) = {} THEN {} ELSE {v.start - v.width})
              /\ \A b \in DOMAIN I :
                   I[b] = reads[IF b < v.start THEN Max(Seed(v))
                                ELSE Max({s \in Within(v) : Bucket(v, s) = b})]
BY DEF Intervals

\* What an interval is the last reading of.
Source(v, b, k, x) ==
    /\ b = Grid(v, k) /\ b \in Int /\ x \in DOMAIN reads /\ x \in Nat /\ x < b + v.width
    /\ Intervals(v)[b] = reads[x]
    /\ k >= 0 => /\ v.start <= b /\ b <= x /\ x \in Within(v)
                 /\ \A s \in Within(v) : s < b + v.width => s <= x
    /\ k = -1 => /\ b < v.start /\ Seed(v) # {}
                 /\ \A s \in DOMAIN reads :
                      v.start - SeedReach <= s /\ s < v.start => s <= x

LEMMA ReadSlots ==
    ASSUME ViewsInv, NEW S, S \subseteq DOMAIN reads
    PROVE  IsFiniteSet(S) /\ S \in SUBSET Nat
<1>1. now \in Nat /\ DOMAIN reads \subseteq 0..(now - 1)
  BY DEF ViewsInv
<1>2. IsFiniteSet(0..(now - 1))
  BY <1>1, IntervalFinite
<1> QED BY <1>1, <1>2, FS_Subset

LEMMA SeedIs ==
    ASSUME ViewsInv, NEW v \in Views, Seed(v) # {}
    PROVE  LET x == Max(Seed(v))
           IN /\ x \in DOMAIN reads /\ v.start - SeedReach <= x /\ x < v.start /\ x \in Nat
              /\ \A s \in DOMAIN reads : v.start - SeedReach <= s /\ s < v.start => s <= x
<1> DEFINE before == {s \in DOMAIN reads : v.start - SeedReach <= s /\ s < v.start}
<1>1. before # {} /\ Seed(v) = {Max(before)}
  BY DEF Seed
<1>2. before \subseteq DOMAIN reads
  OBVIOUS
<1> HIDE DEF before
<1>3. Max(before) \in before /\ \A t \in before : t <= Max(before)
  BY <1>1, <1>2, ReadSlots, GreatestOf
<1>4. PICK m \in Nat : m = Max(before)
  BY <1>2, <1>3, ReadSlots
<1>5. Max({m}) \in {m}
  <2>1. IsFiniteSet({m}) /\ {m} \in SUBSET Nat /\ {m} # {}
    BY FS_Singleton
  <2> QED BY <2>1, GreatestOf
<1>6. Max(Seed(v)) = Max(before)
  BY <1>1, <1>4, <1>5
<1> QED BY <1>3, <1>4, <1>6 DEF before

LEMMA SourceOf ==
    ASSUME ViewsInv, NEW v \in Views, NEW b \in DOMAIN Intervals(v)
    PROVE  \E k \in Int, x \in Nat : k >= -1 /\ Source(v, b, k, x)
<1>0. v.start \in Int /\ v.width \in Nat \ {0} /\ v.end \in Int
  BY ViewIs
<1>1. CASE b < v.start
  <2>1. Seed(v) # {} /\ b = v.start - v.width
    <3>1. ASSUME NEW s \in Within(v) PROVE v.start <= Bucket(v, s)
      <4>1. s \in Int /\ v.start <= s
        BY ReadSlots DEF Within
      <4>2. PICK k \in Int : Bucket(v, s) = Grid(v, k) /\ s < Grid(v, k) + v.width
        BY <1>0, <4>1, GridIs, SMTT(30)
      <4>3. k >= 0
        <5>1. k < 0 => Grid(v, k) + v.width <= v.start
          BY <1>0, GridIs
        <5>2. Grid(v, k) \in Int
          BY <1>0, GridIs
        <5> QED BY <1>0, <4>1, <4>2, <5>1, <5>2
      <4>4. k = 0 \/ v.start + v.width <= Grid(v, k)
        <5>1. k = 0 \/ k > 0
          BY <4>3
        <5> QED BY <1>0, <5>1, GridIs
      <4>5. Grid(v, 0) = v.start /\ Grid(v, k) \in Int
        BY <1>0, GridIs
      <4> QED BY <1>0, <4>2, <4>4, <4>5
    <3>2. ASSUME NEW s \in Within(v), b = Bucket(v, s) PROVE FALSE
      <4>1. v.start <= b
        BY <3>1, <3>2
      <4>2. b \in Int
        <5>1. s \in Int
          BY ReadSlots DEF Within
        <5>2. \E k \in Int : Bucket(v, s) = Grid(v, k) /\ Grid(v, k) \in Int
          BY <1>0, <5>1, GridIs, SMTT(30)
        <5> QED BY <3>2, <5>2
      <4> QED BY <1>0, <1>1, <4>1, <4>2
    <3>3. b \in {Bucket(v, s) : s \in Within(v)} \cup (IF Seed(v) = {} THEN {} ELSE {v.start - v.width})
      BY IntervalsAre
    <3>4. b \notin {Bucket(v, s) : s \in Within(v)}
      BY <3>2
    <3>5. b \in IF Seed(v) = {} THEN {} ELSE {v.start - v.width}
      BY <3>3, <3>4
    <3>6. Seed(v) # {}
      BY <3>5
    <3> QED BY <3>5, <3>6
  <2>2. Intervals(v)[b] = reads[Max(Seed(v))]
    BY <1>1, IntervalsAre
  <2>3. PICK x \in Nat : x = Max(Seed(v))
    BY <2>1, SeedIs
  <2>4. /\ x \in DOMAIN reads /\ x < v.start
        /\ \A s \in DOMAIN reads : v.start - SeedReach <= s /\ s < v.start => s <= x
    BY <2>1, <2>3, SeedIs
  <2>5. Grid(v, -1) = b /\ b + v.width = v.start /\ b \in Int /\ -1 \in Int /\ -1 >= -1 /\ ~(-1 >= 0)
    BY <1>0, <2>1, GridIs, SMTT(30)
  <2>6. Source(v, b, -1, x)
    BY <1>1, <2>1, <2>2, <2>3, <2>4, <2>5 DEF Source
  <2> QED BY <2>5, <2>6
<1>2. CASE ~(b < v.start)
  <2> DEFINE mine == {s \in Within(v) : Bucket(v, s) = b}
  <2>1. PICK s \in Within(v) : b = Bucket(v, s)
    <3>1. v.start - v.width < v.start
      BY <1>0
    <3>2. DOMAIN Intervals(v) = {Bucket(v, s) : s \in Within(v)}
                                 \cup (IF Seed(v) = {} THEN {} ELSE {v.start - v.width})
      BY IntervalsAre
    <3>3. b # v.start - v.width
      BY <1>2, <3>1
    <3>4. b \in {Bucket(v, s) : s \in Within(v)}
      BY <3>2, <3>3
    <3> QED BY <3>4
  <2>2. s \in mine /\ mine \subseteq DOMAIN reads
    BY <2>1 DEF Within
  <2>3. Intervals(v)[b] = reads[Max(mine)]
    BY <1>2, IntervalsAre
  <2>4. \A t \in Within(v) : t \in Int /\ t \in Nat /\ t \in DOMAIN reads
    BY ReadSlots DEF Within
  <2>5. PICK k \in Int : b = Grid(v, k) /\ Grid(v, k) <= s /\ s < Grid(v, k) + v.width
    BY <1>0, <2>1, <2>4, GridIs
  <2>6. b \in Int /\ v.start <= b
    BY <1>0, <1>2, <2>5, GridIs
  <2>7. \A t \in mine : t < b + v.width /\ b <= t
    <3> SUFFICES ASSUME NEW t \in mine PROVE t < b + v.width /\ b <= t
      OBVIOUS
    <3>1. PICK j \in Int : Bucket(v, t) = Grid(v, j) /\ Grid(v, j) <= t /\ t < Grid(v, j) + v.width
      BY <1>0, <2>4, GridIs
    <3> QED BY <3>1
  <2>8. \A t \in Within(v) : b <= t /\ t < b + v.width => t \in mine
    BY <1>0, <2>4, <2>5, BucketAt
  <2> HIDE DEF mine
  <2>9. Max(mine) \in mine /\ \A t \in mine : t <= Max(mine)
    BY <2>2, ReadSlots, GreatestOf
  <2>10. PICK x \in Nat : x = Max(mine)
    BY <2>2, <2>9, ReadSlots
  <2>11. x \in Within(v) /\ x < b + v.width /\ b <= x /\ x \in DOMAIN reads
    BY <2>4, <2>7, <2>9, <2>10 DEF mine
  <2>12. ASSUME NEW t \in Within(v), t < b + v.width PROVE t <= x
    <3>1. CASE b <= t
      BY <2>8, <2>9, <2>10, <2>12, <3>1
    <3>2. CASE ~(b <= t)
      BY <2>4, <2>6, <2>11, <3>2
    <3> QED BY <3>1, <3>2
  <2>13. k >= 0
    <3>1. k < 0 => Grid(v, k) + v.width <= v.start
      BY <1>0, GridIs
    <3> QED BY <1>0, <2>5, <2>6, <3>1
  <2>14. ~(k = -1) /\ k >= -1
    BY <2>13
  <2>15. Source(v, b, k, x)
    BY <2>3, <2>5, <2>6, <2>10, <2>11, <2>12, <2>14 DEF Source
  <2> QED BY <2>14, <2>15
<1> QED BY <1>1, <1>2

\* What the counter reads is a number, no more than all that was used.
LEMMA CounterIs ==
    ASSUME NEW n \in Nat, NEW f \in Histories(n), NEW mid \in Nat, NEW s \in Nat
    PROVE  /\ CounterOf(f, mid, s) \in 0..(StartsAt + UsedOf(f, 0, s + 1))
           /\ CounterOf(f, mid, s) \in Nat
<1>1. UsedOf(f, mid, s + 1) \in Nat /\ UsedOf(f, 0, s + 1) \in Nat /\ StartsAt \in Nat
  BY SlotsAre, IntervalViewsAssumption
<1>2. mid <= s => UsedOf(f, mid, s + 1) <= UsedOf(f, 0, s + 1)
  BY UsedWithin
<1> QED BY <1>1, <1>2 DEF CounterOf

\* Two readings: the counter went on, or restarted between them.
LEMMA CountersDiffer ==
    ASSUME NEW n \in Nat, NEW f \in Histories(n), NEW mid \in Nat,
           NEW y \in Nat, NEW x \in Nat, y < x
    PROVE  /\ mid <= y \/ mid > x =>
                CounterOf(f, mid, x) = CounterOf(f, mid, y) + UsedOf(f, y + 1, x + 1)
           /\ y < mid /\ mid <= x => CounterOf(f, mid, x) = UsedOf(f, mid, x + 1)
<1>1. CASE mid <= y
  <2>1. UsedOf(f, mid, x + 1) = UsedOf(f, mid, y + 1) + UsedOf(f, y + 1, x + 1)
    BY <1>1, UsedSplits
  <2> QED BY <1>1, <2>1 DEF CounterOf
<1>2. CASE mid > x
  <2>1. UsedOf(f, 0, x + 1) = UsedOf(f, 0, y + 1) + UsedOf(f, y + 1, x + 1)
    BY UsedSplits
  <2>2. /\ UsedOf(f, 0, y + 1) \in Nat /\ UsedOf(f, y + 1, x + 1) \in Nat /\ StartsAt \in Nat
    BY SlotsAre, IntervalViewsAssumption
  <2>3. ~(mid <= x) /\ ~(mid <= y)
    BY <1>2
  <2>4. CounterOf(f, mid, x) = StartsAt + UsedOf(f, 0, x + 1) /\ CounterOf(f, mid, y) = StartsAt + UsedOf(f, 0, y + 1)
    BY <2>3 DEF CounterOf
  <2> QED BY <1>2, <2>1, <2>2, <2>4
<1>3. CASE y < mid /\ mid <= x
  BY <1>3 DEF CounterOf
<1> QED BY <1>1, <1>2, <1>3

\* What a bar shows between two readings.
Bar(later, earlier) == IF later < earlier THEN later ELSE later - earlier

LEMMA BarBelow ==
    ASSUME NEW n \in Nat, NEW f \in Histories(n), NEW mid \in Nat, NEW y \in Nat, NEW x \in Nat, y < x,
           NEW a \in Int, NEW c \in Int, a <= y, x < c
    PROVE  Bar(CounterOf(f, mid, x), CounterOf(f, mid, y)) <= UsedOf(f, a, c)
<1>1. CounterOf(f, mid, x) \in Nat /\ CounterOf(f, mid, y) \in Nat
  BY CounterIs
<1>2. UsedOf(f, a, c) \in Nat /\ UsedOf(f, y + 1, x + 1) \in Nat /\ UsedOf(f, mid, x + 1) \in Nat
  BY SlotsAre
<1>3. CASE mid <= y \/ mid > x
  <2>1. UsedOf(f, y + 1, x + 1) <= UsedOf(f, a, c)
    BY UsedWithin
  <2>2. CounterOf(f, mid, x) = CounterOf(f, mid, y) + UsedOf(f, y + 1, x + 1)
    BY <1>3, CountersDiffer
  <2> QED BY <1>1, <1>2, <2>1, <2>2 DEF Bar
<1>4. CASE y < mid /\ mid <= x
  <2>1. UsedOf(f, mid, x + 1) <= UsedOf(f, a, c)
    BY <1>4, UsedWithin
  <2>2. CounterOf(f, mid, x) = UsedOf(f, mid, x + 1)
    BY <1>4 DEF CounterOf
  <2> QED BY <1>1, <1>2, <2>1, <2>2 DEF Bar
<1> QED BY <1>3, <1>4

\* A slot that was read shows the counter, or nothing.
ShowsCounter(x) == reads[x] # None /\ reads[x] = CounterOf(used, midnight, x)

\* A bar of a view: the first without a seed, or between two readings.
FirstBar(v, b, k, x) ==
    /\ k = 0 /\ v.first /\ Seed(v) = {} /\ Points(v)[b] = CounterOf(used, midnight, x)
BarBetween(v, b, k, x, y) ==
    /\ Source(v, b - v.width, k - 1, y) /\ y < x /\ ShowsCounter(y)
    /\ Points(v)[b] = Bar(CounterOf(used, midnight, x), CounterOf(used, midnight, y))

LEMMA PointsAre ==
    ASSUME NEW v
    PROVE  /\ DOMAIN Points(v) =
                {b \in DOMAIN Intervals(v) : b >= v.start /\ Measured(v, Intervals(v), b) # None}
           /\ \A b \in DOMAIN Points(v) : Points(v)[b] = Measured(v, Intervals(v), b)
<1> DEFINE I == Intervals(v)
           D == {b \in DOMAIN I : b >= v.start}
           bars == [b \in D |-> Measured(v, I, b)]
           P == {b \in DOMAIN bars : bars[b] # None}
<1>1. Points(v) = [b \in P |-> bars[b]]
  BY DEF Points
<1>2. DOMAIN bars = D /\ \A b \in D : bars[b] = Measured(v, I, b)
  OBVIOUS
<1>3. P = {b \in D : Measured(v, I, b) # None}
  BY <1>2
<1>4. DOMAIN Points(v) = P /\ \A b \in P : Points(v)[b] = bars[b]
  BY <1>1
<1>5. P = {b \in DOMAIN I : b >= v.start /\ Measured(v, I, b) # None}
  BY <1>3
<1>6. \A b \in P : b \in D
  BY <1>3
<1> HIDE DEF bars, P, D, I
<1>7. \A b \in P : Points(v)[b] = Measured(v, I, b)
  BY <1>2, <1>4, <1>6
<1> QED BY <1>4, <1>5, <1>7 DEF I

\* The interval before another one, if there is one.
LEMMA Before ==
    ASSUME ViewsInv, NEW v \in Views, NEW b \in DOMAIN Intervals(v),
           {c \in DOMAIN Intervals(v) : c < b} # {}
    PROVE  LET earlier == {c \in DOMAIN Intervals(v) : c < b}
           IN Max(earlier) \in earlier /\ \A c \in earlier : c <= Max(earlier)
<1> DEFINE earlier == {c \in DOMAIN Intervals(v) : c < b}
<1>0. v.start \in Int /\ v.width \in Nat \ {0}
  BY ViewIs
<1>1. \A c \in DOMAIN Intervals(v) : c \in Int /\ v.start - v.width <= c
  <2> SUFFICES ASSUME NEW c \in DOMAIN Intervals(v) PROVE c \in Int /\ v.start - v.width <= c
    OBVIOUS
  <2>1. PICK k \in Int, x \in Nat : k >= -1 /\ Source(v, c, k, x)
    BY SourceOf
  <2>2. c = Grid(v, k) /\ c \in Int
    BY <2>1 DEF Source
  <2>3. k > 0 => v.start + v.width <= Grid(v, k)
    BY <1>0, GridIs
  <2>4. Grid(v, 0) = v.start /\ Grid(v, -1) = v.start - v.width
    BY <1>0, GridIs
  <2>5. k > 0 \/ k = 0 \/ k = -1
    BY <2>1
  <2>6. CASE k > 0
    BY <1>0, <2>2, <2>3, <2>6
  <2>7. CASE k = 0 \/ k = -1
    BY <1>0, <2>2, <2>4, <2>7
  <2> QED BY <2>5, <2>6, <2>7
<1>2. earlier \subseteq (v.start - v.width)..b /\ earlier \in SUBSET Int
  BY <1>0, <1>1
<1>3. IsFiniteSet((v.start - v.width)..b)
  BY <1>0, <1>1, IntervalFinite
<1>4. IsFiniteSet(earlier) /\ earlier # {}
  BY <1>2, <1>3, FS_Subset
<1> HIDE DEF earlier
<1>5. Max(earlier) \in earlier /\ \A c \in earlier : c <= Max(earlier)
  BY <1>2, <1>4, GreatestInteger
<1> QED BY <1>5 DEF earlier

LEMMA BarShows ==
    ASSUME ViewsInv, NEW v \in Views, NEW b \in DOMAIN Points(v)
    PROVE  \E k \in Int, x \in Nat :
             /\ k >= 0 /\ Source(v, b, k, x) /\ ShowsCounter(x)
             /\ FirstBar(v, b, k, x) \/ \E y \in Nat : BarBetween(v, b, k, x, y)
<1> DEFINE I == Intervals(v)
           earlier == {c \in DOMAIN I : c < b}
<1>0. v.start \in Int /\ v.width \in Nat \ {0}
  BY ViewIs
<1>1. b \in DOMAIN I /\ b >= v.start /\ Points(v)[b] = Measured(v, I, b) /\ Points(v)[b] # None
  BY PointsAre
<1>2. PICK k \in Int, x \in Nat : k >= -1 /\ Source(v, b, k, x)
  BY <1>1, SourceOf
<1>3. b = Grid(v, k) /\ b \in Int /\ x \in DOMAIN reads /\ I[b] = reads[x]
  BY <1>2 DEF Source
<1>4. k >= 0
  <2>1. k = -1 => b < v.start
    BY <1>2 DEF Source
  <2> QED BY <1>0, <1>1, <1>2, <1>3, <2>1
<1>5. b <= x
  BY <1>2, <1>4 DEF Source
<1>s. \A s \in DOMAIN reads : reads[s] # None => ShowsCounter(s)
  BY DEF ViewsInv, ShowsCounter
<1>6. CASE earlier = {}
  <2>1. Measured(v, I, b) = IF v.first /\ b < v.start + v.width THEN I[b] ELSE None
    BY <1>6 DEF Measured
  <2>2. v.first /\ b < v.start + v.width /\ Points(v)[b] = reads[x] /\ ShowsCounter(x)
    BY <1>1, <1>3, <1>s, <2>1
  <2>3. k = 0
    <3>1. k > 0 => v.start + v.width <= Grid(v, k)
      BY <1>0, GridIs
    <3> QED BY <1>0, <1>3, <1>4, <2>2, <3>1
  <2>4. Seed(v) = {}
    <3>1. Seed(v) # {} => v.start - v.width \in DOMAIN I
      BY IntervalsAre
    <3>2. v.start - v.width < b
      BY <1>0, <1>1, <1>3
    <3> QED BY <1>6, <3>1, <3>2
  <2>5. FirstBar(v, b, k, x)
    BY <2>2, <2>3, <2>4 DEF FirstBar, ShowsCounter
  <2> QED BY <1>2, <1>4, <2>2, <2>5
<1>7. CASE earlier # {}
  <2> DEFINE prev == Max(earlier)
  <2>1. prev \in DOMAIN I /\ prev < b
    BY <1>1, <1>7, Before
  <2>2. Measured(v, I, b) = IF b - prev # v.width \/ I[b] = None \/ I[prev] = None THEN None
                            ELSE Bar(I[b], I[prev])
    BY <1>7 DEF Measured, Bar
  <2> HIDE DEF prev
  <2>3. b - prev = v.width /\ I[b] # None /\ I[prev] # None /\ Points(v)[b] = Bar(I[b], I[prev])
    BY <1>1, <2>2
  <2>4. PICK j \in Int, y \in Nat : j >= -1 /\ Source(v, prev, j, y)
    BY <2>1, SourceOf
  <2>5. prev = Grid(v, j) /\ prev \in Int /\ y \in DOMAIN reads /\ I[prev] = reads[y] /\ y < prev + v.width
    BY <2>4 DEF Source
  <2>6. prev = b - v.width /\ y < x
    BY <1>0, <1>3, <1>5, <2>3, <2>5
  <2>7. j = k - 1
    <3>1. Grid(v, k - 1) + v.width = Grid(v, k) /\ Grid(v, k - 1) \in Int
      <4>1. k - 1 \in Int /\ (k - 1) + 1 = k
        OBVIOUS
      <4> QED BY <1>0, <4>1, GridIs
    <3>2. Grid(v, j) = Grid(v, k - 1)
      BY <1>0, <1>3, <2>5, <2>6, <3>1
    <3>3. /\ j < k - 1 => Grid(v, j) + v.width <= Grid(v, k - 1)
          /\ k - 1 < j => Grid(v, k - 1) + v.width <= Grid(v, j)
      <4>1. k - 1 \in Int
        OBVIOUS
      <4> QED BY <1>0, <4>1, GridIs
    <3>4. ~(j < k - 1) /\ ~(k - 1 < j)
      BY <1>0, <3>1, <3>2, <3>3
    <3> QED BY <3>4
  <2>8. ShowsCounter(x) /\ ShowsCounter(y)
    BY <1>3, <1>s, <2>3, <2>5
  <2>9. Source(v, b - v.width, k - 1, y)
    BY <2>4, <2>6, <2>7
  <2>10. Points(v)[b] = Bar(CounterOf(used, midnight, x), CounterOf(used, midnight, y))
    BY <1>3, <2>3, <2>5, <2>8 DEF ShowsCounter
  <2>11. BarBetween(v, b, k, x, y)
    BY <2>6, <2>8, <2>9, <2>10 DEF BarBetween
  <2> QED BY <1>2, <1>4, <2>8, <2>11
<1> QED BY <1>6, <1>7

LEMMA UsedIs == ASSUME NEW a, NEW c PROVE Used(a, c) = UsedOf(used, a, c)
BY DEF Used, UsedOf, SumAt, Slots

LEMMA BarsLow == ASSUME ViewsInv PROVE NoBarTooHigh
<1> SUFFICES ASSUME NEW v \in Views, NEW b \in DOMAIN Points(v)
             PROVE  \/ Points(v)[b] <= Used(b - v.width, b + v.width)
                    \/ b = v.start /\ \A s \in (v.start - v.width)..(v.start - 1) : s \notin DOMAIN reads
  BY DEF NoBarTooHigh
<1>0. v.start \in Int /\ v.width \in Nat \ {0} /\ v.width <= SeedReach /\ SeedReach \in Nat
  BY ViewIs, IntervalViewsAssumption
<1>1. now \in Nat /\ used \in Histories(now) /\ midnight \in Nat
  BY IntervalViewsAssumption DEF ViewsInv
<1>2. PICK k \in Int, x \in Nat :
        /\ k >= 0 /\ Source(v, b, k, x) /\ ShowsCounter(x)
        /\ FirstBar(v, b, k, x) \/ \E y \in Nat : BarBetween(v, b, k, x, y)
  BY BarShows
<1>3. b = Grid(v, k) /\ b \in Int /\ x < b + v.width /\ b <= x
  BY <1>2 DEF Source
<1>4. k = 0 => b = v.start
  BY <1>0, <1>3, GridIs
<1>5. CASE FirstBar(v, b, k, x)
  <2>1. Seed(v) = {} /\ b = v.start
    BY <1>4, <1>5 DEF FirstBar
  <2>2. ASSUME NEW s \in (v.start - v.width)..(v.start - 1), s \in DOMAIN reads PROVE FALSE
    <3>1. v.start - SeedReach <= s /\ s < v.start
      BY <1>0
    <3> QED BY <2>1, <2>2, <3>1 DEF Seed
  <2> QED BY <2>1, <2>2
<1>6. CASE \E y \in Nat : BarBetween(v, b, k, x, y)
  <2>1. PICK y \in Nat : BarBetween(v, b, k, x, y)
    BY <1>6
  <2>2. /\ Source(v, b - v.width, k - 1, y) /\ y < x
        /\ Points(v)[b] = Bar(CounterOf(used, midnight, x), CounterOf(used, midnight, y))
    BY <2>1 DEF BarBetween
  <2>3. CASE b - v.width <= y
    <3>1. b - v.width \in Int /\ b + v.width \in Int
      BY <1>0, <1>3
    <3>2. Points(v)[b] <= UsedOf(used, b - v.width, b + v.width)
      BY <1>1, <1>3, <2>2, <2>3, <3>1, BarBelow
    <3> QED BY <3>2, UsedIs
  <2>4. CASE ~(b - v.width <= y)
    <3>1. k = 0
      <4>1. k - 1 >= 0 => b - v.width <= y
        BY <2>2 DEF Source
      <4> QED BY <1>2, <2>4, <4>1
    <3>2. \A s \in DOMAIN reads : v.start - SeedReach <= s /\ s < v.start => s <= y
      <4>1. k - 1 = -1
        BY <3>1
      <4> QED BY <2>2, <4>1 DEF Source
    <3>3. \A s \in (v.start - v.width)..(v.start - 1) : s \notin DOMAIN reads
      BY <1>0, <1>4, <2>4, <3>1, <3>2
    <3> QED BY <1>4, <3>1, <3>3
  <2> QED BY <2>3, <2>4
<1> QED BY <1>2, <1>5, <1>6

LEMMA ViewsTyped == ASSUME ViewsInv PROVE ViewsTypeOK
<1>1. now \in Nat /\ used \in Histories(now) /\ midnight \in Nat /\ Horizon \in Nat
  BY IntervalViewsAssumption DEF ViewsInv
<1>2. DOMAIN used = 0..(now - 1) /\ DOMAIN reads \subseteq 0..(now - 1)
  BY DEF ViewsInv, Histories
<1>3. \A s \in DOMAIN reads : reads[s] # None => reads[s] \in 0..(StartsAt + Used(0, s + 1))
  <2> SUFFICES ASSUME NEW s \in DOMAIN reads, reads[s] # None
               PROVE  reads[s] \in 0..(StartsAt + Used(0, s + 1))
    OBVIOUS
  <2>1. s \in Nat /\ reads[s] = CounterOf(used, midnight, s)
    BY <1>1, <1>2 DEF ViewsInv
  <2> QED BY <1>1, <2>1, CounterIs, UsedIs
<1>4. ASSUME NEW v \in Views, NEW b \in DOMAIN Points(v)
      PROVE  v.start <= b /\ b < v.end /\ (b - v.start) % v.width = 0
  <2>0. v.start \in Int /\ v.width \in Nat \ {0} /\ v.end \in Int
    BY ViewIs
  <2>1. PICK k \in Int, x \in Nat : k >= 0 /\ Source(v, b, k, x)
    BY BarShows
  <2>2. b = Grid(v, k) /\ b \in Int /\ v.start <= b /\ b <= x /\ x \in Within(v)
    BY <2>1 DEF Source
  <2>3. x < v.end
    BY <2>2 DEF Within
  <2>4. (b - v.start) % v.width = 0
    BY <2>0, <2>2, GridIs
  <2> QED BY <2>0, <2>2, <2>3, <2>4
<1> QED BY <1>1, <1>2, <1>3, <1>4 DEF ViewsTypeOK, ViewsInv

-----------------------------------------------------------------------------
(* A window that was read throughout.                                      *)

\* From the slot before the window up to slot m every slot was read, and none later.
ReadUpTo(v, m) ==
    /\ m \in Nat /\ v.start \in Nat \ {0} /\ v.start <= m
    /\ \A s \in (v.start - 1)..m : s \in DOMAIN reads /\ ShowsCounter(s)
    /\ Within(v) = v.start..m

LEMMA ReadUpToLast ==
    ASSUME ViewsInv, NEW v \in Views, ReadThroughout(v)
    PROVE  ReadUpTo(v, Max(Within(v)))
<1>0. v.start \in Int /\ v.end \in Int
  BY ViewIs
<1>1. Within(v) \subseteq DOMAIN reads /\ Within(v) # {} /\ v.start > 0
  BY DEF Within, ReadThroughout
<1>2. Max(Within(v)) \in Within(v) /\ \A t \in Within(v) : t <= Max(Within(v))
  BY <1>1, ReadSlots, GreatestOf
<1>3. PICK m \in Nat : m = Max(Within(v))
  BY <1>1, <1>2, ReadSlots
<1>4. v.start <= m /\ m < v.end
  BY <1>2, <1>3 DEF Within
<1>5. \A s \in (v.start - 1)..m : s \in DOMAIN reads /\ reads[s] # None
  BY <1>3 DEF ReadThroughout
<1>6. \A s \in (v.start - 1)..m : ShowsCounter(s)
  BY <1>5 DEF ShowsCounter, ViewsInv
<1>7. Within(v) = v.start..m
  <2>1. \A s \in v.start..m : s \in (v.start - 1)..m /\ v.start <= s /\ s < v.end
    BY <1>0, <1>4
  <2>2. \A s \in Within(v) : s \in Nat /\ v.start <= s /\ s <= m
    BY <1>1, <1>2, <1>3, ReadSlots DEF Within
  <2>3. Within(v) \subseteq v.start..m
    BY <1>0, <2>2
  <2>4. v.start..m \subseteq Within(v)
    BY <1>5, <2>1 DEF Within
  <2> QED BY <2>3, <2>4
<1> QED BY <1>0, <1>1, <1>3, <1>4, <1>5, <1>6, <1>7 DEF ReadUpTo

\* The last slot of a bucket that was read.
LastOf(v, b, m) == IF b + v.width - 1 <= m THEN b + v.width - 1 ELSE m

LEMMA SourceIsLast ==
    ASSUME ViewsInv, NEW v \in Views, NEW m, ReadUpTo(v, m),
           NEW b, NEW k \in Int, NEW x \in Nat, k >= -1, Source(v, b, k, x)
    PROVE  x = LastOf(v, b, m) /\ b <= m
<1>0. v.start \in Nat \ {0} /\ v.start \in Int /\ v.width \in Nat \ {0} /\ m \in Nat /\ v.start <= m
      /\ v.width <= SeedReach /\ SeedReach \in Nat
  BY ViewIs, IntervalViewsAssumption DEF ReadUpTo
<1>1. b = Grid(v, k) /\ b \in Int /\ x \in DOMAIN reads /\ x < b + v.width
  BY DEF Source
<1>2. CASE k >= 0
  <2>1. b >= v.start /\ b <= x /\ x \in Within(v) /\ \A s \in Within(v) : s < b + v.width => s <= x
    BY <1>2 DEF Source
  <2>2. x <= m /\ m \in Within(v)
    BY <1>0, <2>1 DEF ReadUpTo
  <2>3. CASE b + v.width - 1 <= m
    <3>1. b + v.width - 1 \in Within(v)
      BY <1>0, <1>1, <2>1, <2>3, SMTT(30) DEF ReadUpTo
    <3>2. b + v.width - 1 <= x
      BY <1>0, <1>1, <2>1, <3>1
    <3>3. x = b + v.width - 1
      BY <1>0, <1>1, <3>2
    <3> QED BY <1>0, <1>1, <2>1, <2>2, <2>3, <3>3 DEF LastOf
  <2>4. CASE ~(b + v.width - 1 <= m)
    <3>1. m < b + v.width
      BY <1>0, <1>1, <2>4
    <3>2. m <= x
      BY <2>1, <2>2, <3>1
    <3> QED BY <1>0, <1>1, <2>1, <2>2, <2>4, <3>2 DEF LastOf
  <2> QED BY <2>3, <2>4
<1>3. CASE k = -1
  <2>1. b = v.start - v.width
    BY <1>0, <1>1, <1>3, GridIs
  <2>2. \A s \in DOMAIN reads : v.start - SeedReach <= s /\ s < v.start => s <= x
    BY <1>3 DEF Source
  <2>3. v.start - 1 \in DOMAIN reads
    <3>1. v.start - 1 \in (v.start - 1)..m
      BY <1>0
    <3> QED BY <3>1 DEF ReadUpTo
  <2>4. v.start - 1 <= x
    BY <1>0, <2>2, <2>3
  <2>5. x = v.start - 1 /\ b + v.width - 1 = v.start - 1 /\ v.start - 1 <= m
    BY <1>0, <1>1, <2>1, <2>4
  <2> QED BY <1>0, <2>1, <2>5 DEF LastOf
<1> QED BY <1>2, <1>3

\* The buckets of the window, and the one before it, are its intervals.
LEMMA GridIntervals ==
    ASSUME ViewsInv, NEW v \in Views, NEW m, ReadUpTo(v, m), NEW k \in Int, k >= -1, Grid(v, k) <= m
    PROVE  Grid(v, k) \in DOMAIN Intervals(v)
<1>0. v.start \in Nat \ {0} /\ v.start \in Int /\ v.width \in Nat \ {0} /\ m \in Nat /\ v.start <= m
      /\ v.width <= SeedReach /\ SeedReach \in Nat
  BY ViewIs, IntervalViewsAssumption DEF ReadUpTo
<1>1. DOMAIN Intervals(v) = {Bucket(v, s) : s \in Within(v)}
                              \cup (IF Seed(v) = {} THEN {} ELSE {v.start - v.width})
  BY IntervalsAre
<1>2. CASE k = -1
  <2>1. v.start - 1 \in DOMAIN reads
    <3>1. v.start - 1 \in (v.start - 1)..m
      BY <1>0
    <3> QED BY <3>1 DEF ReadUpTo
  <2>2. v.start - SeedReach <= v.start - 1 /\ v.start - 1 < v.start
    BY <1>0
  <2>3. Seed(v) # {}
    BY <2>1, <2>2 DEF Seed
  <2>4. Grid(v, k) = v.start - v.width
    BY <1>0, <1>2, GridIs
  <2> QED BY <1>1, <2>3, <2>4
<1>3. CASE k >= 0
  <2>1. Grid(v, k) \in Int /\ Grid(v, 0) = v.start /\ (k > 0 => v.start + v.width <= Grid(v, k))
    BY <1>0, GridIs
  <2>2. v.start <= Grid(v, k)
    <3>1. k = 0 \/ k > 0
      BY <1>3
    <3> QED BY <1>0, <2>1, <3>1
  <2>3. Grid(v, k) \in Within(v)
    BY <1>0, <2>1, <2>2 DEF ReadUpTo
  <2>4. Bucket(v, Grid(v, k)) = Grid(v, k)
    <3>1. Grid(v, k) <= Grid(v, k) /\ Grid(v, k) < Grid(v, k) + v.width
      BY <1>0, <2>1
    <3> QED BY <1>0, <2>1, <3>1, BucketAt
  <2> QED BY <1>1, <2>3, <2>4
<1> QED BY <1>2, <1>3

\* When the counter restarts between two buckets, a bar is what its bucket used.
Aligned(v) == (midnight - v.start) % v.width = 0

LEMMA BarIsUsed ==
    ASSUME ViewsInv, StartsAt > PerHour, NEW v \in Views, NEW m, ReadUpTo(v, m), Aligned(v),
           NEW k \in Nat, Grid(v, k) <= m
    PROVE  /\ Grid(v, k) \in DOMAIN Points(v)
           /\ Points(v)[Grid(v, k)] = UsedOf(used, Grid(v, k), LastOf(v, Grid(v, k), m) + 1)
<1> DEFINE b == Grid(v, k)
           I == Intervals(v)
           earlier == {c \in DOMAIN I : c < b}
           prev == Max(earlier)
           x == LastOf(v, b, m)
           cx == CounterOf(used, midnight, x)
           cy == CounterOf(used, midnight, b - 1)
<1>0. v.start \in Nat \ {0} /\ v.start \in Int /\ v.width \in Nat \ {0} /\ m \in Nat /\ v.start <= m
      /\ v.width <= PerHour /\ PerHour \in Nat /\ StartsAt \in Nat /\ k \in Int /\ k >= -1
  BY ViewIs, IntervalViewsAssumption DEF ReadUpTo
<1>1. now \in Nat /\ used \in Histories(now) /\ midnight \in Nat
  BY IntervalViewsAssumption DEF ViewsInv
<1>2. b \in Int /\ v.start <= b /\ b <= m
  <2>1. Grid(v, k) \in Int /\ Grid(v, 0) = v.start /\ (k > 0 => v.start + v.width <= Grid(v, k))
    BY <1>0, GridIs
  <2>2. k = 0 \/ k > 0
    OBVIOUS
  <2> QED BY <1>0, <2>1, <2>2
<1>3. b \in DOMAIN I
  BY <1>0, GridIntervals
<1>4. PICK x0 \in Nat : Source(v, b, k, x0) /\ x0 = x
  <2>1. PICK j \in Int, x1 \in Nat : j >= -1 /\ Source(v, b, j, x1)
    BY <1>3, SourceOf
  <2>2. x1 = x
    BY <2>1, SourceIsLast
  <2>3. Grid(v, j) = b
    BY <2>1 DEF Source
  <2>4. j = k
    <3>1. (j < k => Grid(v, j) + v.width <= Grid(v, k)) /\ (k < j => Grid(v, k) + v.width <= Grid(v, j))
      BY <1>0, GridApart
    <3>2. ~(j < k) /\ ~(k < j)
      BY <1>0, <1>2, <2>3, <3>1
    <3> QED BY <3>2
  <2> QED BY <2>1, <2>2, <2>4
<1>5. I[b] = reads[x] /\ x \in Nat /\ x \in Within(v) /\ b <= x /\ x < b + v.width
  BY <1>0, <1>4 DEF Source
<1>6. b - v.width \in earlier
  <2>1. k - 1 \in Int /\ k - 1 >= -1 /\ (k - 1) + 1 = k
    OBVIOUS
  <2>2. Grid(v, k - 1) \in Int /\ Grid(v, k) = Grid(v, k - 1) + v.width
    BY <1>0, GridBefore
  <2>3. Grid(v, k - 1) = b - v.width /\ Grid(v, k - 1) <= m /\ b - v.width < b
    BY <1>0, <1>2, <2>2
  <2>4. Grid(v, k - 1) \in DOMAIN I
    BY <2>1, <2>3, GridIntervals
  <2> QED BY <2>3, <2>4
<1>7. prev \in DOMAIN I /\ prev < b /\ b - v.width <= prev
  BY <1>3, <1>6, Before
<1> HIDE DEF prev
<1>8. PICK j \in Int, y \in Nat : j >= -1 /\ Source(v, prev, j, y)
  BY <1>7, SourceOf
<1>9. prev = Grid(v, j) /\ prev \in Int /\ I[prev] = reads[y] /\ y \in DOMAIN reads
  BY <1>8 DEF Source
<1>10. prev = b - v.width
  <2>1. (j < k => Grid(v, j) + v.width <= Grid(v, k)) /\ (k < j => Grid(v, k) + v.width <= Grid(v, j))
    BY <1>0, GridApart
  <2> QED BY <1>0, <1>2, <1>7, <1>9, <2>1
<1>11. y = b - 1
  <2>1. y = LastOf(v, prev, m)
    BY <1>8, SourceIsLast
  <2>2. prev + v.width - 1 = b - 1 /\ b - 1 <= m
    BY <1>0, <1>2, <1>10
  <2> QED BY <2>1, <2>2 DEF LastOf
<1>12. I[b] = cx /\ I[prev] = cy /\ I[b] # None /\ I[prev] # None
  <2>1. x \in (v.start - 1)..m /\ b - 1 \in (v.start - 1)..m
    BY <1>0, <1>2, <1>5 DEF ReadUpTo
  <2>2. ShowsCounter(x) /\ ShowsCounter(b - 1)
    BY <2>1 DEF ReadUpTo
  <2> QED BY <1>5, <1>9, <1>11, <2>2 DEF ShowsCounter
<1>13. Measured(v, I, b) = Bar(cx, cy)
  <2>1. Measured(v, I, b) = IF b - prev # v.width \/ I[b] = None \/ I[prev] = None THEN None
                            ELSE Bar(I[b], I[prev])
    BY <1>6 DEF Measured, Bar, prev
  <2>2. b - prev = v.width
    BY <1>0, <1>2, <1>10
  <2> QED BY <1>12, <2>1, <2>2
<1> HIDE DEF x, I, earlier, b
<1>14. cx \in Nat /\ cy \in Nat /\ b - 1 \in Nat /\ b - 1 < x
  <2>1. b - 1 \in Nat /\ b - 1 < x
    BY <1>0, <1>2, <1>5
  <2> QED BY <1>1, <1>5, <2>1, CounterIs
<1>15. Bar(cx, cy) = UsedOf(used, b, x + 1)
  <2>0. UsedOf(used, b, x + 1) \in Nat /\ (b - 1) + 1 = b
    BY <1>1, <1>2, <1>5, SlotsAre
  <2>1. CASE midnight <= b - 1 \/ midnight > x
    <3>1. cx = cy + UsedOf(used, (b - 1) + 1, x + 1)
      BY <1>1, <1>5, <1>14, <2>1, CountersDiffer
    <3>2. cx = cy + UsedOf(used, b, x + 1)
      BY <2>0, <3>1
    <3> HIDE DEF cx, cy
    <3> QED BY <1>14, <2>0, <3>2 DEF Bar
  <2>2. CASE b - 1 < midnight /\ midnight <= x
    <3>1. PICK i \in Int : midnight = Grid(v, i)
      <4>1. (midnight - v.start) % v.width = 0 /\ midnight \in Int
        BY <1>1 DEF Aligned
      <4> QED BY <1>0, <4>1, GridIs
    <3>2. midnight = b
      <4>1. (i < k => Grid(v, i) + v.width <= Grid(v, k)) /\ (k < i => Grid(v, k) + v.width <= Grid(v, i))
        BY <1>0, GridApart
      <4>2. b <= midnight /\ midnight < b + v.width
        BY <1>0, <1>1, <1>2, <1>5, <2>2
      <4> QED BY <1>0, <1>1, <1>2, <3>1, <4>1, <4>2 DEF b
    <3>3. cx = UsedOf(used, b, x + 1)
      BY <1>5, <3>2 DEF CounterOf
    <3>4. cy >= StartsAt
      <4>1. ~(midnight <= b - 1) /\ (b - 1) + 1 = b
        BY <1>1, <1>2, <3>2
      <4>2. cy = StartsAt + UsedOf(used, 0, b) /\ UsedOf(used, 0, b) \in Nat
        BY <1>1, <1>2, <4>1, SlotsAre DEF CounterOf
      <4> HIDE DEF cy
      <4> QED BY <1>0, <4>2
    <3>5. UsedOf(used, b, x + 1) <= (x + 1) - b
      BY <1>1, <1>2, <1>5, UsedAtMost
    <3>6. cx < cy
      <4> HIDE DEF cx, cy
      <4> QED BY <1>0, <1>2, <1>5, <1>14, <2>0, <3>3, <3>4, <3>5
    <3> HIDE DEF cx, cy
    <3> QED BY <3>3, <3>6 DEF Bar
  <2> QED BY <2>1, <2>2, <1>1, <1>2, <1>5
<1>16. Measured(v, I, b) = UsedOf(used, b, x + 1) /\ Measured(v, I, b) # None
  <2>1. x + 1 \in Int /\ b \in Int
    BY <1>1, <1>2, <1>5
  <2>2. UsedOf(used, b, x + 1) \in Nat
    BY <1>1, <2>1, SlotsAre
  <2>3. None # UsedOf(used, b, x + 1)
    BY <2>2, RackSocAssumption
  <2> QED BY <1>13, <1>15, <2>3
<1>17. b \in DOMAIN Points(v) /\ Points(v)[b] = UsedOf(used, b, x + 1)
  <2>1. b >= v.start
    BY <1>0, <1>2
  <2> QED BY <1>3, <1>16, <2>1, PointsAre DEF I
<1> QED BY <1>17 DEF b, x

\* The bars up to one of them are what was used up to it.
UpTo(v, k) == {b \in DOMAIN Points(v) : b <= Grid(v, k)}

LEMMA PointsOnGrid ==
    ASSUME ViewsInv, NEW v \in Views, NEW m, ReadUpTo(v, m), NEW b \in DOMAIN Points(v)
    PROVE  \E k \in Nat : b = Grid(v, k) /\ b <= m /\ b \in Nat
<1>1. PICK k \in Int, x \in Nat : k >= 0 /\ Source(v, b, k, x)
  BY BarShows
<1>2. b <= m /\ b = Grid(v, k) /\ v.start <= b /\ b \in Int
  <2>1. k >= -1
    BY <1>1
  <2> QED BY <1>1, <2>1, SourceIsLast DEF Source
<1>3. b \in Nat /\ k \in Nat
  BY <1>1, <1>2 DEF ReadUpTo
<1> QED BY <1>2, <1>3

LEMMA PointsFinite ==
    ASSUME ViewsInv, NEW v \in Views, NEW m, ReadUpTo(v, m), NEW S, S \subseteq DOMAIN Points(v)
    PROVE  IsFiniteSet(S)
<1>1. DOMAIN Points(v) \subseteq 0..m /\ m \in Nat
  BY PointsOnGrid DEF ReadUpTo
<1> QED BY <1>1, IntervalFinite, FS_Subset

LEMMA BarsUpTo ==
    ASSUME ViewsInv, StartsAt > PerHour, NEW v \in Views, NEW m, ReadUpTo(v, m), Aligned(v), NEW k \in Nat,
           Grid(v, k) <= m
    PROVE  SumAt(Points(v), UpTo(v, k)) = UsedOf(used, v.start, LastOf(v, Grid(v, k), m) + 1)
<1> DEFINE Adds(i) == Grid(v, i) <= m =>
             SumAt(Points(v), UpTo(v, i)) = UsedOf(used, v.start, LastOf(v, Grid(v, i), m) + 1)
           good == {i \in Nat : Adds(i)}
<1>0. v.start \in Nat \ {0} /\ v.start \in Int /\ v.width \in Nat \ {0} /\ m \in Nat /\ v.start <= m
  BY ViewIs DEF ReadUpTo
<1>1. now \in Nat /\ used \in Histories(now)
  BY DEF ViewsInv
<1>2. \A i \in Nat : /\ i \in Int /\ Grid(v, i) \in Int /\ Grid(v, i + 1) = Grid(v, i) + v.width
                     /\ v.start <= Grid(v, i)
  <2> SUFFICES ASSUME NEW i \in Nat
               PROVE  /\ Grid(v, i) \in Int /\ Grid(v, i + 1) = Grid(v, i) + v.width
                      /\ v.start <= Grid(v, i)
    OBVIOUS
  <2>1. i \in Int /\ (i = 0 \/ i > 0)
    OBVIOUS
  <2>2. /\ Grid(v, i) \in Int /\ Grid(v, i + 1) = Grid(v, i) + v.width
        /\ Grid(v, 0) = v.start /\ (i > 0 => v.start + v.width <= Grid(v, i))
    BY <1>0, <2>1, GridSide
  <2> QED BY <1>0, <2>1, <2>2
<1>3. ASSUME NEW i \in Nat, Grid(v, i) <= m
      PROVE  LastOf(v, Grid(v, i), m) \in Int /\ Grid(v, i) <= LastOf(v, Grid(v, i), m)
  BY <1>0, <1>2, <1>3 DEF LastOf
<1>4. \A b \in DOMAIN Points(v) : Points(v)[b] \in Int
  <2> SUFFICES ASSUME NEW b \in DOMAIN Points(v) PROVE Points(v)[b] \in Int
    OBVIOUS
  <2>1. PICK i \in Nat : b = Grid(v, i) /\ b <= m
    BY PointsOnGrid
  <2>2. Points(v)[b] = UsedOf(used, b, LastOf(v, b, m) + 1)
    BY <2>1, BarIsUsed
  <2>3. b \in Int /\ LastOf(v, b, m) + 1 \in Int
    BY <1>2, <1>3, <2>1
  <2>4. UsedOf(used, b, LastOf(v, b, m) + 1) \in Nat
    BY <1>1, <2>3, SlotsAre
  <2> QED BY <2>2, <2>4
<1>5. 0 \in good
  <2> SUFFICES ASSUME Grid(v, 0) <= m
               PROVE  SumAt(Points(v), UpTo(v, 0)) = UsedOf(used, v.start, LastOf(v, Grid(v, 0), m) + 1)
    OBVIOUS
  <2>1. Grid(v, 0) = v.start
    BY <1>0, GridIs
  <2>2. /\ v.start \in DOMAIN Points(v)
        /\ Points(v)[v.start] = UsedOf(used, v.start, LastOf(v, v.start, m) + 1)
    <3>1. 0 \in Nat
      OBVIOUS
    <3> QED BY <2>1, <3>1, BarIsUsed
  <2>3. UpTo(v, 0) = {} \cup {v.start}
    <3>1. \A b \in DOMAIN Points(v) : b \in Int /\ v.start <= b
      BY <1>2, PointsOnGrid
    <3> QED BY <1>0, <2>1, <2>2, <3>1 DEF UpTo
  <2>4. SumAt(Points(v), {} \cup {v.start}) = Points(v)[v.start] + SumAt(Points(v), {})
    BY <1>4, <2>2, FS_EmptySet, SumAtMore
  <2>5. SumAt(Points(v), {}) = 0 /\ Points(v)[v.start] \in Int
    BY <1>4, <2>2, SumAtEmpty
  <2>6. SumAt(Points(v), UpTo(v, 0)) = Points(v)[v.start]
    BY <2>3, <2>4, <2>5
  <2> QED BY <2>1, <2>2, <2>6
<1>6. ASSUME NEW i \in Nat, i \in good PROVE i + 1 \in good
  <2> DEFINE b == Grid(v, i)
             c == Grid(v, i + 1)
  <2> SUFFICES ASSUME c <= m
               PROVE  SumAt(Points(v), UpTo(v, i + 1)) = UsedOf(used, v.start, LastOf(v, c, m) + 1)
    OBVIOUS
  <2>1. b \in Int /\ c = b + v.width /\ v.start <= b /\ c \in Int /\ i + 1 \in Nat
    BY <1>0, <1>2
  <2>2. b <= m /\ LastOf(v, b, m) + 1 = c
    BY <1>0, <2>1 DEF LastOf
  <2>3. SumAt(Points(v), UpTo(v, i)) = UsedOf(used, v.start, c)
    BY <1>6, <2>2
  <2>4. c \in DOMAIN Points(v) /\ Points(v)[c] = UsedOf(used, c, LastOf(v, c, m) + 1)
    BY <2>1, BarIsUsed
  <2>5. UpTo(v, i + 1) = UpTo(v, i) \cup {c} /\ c \notin UpTo(v, i)
    <3>1. ASSUME NEW d \in DOMAIN Points(v), d <= c PROVE d <= b \/ d = c
      <4>1. PICK j \in Nat : d = Grid(v, j)
        BY PointsOnGrid
      <4>2. /\ j < i + 1 => Grid(v, j) + v.width <= Grid(v, i + 1)
            /\ i + 1 < j => Grid(v, i + 1) + v.width <= Grid(v, j)
        <5>1. j \in Int /\ i + 1 \in Int
          OBVIOUS
        <5> QED BY <1>0, <5>1, GridApart
      <4>3. j < i + 1 \/ j = i + 1 \/ i + 1 < j
        OBVIOUS
      <4>4. d \in Int
        BY <1>2, <4>1
      <4> QED BY <1>0, <2>1, <3>1, <4>1, <4>2, <4>3, <4>4
    <3>2. \A d \in DOMAIN Points(v) : d \in Int
      BY <1>2, PointsOnGrid
    <3>3. \A d \in DOMAIN Points(v) : d <= b => d <= c
      BY <1>0, <2>1, <3>2
    <3>4. ~(c <= b)
      BY <1>0, <2>1
    <3>5. \A d \in DOMAIN Points(v) : d <= c <=> (d <= b \/ d = c)
      <4>1. c <= c
        BY <2>1
      <4> QED BY <3>1, <3>3, <4>1
    <3> HIDE DEF b, c
    <3>6. UpTo(v, i + 1) = {d \in DOMAIN Points(v) : d <= c} /\ UpTo(v, i) = {d \in DOMAIN Points(v) : d <= b}
      BY DEF UpTo, b, c
    <3> QED BY <2>4, <3>4, <3>5, <3>6
  <2>6. IsFiniteSet(UpTo(v, i)) /\ \A d \in UpTo(v, i) : Points(v)[d] \in Int
    BY <1>4, PointsFinite DEF UpTo
  <2>7. SumAt(Points(v), UpTo(v, i) \cup {c}) = Points(v)[c] + SumAt(Points(v), UpTo(v, i))
    BY <1>4, <2>4, <2>5, <2>6, SumAtMore
  <2>8. LastOf(v, c, m) \in Int /\ c <= LastOf(v, c, m)
    BY <1>3, <2>1
  <2> HIDE DEF b, c
  <2>9. UsedOf(used, v.start, LastOf(v, c, m) + 1)
          = UsedOf(used, v.start, c) + UsedOf(used, c, LastOf(v, c, m) + 1)
    <3>1. v.start \in Int /\ v.start <= c /\ c <= LastOf(v, c, m) + 1 /\ LastOf(v, c, m) + 1 \in Int
      BY <1>0, <2>1, <2>8
    <3> QED BY <1>1, <2>1, <3>1, UsedSplits
  <2>10. UsedOf(used, v.start, c) \in Nat /\ UsedOf(used, c, LastOf(v, c, m) + 1) \in Nat
    <3>1. v.start \in Int /\ LastOf(v, c, m) + 1 \in Int
      BY <1>0, <2>8
    <3> QED BY <1>1, <2>1, <3>1, SlotsAre
  <2> QED BY <2>3, <2>4, <2>5, <2>7, <2>9, <2>10
<1> HIDE DEF good
<1>7. k \in good
  BY <1>5, <1>6, NaturalsFromZero
<1> QED BY <1>7 DEF good

LEMMA HoursAddUp == ASSUME ViewsInv, StartsAt > PerHour PROVE WholeHoursAddUp
<1> SUFFICES ASSUME NEW v \in Views, ReadThroughout(v), Aligned(v)
             PROVE  Total(v) = Used(v.start, Max(Within(v)) + 1)
  BY DEF WholeHoursAddUp, Aligned
<1> DEFINE m == Max(Within(v))
<1>1. ReadUpTo(v, m)
  BY ReadUpToLast
<1> HIDE DEF m
<1>0. v.start \in Nat \ {0} /\ v.start \in Int /\ v.width \in Nat \ {0} /\ m \in Nat /\ v.start <= m
  BY <1>1, ViewIs DEF ReadUpTo
<1>2. PICK k \in Int : Grid(v, k) <= m /\ m < Grid(v, k) + v.width
  BY <1>0, GridIs
<1>3. k \in Nat /\ Grid(v, k) \in Int
  <2>1. (k < 0 => Grid(v, k) + v.width <= v.start) /\ Grid(v, k) \in Int
    BY <1>0, GridSide
  <2> QED BY <1>0, <1>2, <2>1
<1>4. LastOf(v, Grid(v, k), m) = m
  BY <1>0, <1>2, <1>3 DEF LastOf
<1>5. UpTo(v, k) = DOMAIN Points(v)
  <2> SUFFICES ASSUME NEW b \in DOMAIN Points(v) PROVE b <= Grid(v, k)
    BY DEF UpTo
  <2>1. PICK j \in Nat : b = Grid(v, j) /\ b <= m
    BY <1>1, PointsOnGrid
  <2>2. /\ k < j => Grid(v, k) + v.width <= Grid(v, j)
        /\ j < k => Grid(v, j) + v.width <= Grid(v, k)
        /\ Grid(v, j) \in Int
    <3>1. j \in Int /\ k \in Int
      OBVIOUS
    <3> QED BY <1>0, <3>1, GridApart
  <2> QED BY <1>0, <1>2, <1>3, <2>1, <2>2
<1>6. SumAt(Points(v), DOMAIN Points(v)) = UsedOf(used, v.start, m + 1)
  BY <1>1, <1>2, <1>3, <1>4, <1>5, BarsUpTo
<1>7. DOMAIN Points(v) # {}
  BY <1>1, <1>2, <1>3, BarIsUsed
<1>8. Total(v) = SumAt(Points(v), DOMAIN Points(v))
  BY <1>7 DEF Total, SumAt
<1> QED BY <1>6, <1>8, UsedIs DEF m

-----------------------------------------------------------------------------
(* The savings panel (Savings): the calendar.                              *)

\* A sum of a sequence is that of a function.
LEMMA SumSeqIs ==
    ASSUME NEW s, IsFiniteSet(DOMAIN s) PROVE SumSeq(s) = SumAt(s, DOMAIN s)
<1> DEFINE D == DOMAIN s
           good == {T \in SUBSET D : FoldFunctionOnSet(+, 0, s, T) = SumAt(s, T)}
<1>1. ASSUME NEW T \in SUBSET D
      PROVE  FoldFunctionOnSet(+, 0, s, T) = OnSetEnd(+, 0, s, T) /\ IsFiniteSet(T)
  BY FunctionFoldStep, FS_Subset
<1>2. {} \in good
  BY <1>1, SumAtEmpty DEF OnSetEnd
<1>3. Grows(AnyOf, D, good)
  <2> SUFFICES ASSUME NEW T \in SUBSET D, T # {}, T \ {AnyOf(T)} \in good PROVE T \in good
    BY DEF Grows
  <2>1. FoldFunctionOnSet(+, 0, s, T) = s[AnyOf(T)] + FoldFunctionOnSet(+, 0, s, T \ {AnyOf(T)})
    BY <1>1 DEF OnSetEnd, AnyOf
  <2>2. SumAt(s, T) = s[AnyOf(T)] + SumAt(s, T \ {AnyOf(T)})
    BY <1>1, SumAtStep
  <2> QED BY <2>1, <2>2
<1> HIDE DEF good, D
<1>4. D \in good
  <2>1. Picks(AnyOf, D)
    BY AnyPicks
  <2>2. IsFiniteSet(D)
    BY DEF D
  <2> QED BY <1>2, <1>3, <2>1, <2>2, FoldInduction
<1>5. FoldFunctionOnSet(+, 0, s, D) = SumAt(s, D)
  BY <1>4 DEF good
<1>6. SumSeq(s) = FoldFunctionOnSet(+, 0, s, D)
  BY DEF SumSeq, FoldSeq, FoldFunction, D
<1> QED BY <1>5, <1>6 DEF D

MonthCount == Len(MonthLengths)

LEMMA MonthsAre ==
    /\ MonthCount \in Nat \ {0} /\ DOMAIN MonthLengths = 1..MonthCount /\ Months = 1..MonthCount
    /\ \A m \in Months : MonthLengths[m] \in Nat \ {0} /\ MonthLengths[m] <= Stride
    /\ \A m \in Months : m < MonthCount => Stride < MonthLengths[m] + MonthLengths[m + 1]
    /\ Stride \in Nat /\ YearStart \in Months
<1>1. MonthLengths \in Seq(Nat \ {0})
  BY SavingsAssumption
<1>2. MonthCount \in Nat /\ DOMAIN MonthLengths = 1..MonthCount
  BY <1>1, LenProperties DEF MonthCount
<1>3. \A m \in 1..MonthCount : MonthLengths[m] \in Nat \ {0}
  BY <1>1, ElementOfSeq DEF MonthCount
<1> QED BY <1>2, <1>3, SavingsAssumption DEF Months, MonthCount

\* Up to a month the days are those of the months before it.
LEMMA FirstIs ==
    ASSUME NEW m \in 1..(MonthCount + 1)
    PROVE  /\ First(m) = SumAt(MonthLengths, 1..(m - 1)) /\ First(m) \in Nat
<1> DEFINE s == SubSeq(MonthLengths, 1, m - 1)
<1>0. MonthCount \in Nat /\ m - 1 \in 0..MonthCount
  BY MonthsAre
<1>1. DOMAIN s = 1..(m - 1) /\ \A i \in 1..(m - 1) : s[i] = MonthLengths[i]
  BY DEF MonthCount
<1>2. IsFiniteSet(1..(m - 1))
  <2>1. 1 \in Int /\ m - 1 \in Int
    BY <1>0
  <2> QED BY <2>1, FS_Interval
<1> HIDE DEF s
<1>3. SumSeq(s) = SumAt(s, 1..(m - 1))
  BY <1>1, <1>2, SumSeqIs
<1>4. SumAt(s, 1..(m - 1)) = SumAt(MonthLengths, 1..(m - 1))
  BY <1>1, <1>2, SumsAgree
<1>5. \A i \in 1..(m - 1) : MonthLengths[i] \in Nat
  BY <1>0, MonthsAre
<1>6. SumAt(MonthLengths, 1..(m - 1)) \in Nat
  BY <1>2, <1>5, SumAtNat
<1> QED BY <1>3, <1>4, <1>6 DEF First, s

LEMMA FirstNext ==
    /\ First(1) = 0
    /\ \A m \in Months : First(m + 1) = First(m) + MonthLengths[m]
    /\ \A m \in 1..(MonthCount + 1) : First(m) \in Nat
<1>0. MonthCount \in Nat \ {0} /\ Months = 1..MonthCount
  BY MonthsAre
<1>1. First(1) = 0
  <2>1. 1 \in 1..(MonthCount + 1) /\ 1..(1 - 1) = {}
    BY <1>0
  <2> QED BY <2>1, FirstIs, SumAtEmpty
<1>2. ASSUME NEW m \in Months PROVE First(m + 1) = First(m) + MonthLengths[m]
  <2>1. /\ m \in 1..(MonthCount + 1) /\ m + 1 \in 1..(MonthCount + 1) /\ m \in Int
        /\ (m + 1) - 1 = m
    BY <1>0
  <2>2. /\ First(m) = SumAt(MonthLengths, 1..(m - 1)) /\ First(m) \in Nat
        /\ First(m + 1) = SumAt(MonthLengths, 1..m)
    BY <2>1, FirstIs
  <2>3. 1..m = (1..(m - 1)) \cup {m} /\ m \notin 1..(m - 1)
    BY <1>0
  <2>4. IsFiniteSet(1..(m - 1))
    <3>1. 1 \in Int /\ m - 1 \in Int
      BY <2>1
    <3> QED BY <3>1, FS_Interval
  <2>5. MonthLengths[m] \in Int /\ \A i \in 1..(m - 1) : MonthLengths[i] \in Int
    BY <1>0, MonthsAre
  <2>6. SumAt(MonthLengths, (1..(m - 1)) \cup {m}) = MonthLengths[m] + SumAt(MonthLengths, 1..(m - 1))
    BY <2>3, <2>4, <2>5, SumAtMore
  <2>7. PICK a \in Nat, b \in Int : a = First(m) /\ b = MonthLengths[m]
    BY <2>2, <2>5
  <2>8. First(m + 1) = b + a
    BY <2>2, <2>3, <2>6, <2>7
  <2> QED BY <2>7, <2>8
<1> QED BY <1>1, <1>2, FirstIs

\* Months begin in their order.
LEMMA FirstGrows ==
    ASSUME NEW l \in 1..(MonthCount + 1), NEW m \in 1..(MonthCount + 1), l < m
    PROVE  First(l) + MonthLengths[l] <= First(m)
<1> DEFINE Later(n) == l < n /\ n <= MonthCount + 1 => First(l) + MonthLengths[l] <= First(n)
           good == {n \in Nat : Later(n)}
<1>0. MonthCount \in Nat \ {0} /\ Months = 1..MonthCount
  BY MonthsAre
<1>1. 0 \in good
  OBVIOUS
<1>2. ASSUME NEW n \in Nat, n \in good PROVE n + 1 \in good
  <2> SUFFICES ASSUME l < n + 1, n + 1 <= MonthCount + 1
               PROVE  First(l) + MonthLengths[l] <= First(n + 1)
    OBVIOUS
  <2>1. n \in Months /\ l \in Months /\ n \in 1..(MonthCount + 1)
    BY <1>0
  <2>2. First(n + 1) = First(n) + MonthLengths[n] /\ First(n) \in Nat /\ First(l) \in Nat
        /\ MonthLengths[n] \in Nat /\ MonthLengths[l] \in Nat
    BY <2>1, FirstNext, MonthsAre
  <2>3. CASE l < n
    <3>1. First(l) + MonthLengths[l] <= First(n)
      BY <1>0, <1>2, <2>1, <2>3
    <3> QED BY <2>2, <3>1
  <2>4. CASE l = n
    BY <2>2, <2>4
  <2> QED BY <2>1, <2>3, <2>4
<1> HIDE DEF good
<1>3. m \in good
  BY <1>1, <1>2, NaturalsFromZero
<1> QED BY <1>3 DEF good

DayCount == First(MonthCount + 1)

LEMMA DaysAre ==
    /\ DayCount \in Nat \ {0} /\ Days = 0..(DayCount - 1) /\ Cardinality(Days) = DayCount
    /\ IsFiniteSet(Days)
<1>0. MonthCount \in Nat \ {0} /\ Months = 1..MonthCount /\ DOMAIN MonthLengths = 1..MonthCount
  BY MonthsAre
<1>1. MonthCount + 1 \in 1..(MonthCount + 1) /\ (MonthCount + 1) - 1 = MonthCount
  BY <1>0
<1>2. IsFiniteSet(1..MonthCount)
  <2>1. 1 \in Int /\ MonthCount \in Int
    BY <1>0
  <2> QED BY <2>1, FS_Interval
<1>3. SumSeq(MonthLengths) = DayCount /\ DayCount \in Nat
  BY <1>0, <1>1, <1>2, FirstIs, SumSeqIs DEF DayCount
<1>4. DayCount # 0
  <2>1. 1 \in Months /\ 1 \in 1..(MonthCount + 1) /\ 1 < MonthCount + 1
    BY <1>0
  <2>2. First(1) + MonthLengths[1] <= DayCount /\ First(1) = 0 /\ MonthLengths[1] \in Nat \ {0}
    BY <1>1, <2>1, FirstGrows, FirstNext, MonthsAre DEF DayCount
  <2> QED BY <1>3, <2>2
<1>5. Days = 0..(DayCount - 1)
  BY <1>3 DEF Days
<1>6. IsFiniteSet(0..(DayCount - 1)) /\ Cardinality(0..(DayCount - 1)) = DayCount
  <2>1. 0 \in Int /\ DayCount - 1 \in Int
    BY <1>3
  <2>2. /\ IsFiniteSet(0..(DayCount - 1))
        /\ Cardinality(0..(DayCount - 1)) = IF 0 > DayCount - 1 THEN 0 ELSE (DayCount - 1) - 0 + 1
    BY <2>1, FS_Interval, Zenon
  <2> QED BY <1>3, <1>4, <2>2
<1> QED BY <1>3, <1>4, <1>5, <1>6

\* Every day is one of one month.
LEMMA MonthOfDay ==
    ASSUME NEW d \in Days
    PROVE  /\ MonthOf[d] \in Months
           /\ First(MonthOf[d]) <= d /\ d < First(MonthOf[d] + 1)
           /\ \A m \in Months : First(m) <= d /\ d < First(m + 1) => m = MonthOf[d]
<1> DEFINE Holds(m) == First(m) <= d /\ d < First(m) + MonthLengths[m]
           Reached(n) == n <= MonthCount + 1 /\ n >= 1 /\ d < First(n) => \E m \in Months : Holds(m)
           good == {n \in Nat : Reached(n)}
<1>0. /\ MonthCount \in Nat \ {0} /\ Months = 1..MonthCount /\ DayCount \in Nat \ {0}
      /\ d \in Nat /\ d < DayCount
  BY MonthsAre, DaysAre
<1>1. 0 \in good
  OBVIOUS
<1>2. ASSUME NEW n \in Nat, n \in good PROVE n + 1 \in good
  <2> SUFFICES ASSUME n + 1 <= MonthCount + 1, d < First(n + 1) PROVE \E m \in Months : Holds(m)
    OBVIOUS
  <2>1. CASE n = 0
    BY <1>0, <2>1, FirstNext
  <2>2. CASE n # 0
    <3>1. n \in Months /\ n \in 1..(MonthCount + 1)
      BY <1>0, <2>2
    <3>2. First(n + 1) = First(n) + MonthLengths[n] /\ First(n) \in Nat
      BY <3>1, FirstNext
    <3>3. CASE First(n) <= d
      BY <3>1, <3>2, <3>3
    <3>4. CASE ~(First(n) <= d)
      <4>1. d < First(n)
        BY <1>0, <3>2, <3>4
      <4> QED BY <1>2, <3>1, <4>1
    <3> QED BY <3>3, <3>4
  <2> QED BY <2>1, <2>2
<1> HIDE DEF good
<1>3. MonthCount + 1 \in good
  <2>1. MonthCount + 1 \in Nat
    BY <1>0
  <2> QED BY <1>1, <1>2, <2>1, NaturalsFromZero
<1>4. \E m \in Months : Holds(m)
  BY <1>0, <1>3 DEF good, DayCount
<1>5. MonthOf[d] = CHOOSE m \in Months : Holds(m)
  BY DEF MonthOf
<1>6. MonthOf[d] \in Months /\ Holds(MonthOf[d])
  BY <1>4, <1>5
<1>7. \A m \in Months : First(m + 1) = First(m) + MonthLengths[m] /\ m \in 1..(MonthCount + 1) /\ m \in Int
                        /\ First(m) \in Nat /\ First(m + 1) \in Nat
  <2>1. \A m \in Months : m \in 1..(MonthCount + 1) /\ m \in Int /\ m + 1 \in 1..(MonthCount + 1)
    BY <1>0
  <2> QED BY <2>1, FirstNext
<1>8. ASSUME NEW m \in Months, Holds(m) PROVE m = MonthOf[d]
  <2> DEFINE l == MonthOf[d]
  <2>1. l < m => First(l) + MonthLengths[l] <= First(m)
    BY <1>6, <1>7, FirstGrows
  <2>2. m < l => First(m) + MonthLengths[m] <= First(l)
    BY <1>6, <1>7, FirstGrows
  <2>3. l \in Int /\ m \in Int /\ First(l) \in Nat /\ First(m) \in Nat
    BY <1>6, <1>7
  <2>4. MonthLengths[l] \in Nat /\ MonthLengths[m] \in Nat
    BY <1>6, MonthsAre
  <2> HIDE DEF l
  <2>5. Holds(l)
    BY <1>6 DEF l
  <2>6. ~(l < m) /\ ~(m < l)
    BY <1>0, <1>8, <2>1, <2>2, <2>3, <2>4, <2>5
  <2> QED BY <2>3, <2>6 DEF l
<1> QED BY <1>6, <1>7, <1>8

\* A step of Stride days lands on the first day of the next month.
LEMMA NextMonthIs ==
    ASSUME NEW d \in Days
    PROVE  /\ NextMonth(d) = First(MonthOf[d] + 1) /\ NextMonth(d) \in (d + 1)..DayCount
<1> DEFINE m == MonthOf[d]
           s == First(m) + Stride
<1>0. /\ MonthCount \in Nat \ {0} /\ Months = 1..MonthCount /\ DayCount \in Nat \ {0}
      /\ d \in Nat /\ Days = 0..(DayCount - 1) /\ Cardinality(Days) = DayCount /\ Stride \in Nat
  BY MonthsAre, DaysAre
<1>1. m \in Months /\ First(m) <= d /\ d < First(m + 1)
  BY MonthOfDay
<1>2. First(m) \in Nat /\ First(m + 1) = First(m) + MonthLengths[m] /\ MonthLengths[m] \in Nat
      /\ MonthLengths[m] <= Stride /\ m + 1 \in 1..(MonthCount + 1) /\ m \in Int
  <2>1. m \in 1..(MonthCount + 1) /\ m + 1 \in 1..(MonthCount + 1) /\ m \in Int
    BY <1>0, <1>1
  <2> QED BY <1>1, <2>1, FirstNext, MonthsAre
<1>3. MonthStart(d) = First(m)
  BY DEF MonthStart
<1>4. NextMonth(d) = MonthStart(s)
  BY <1>3 DEF NextMonth
<1>5. First(m + 1) <= DayCount
  <2>1. m + 1 = MonthCount + 1 \/ m + 1 < MonthCount + 1
    BY <1>0, <1>1
  <2>2. CASE m + 1 = MonthCount + 1
    BY <1>0, <1>2, <2>2 DEF DayCount
  <2>3. CASE m + 1 < MonthCount + 1
    <3>1. First(m + 1) + MonthLengths[m + 1] <= DayCount
      <4>1. MonthCount + 1 \in 1..(MonthCount + 1)
        BY <1>0
      <4> QED BY <1>2, <2>3, <4>1, FirstGrows DEF DayCount
    <3>2. m + 1 \in Months
      BY <1>0, <1>1, <2>3
    <3>3. MonthLengths[m + 1] \in Nat /\ First(m + 1) \in Nat
      BY <1>2, <3>2, FirstNext, MonthsAre
    <3> QED BY <1>0, <3>1, <3>3
  <2> QED BY <2>1, <2>2, <2>3
<1>6. MonthStart(s) = First(m + 1)
  <2>1. CASE m = MonthCount
    <3>1. s >= DayCount
      BY <1>0, <1>2, <2>1 DEF DayCount
    <3>2. s \notin Days
      BY <1>0, <1>2, <3>1
    <3> QED BY <1>0, <2>1, <3>2 DEF MonthStart, DayCount
  <2>2. CASE m # MonthCount
    <3>1. m < MonthCount /\ m + 1 \in Months
      BY <1>0, <1>1, <2>2
    <3>2. Stride < MonthLengths[m] + MonthLengths[m + 1] /\ MonthLengths[m + 1] \in Nat
          /\ First((m + 1) + 1) = First(m + 1) + MonthLengths[m + 1]
      BY <1>1, <3>1, FirstNext, MonthsAre
    <3>3. First(m + 1) <= s /\ s < First((m + 1) + 1)
      BY <1>0, <1>2, <3>2, SMTT(30)
    <3>4. First((m + 1) + 1) <= DayCount
      <4>1. (m + 1) + 1 = MonthCount + 1 \/ (m + 1) + 1 < MonthCount + 1
        BY <1>0, <3>1
      <4>2. CASE (m + 1) + 1 = MonthCount + 1
        BY <1>0, <1>2, <3>2, <4>2 DEF DayCount
      <4>3. CASE (m + 1) + 1 < MonthCount + 1
        <5>1. (m + 1) + 1 \in Months /\ (m + 1) + 1 \in 1..(MonthCount + 1) /\ MonthCount + 1 \in 1..(MonthCount + 1)
          BY <1>0, <3>1, <4>3
        <5>2. First((m + 1) + 1) + MonthLengths[(m + 1) + 1] <= DayCount
          BY <4>3, <5>1, FirstGrows DEF DayCount
        <5>3. MonthLengths[(m + 1) + 1] \in Nat /\ First((m + 1) + 1) \in Nat
          BY <5>1, FirstNext, MonthsAre
        <5> QED BY <1>0, <5>2, <5>3
      <4> QED BY <4>1, <4>2, <4>3
    <3>5. s \in Days
      <4>1. s \in Nat /\ First((m + 1) + 1) \in Nat /\ DayCount \in Nat
        <5>1. s \in Nat /\ DayCount \in Nat
          BY <1>0, <1>2
        <5>2. (m + 1) + 1 \in 1..(MonthCount + 1)
          BY <1>0, <3>1
        <5> QED BY <5>1, <5>2, FirstNext
      <4>2. s < DayCount
        BY <3>3, <3>4, <4>1
      <4> HIDE DEF s, m
      <4> QED BY <1>0, <4>1, <4>2
    <3>6. m + 1 = MonthOf[s]
      BY <3>1, <3>3, <3>5, MonthOfDay
    <3> HIDE DEF m, s
    <3> QED BY <3>5, <3>6 DEF MonthStart
  <2> QED BY <2>1, <2>2
<1> HIDE DEF s, m
<1>7. First(m + 1) \in (d + 1)..DayCount
  BY <1>0, <1>1, <1>2, <1>5
<1> QED BY <1>4, <1>6, <1>7 DEF m

-----------------------------------------------------------------------------
(* What the days used.                                                     *)

Amounts == [TOU_PERIODS -> Nat]
Totals == [solar : Nat \cup {None}, grid : Nat]
RollUps == [TOU_PERIODS -> [solar : Nat, grid : Nat]]
UsedReports == [solar : Amounts \cup {None}, grid : Amounts, unsplit : Nat]

\* One side of a roll-up, period by period, and its sum.
SideOf(row, side) == [p \in TOU_PERIODS |-> row[p][side]]
RowSum(row, side) == SumAt(SideOf(row, side), TOU_PERIODS)

\* A day that was read has half a day behind it, and a roll-up holds no more than
\* the day used.
SavingsInv ==
    /\ clock \in Nat /\ clock <= 2 * Cardinality(Days) - 1
    /\ total \in [Days -> Totals \cup {None}] /\ split \in [Days -> RollUps \cup {None}]
    /\ \A d \in Days : total[d] # None => 2 * d + 1 <= clock
    /\ \A d \in Days : split[d] # None => total[d] # None /\ RowSum(split[d], "grid") <= total[d].grid

LEMMA PeriodsAre ==
    /\ IsFiniteSet(TOU_PERIODS) /\ IsFiniteSet(SEASONS)
    /\ \A f : (\A p \in TOU_PERIODS : f[p] \in Int) =>
         SumAt(f, TOU_PERIODS) = f["on_peak"] + f["off_peak"] + f["super_off_peak"]
    /\ \A f : (\A s \in SEASONS : f[s] \in Int) =>
         SumAt(f, SEASONS) = f["winter"] + f["summer"]
<1>1. TOU_PERIODS = {"off_peak", "super_off_peak"} \cup {"on_peak"} /\ SEASONS = {"summer"} \cup {"winter"}
  BY DEF TOU_PERIODS, SEASONS
<1>2. {"off_peak", "super_off_peak"} = {"super_off_peak"} \cup {"off_peak"}
  OBVIOUS
<1>3. IsFiniteSet({"super_off_peak"}) /\ IsFiniteSet({"summer"})
  BY FS_Singleton
<1>4. IsFiniteSet({"off_peak", "super_off_peak"})
  BY <1>2, <1>3, FS_AddElement
<1>5. IsFiniteSet(TOU_PERIODS) /\ IsFiniteSet(SEASONS)
  BY <1>1, <1>3, <1>4, FS_AddElement
<1>6. ASSUME NEW f, NEW x, f[x] \in Int PROVE SumAt(f, {x}) = f[x]
  <2>1. SumAt(f, {} \cup {x}) = f[x] + SumAt(f, {})
    BY <1>6, FS_EmptySet, SumAtMore
  <2>2. {} \cup {x} = {x} /\ SumAt(f, {}) = 0
    BY SumAtEmpty
  <2> QED BY <1>6, <2>1, <2>2
<1>7. ASSUME NEW f, \A p \in TOU_PERIODS : f[p] \in Int
      PROVE  SumAt(f, TOU_PERIODS) = f["on_peak"] + f["off_peak"] + f["super_off_peak"]
  <2>1. f["on_peak"] \in Int /\ f["off_peak"] \in Int /\ f["super_off_peak"] \in Int
    BY <1>7 DEF TOU_PERIODS
  <2>2. SumAt(f, {"super_off_peak"}) = f["super_off_peak"]
    BY <1>6, <2>1
  <2>3. SumAt(f, {"super_off_peak"} \cup {"off_peak"}) = f["off_peak"] + SumAt(f, {"super_off_peak"})
    <3>1. "off_peak" \notin {"super_off_peak"} /\ \A y \in {"super_off_peak"} : f[y] \in Int
      BY <2>1
    <3> QED BY <1>3, <2>1, <3>1, SumAtMore
  <2>4. SumAt(f, {"off_peak", "super_off_peak"} \cup {"on_peak"}) = f["on_peak"] + SumAt(f, {"off_peak", "super_off_peak"})
    <3>1. "on_peak" \notin {"off_peak", "super_off_peak"} /\ \A y \in {"off_peak", "super_off_peak"} : f[y] \in Int
      BY <2>1
    <3> QED BY <1>4, <2>1, <3>1, SumAtMore
  <2> QED BY <1>1, <1>2, <2>1, <2>2, <2>3, <2>4
<1>8. ASSUME NEW f, \A s \in SEASONS : f[s] \in Int
      PROVE  SumAt(f, SEASONS) = f["winter"] + f["summer"]
  <2>1. f["winter"] \in Int /\ f["summer"] \in Int
    BY <1>8 DEF SEASONS
  <2>2. SumAt(f, {"summer"}) = f["summer"]
    BY <1>6, <2>1
  <2>3. SumAt(f, {"summer"} \cup {"winter"}) = f["winter"] + SumAt(f, {"summer"})
    <3>1. "winter" \notin {"summer"} /\ \A y \in {"summer"} : f[y] \in Int
      BY <2>1
    <3> QED BY <1>3, <2>1, <3>1, SumAtMore
  <2> QED BY <1>1, <2>2, <2>3
<1> QED BY <1>5, <1>7, <1>8

LEMMA RowSums ==
    ASSUME NEW row \in RollUps, NEW side \in {"solar", "grid"}
    PROVE  /\ \A p \in TOU_PERIODS : SideOf(row, side)[p] = row[p][side] /\ row[p][side] \in Nat
           /\ RowSum(row, side) \in Nat
           /\ Sum(TOU_PERIODS, LAMBDA p : row[p][side]) = RowSum(row, side)
<1> DEFINE at(p) == row[p][side]
<1>1. \A p \in TOU_PERIODS : SideOf(row, side)[p] = row[p][side] /\ row[p][side] \in Nat
  BY DEF SideOf, RollUps
<1>2. RowSum(row, side) \in Nat
  BY <1>1, PeriodsAre, SumAtNat DEF RowSum
<1>3. OnSet(at, TOU_PERIODS) = SideOf(row, side)
  BY DEF OnSet, SideOf
<1>4. MapThenSumSet(at, TOU_PERIODS) = RowSum(row, side)
  <2> HIDE DEF at
  <2>1. MapThenSumSet(at, TOU_PERIODS) = SumAt(OnSet(at, TOU_PERIODS), TOU_PERIODS)
    BY PeriodsAre, SumIsOfFunction
  <2> QED BY <1>3, <2>1 DEF RowSum
<1>5. Sum(TOU_PERIODS, LAMBDA p : row[p][side]) = MapThenSumSet(at, TOU_PERIODS)
  BY DEF Sum
<1> QED BY <1>1, <1>2, <1>4, <1>5

\* The roll-up of what a day used.
RowOf(e) == [p \in TOU_PERIODS |-> [solar |-> IF e.solar = None THEN 0 ELSE e.solar[p], grid |-> e.grid[p]]]

LEMMA RowOfIs ==
    ASSUME NEW e \in Energies
    PROVE  /\ e \in UsedReports /\ RowOf(e) \in RollUps
           /\ RowSum(RowOf(e), "grid") = Sum(TOU_PERIODS, LAMBDA p : e.grid[p])
           /\ Sum(TOU_PERIODS, LAMBDA p : e.grid[p]) \in Nat
           /\ e.solar # None => Sum(TOU_PERIODS, LAMBDA p : e.solar[p]) \in Nat
<1>1. e \in UsedReports
  BY SavingsAssumption DEF UsedReports, Amounts
<1>2. e.solar \in Amounts \cup {None} /\ e.grid \in Amounts /\ e.unsplit \in Nat
  BY <1>1 DEF UsedReports
<1>3. RowOf(e) \in RollUps
  <2>1. \A p \in TOU_PERIODS : (IF e.solar = None THEN 0 ELSE e.solar[p]) \in Nat /\ e.grid[p] \in Nat
    BY <1>2 DEF Amounts
  <2> QED BY <2>1 DEF RowOf, RollUps
<1>4. \A p \in TOU_PERIODS : SideOf(RowOf(e), "grid")[p] = e.grid[p] /\ e.grid[p] \in Nat
  BY <1>2 DEF SideOf, RowOf, Amounts
<1>5. RowSum(RowOf(e), "grid") = SumAt(e.grid, TOU_PERIODS)
  BY <1>4, PeriodsAre, SumsAgree DEF RowSum
<1>6. SumAt(e.grid, TOU_PERIODS) \in Nat
  BY <1>4, PeriodsAre, SumAtNat
<1>7. e.solar # None => SumAt(e.solar, TOU_PERIODS) \in Nat
  <2>1. e.solar # None => \A p \in TOU_PERIODS : e.solar[p] \in Nat
    BY <1>2 DEF Amounts
  <2> QED BY <2>1, PeriodsAre, SumAtNat
<1>8. /\ Sum(TOU_PERIODS, LAMBDA p : e.grid[p]) = SumAt(e.grid, TOU_PERIODS)
      /\ Sum(TOU_PERIODS, LAMBDA p : e.solar[p]) = SumAt(e.solar, TOU_PERIODS)
  BY DEF Sum, SumAt
<1> QED BY <1>1, <1>3, <1>5, <1>6, <1>7, <1>8

LEMMA SavingsStart == SavingsInit => SavingsInv
<1> SUFFICES ASSUME SavingsInit PROVE SavingsInv
  OBVIOUS
<1>1. 0 <= 2 * Cardinality(Days) - 1
  BY DaysAre
<1> QED BY <1>1 DEF SavingsInit, SavingsInv

LEMMA SavingsStep == ASSUME SavingsInv, [SavingsNext]_savingsVars PROVE SavingsInv'
<1>0. /\ clock \in Nat /\ Cardinality(Days) = DayCount /\ DayCount \in Nat \ {0} /\ Days = 0..(DayCount - 1)
      /\ clock <= 2 * DayCount - 1
  BY DaysAre DEF SavingsInv
<1>1. CASE RecordDay
  <2>1. PICK d \in 0..Today, e \in Energies, rolled \in BOOLEAN :
          /\ total[d] = None
          /\ total' = [total EXCEPT ![d] =
               [solar |-> IF e.solar = None THEN None ELSE Sum(TOU_PERIODS, LAMBDA p : e.solar[p]),
                grid |-> Sum(TOU_PERIODS, LAMBDA p : e.grid[p]) + e.unsplit]]
          /\ split' = IF ~rolled THEN split ELSE [split EXCEPT ![d] = RowOf(e)]
    BY <1>1 DEF RecordDay, RowOf
  <2>2. clock' = clock /\ clock % 2 = 1
    BY <1>1 DEF RecordDay
  <2>3. d \in Days /\ 2 * d + 1 <= clock
    BY <1>0, <2>2 DEF Today
  <2> DEFINE t == [solar |-> IF e.solar = None THEN None ELSE Sum(TOU_PERIODS, LAMBDA p : e.solar[p]),
                   grid |-> Sum(TOU_PERIODS, LAMBDA p : e.grid[p]) + e.unsplit]
  <2>4. t \in Totals /\ t # None /\ RowSum(RowOf(e), "grid") <= t.grid
    <3>1. e.unsplit \in Nat /\ Sum(TOU_PERIODS, LAMBDA p : e.grid[p]) \in Nat
      BY RowOfIs DEF UsedReports
    <3>2. PICK a \in Nat, b \in Nat : a = Sum(TOU_PERIODS, LAMBDA p : e.grid[p]) /\ b = e.unsplit
      BY <3>1
    <3>3. t.grid = a + b /\ RowSum(RowOf(e), "grid") = a
      BY <3>2, RowOfIs
    <3>4. (IF e.solar = None THEN None ELSE Sum(TOU_PERIODS, LAMBDA p : e.solar[p])) \in Nat \cup {None}
      BY RowOfIs
    <3>5. t \in Totals
      BY <3>2, <3>4 DEF Totals
    <3>6. None \notin Totals
      BY SavingsAssumption DEF Totals
    <3> HIDE DEF t
    <3> QED BY <3>3, <3>5, <3>6
  <2>5. total' = [total EXCEPT ![d] = t]
    BY <2>1
  <2> HIDE DEF t
  <2>6. total' \in [Days -> Totals \cup {None}] /\ total'[d] = t /\ \A c \in Days : c # d => total'[c] = total[c]
    BY <2>3, <2>4, <2>5 DEF SavingsInv
  <2>7. RowOf(e) \in RollUps
    BY RowOfIs
  <2>8. /\ split' \in [Days -> RollUps \cup {None}] /\ \A c \in Days : c # d => split'[c] = split[c]
        /\ split'[d] = split[d] \/ split'[d] = RowOf(e)
    BY <2>1, <2>3, <2>7 DEF SavingsInv
  <2>9. \A c \in Days : split'[c] # None => total'[c] # None /\ RowSum(split'[c], "grid") <= total'[c].grid
    <3> SUFFICES ASSUME NEW c \in Days, split'[c] # None
                 PROVE  total'[c] # None /\ RowSum(split'[c], "grid") <= total'[c].grid
      OBVIOUS
    <3>1. CASE c # d
      BY <2>6, <2>8, <3>1 DEF SavingsInv
    <3>2. CASE c = d
      <4>1. split[d] = None
        BY <2>1, <2>3 DEF SavingsInv
      <4>2. split'[d] = RowOf(e)
        BY <2>8, <3>2, <4>1
      <4> QED BY <2>4, <2>6, <3>2, <4>2
    <3> QED BY <3>1, <3>2
  <2>10. \A c \in Days : total'[c] # None => 2 * c + 1 <= clock'
    BY <2>2, <2>3, <2>6 DEF SavingsInv
  <2>11. clock' \in Nat /\ clock' <= 2 * Cardinality(Days) - 1
    BY <1>0, <2>2
  <2> QED BY <2>6, <2>8, <2>9, <2>10, <2>11 DEF SavingsInv
<1>2. CASE RollUpDay
  <2>1. PICK d \in Days, e \in Energies :
          /\ total[d] # None /\ split[d] = None
          /\ total[d].grid = Sum(TOU_PERIODS, LAMBDA p : e.grid[p]) + e.unsplit
          /\ split' = [split EXCEPT ![d] = RowOf(e)]
    BY <1>2 DEF RollUpDay, RowOf
  <2>2. clock' = clock /\ total' = total
    BY <1>2 DEF RollUpDay
  <2>3. RowOf(e) \in RollUps /\ RowSum(RowOf(e), "grid") <= total[d].grid
    <3>1. PICK a \in Nat, b \in Nat : a = Sum(TOU_PERIODS, LAMBDA p : e.grid[p]) /\ b = e.unsplit
      BY RowOfIs DEF UsedReports
    <3>2. total[d].grid = a + b /\ RowSum(RowOf(e), "grid") = a
      BY <2>1, <3>1, RowOfIs
    <3>3. RowOf(e) \in RollUps
      BY RowOfIs
    <3>4. a <= a + b
      BY <3>1
    <3> QED BY <3>2, <3>3, <3>4
  <2>4. split' \in [Days -> RollUps \cup {None}] /\ split'[d] = RowOf(e) /\ \A c \in Days : c # d => split'[c] = split[c]
    BY <2>1, <2>3 DEF SavingsInv
  <2>5. \A c \in Days : split'[c] # None => total'[c] # None /\ RowSum(split'[c], "grid") <= total'[c].grid
    BY <2>1, <2>2, <2>3, <2>4 DEF SavingsInv
  <2> QED BY <2>2, <2>4, <2>5 DEF SavingsInv
<1>3. CASE HalfDayPasses
  <2>1. clock' = clock + 1 /\ total' = total /\ split' = split /\ clock < 2 * DayCount - 1
    BY <1>0, <1>3 DEF HalfDayPasses
  <2>2. clock' \in Nat /\ clock' <= 2 * Cardinality(Days) - 1
    BY <1>0, <2>1
  <2>3. \A d \in Days : total'[d] # None => 2 * d + 1 <= clock'
    <3>1. \A d \in Days : d \in Int
      BY <1>0
    <3> QED BY <1>0, <2>1, <3>1 DEF SavingsInv
  <2> QED BY <2>1, <2>2, <2>3 DEF SavingsInv
<1>4. CASE UNCHANGED savingsVars
  BY <1>4 DEF savingsVars, SavingsInv
<1> QED BY <1>1, <1>2, <1>3, <1>4 DEF SavingsNext

LEMMA SavingsTyped == ASSUME SavingsInv PROVE SavingsTypeOK
<1>0. /\ clock \in Nat /\ Cardinality(Days) = DayCount /\ DayCount \in Nat \ {0} /\ Days = 0..(DayCount - 1)
      /\ clock <= 2 * Cardinality(Days) - 1
  BY DaysAre DEF SavingsInv
<1>1. clock \in 0..(2 * Cardinality(Days) - 1)
  BY <1>0
<1>2. ASSUME NEW d \in Days
      PROVE  /\ total[d] # None => d <= Today
             /\ split[d] # None => /\ total[d] # None
                                   /\ Sum(TOU_PERIODS, LAMBDA p : split[d][p].grid) <= total[d].grid
  <2>1. total[d] # None => d <= Today
    <3>1. total[d] # None => 2 * d + 1 <= clock
      BY DEF SavingsInv
    <3> QED BY <1>0, <3>1 DEF Today
  <2>2. ASSUME split[d] # None
        PROVE  total[d] # None /\ Sum(TOU_PERIODS, LAMBDA p : split[d][p].grid) <= total[d].grid
    <3>1. split[d] \in RollUps /\ total[d] # None /\ RowSum(split[d], "grid") <= total[d].grid
      BY <2>2 DEF SavingsInv
    <3>2. Sum(TOU_PERIODS, LAMBDA p : split[d][p]["grid"]) = RowSum(split[d], "grid")
      BY <3>1, RowSums
    <3> QED BY <3>1, <3>2
  <2> QED BY <2>1, <2>2
<1> QED BY <1>1, <1>2 DEF SavingsTypeOK

-----------------------------------------------------------------------------
(* The plan of the standard schedule.                                      *)

\* The values of a chain of positions up to N, each followed by a later one.
Chained(f, from, N, stop, entries, next) ==
    \A c \in from..N : f[c] = IF c \in stop THEN <<>> ELSE entries[c] \o f[next[c]]

LEMMA ChainExists ==
    ASSUME NEW N \in Nat, NEW stop, N \in stop, NEW entries, NEW next,
           \A c \in 0..N : c \notin stop => next[c] \in (c + 1)..N
    PROVE  \E f : Chained(f, 0, N, stop, entries, next)
<1> DEFINE Has(n) == n <= N => \E f : Chained(f, N - n, N, stop, entries, next)
           good == {n \in Nat : Has(n)}
<1>1. 0 \in good
  <2>1. Chained([c \in {N} |-> <<>>], N - 0, N, stop, entries, next)
    BY DEF Chained
  <2> QED BY <2>1
<1>2. ASSUME NEW n \in Nat, n \in good PROVE n + 1 \in good
  <2> SUFFICES ASSUME n + 1 <= N
               PROVE  \E f : Chained(f, N - (n + 1), N, stop, entries, next)
    OBVIOUS
  <2>1. PICK f : Chained(f, N - n, N, stop, entries, next)
    BY <1>2
  <2> DEFINE l == N - (n + 1)
             at == IF l \in stop THEN <<>> ELSE entries[l] \o f[next[l]]
             g == [c \in l..N |-> IF c = l THEN at ELSE f[c]]
  <2>2. l \in Nat /\ l \in 0..N /\ N - n = l + 1
    OBVIOUS
  <2> HIDE DEF l, at
  <2>3. g[l] = at /\ \A c \in (l + 1)..N : g[c] = f[c]
    <3>1. l \in l..N /\ \A c \in (l + 1)..N : c \in l..N /\ c # l
      BY <2>2
    <3> QED BY <3>1
  <2> HIDE DEF g
  <2>4. ASSUME NEW c \in l..N
        PROVE  g[c] = IF c \in stop THEN <<>> ELSE entries[c] \o g[next[c]]
    <3>1. c \in 0..N
      BY <2>2
    <3>2. c \notin stop => next[c] \in (l + 1)..N
      BY <2>2, <3>1
    <3>3. c \notin stop => g[next[c]] = f[next[c]]
      BY <2>3, <3>2
    <3>4. CASE c = l
      BY <2>3, <3>3, <3>4 DEF at
    <3>5. CASE c # l
      <4>1. c \in (l + 1)..N
        BY <2>2, <3>5
      <4>2. f[c] = IF c \in stop THEN <<>> ELSE entries[c] \o f[next[c]]
        BY <2>1, <2>2, <4>1 DEF Chained
      <4> QED BY <2>3, <3>3, <4>1, <4>2
    <3> QED BY <3>4, <3>5
  <2> QED BY <2>4 DEF Chained, l
<1> HIDE DEF good
<1>3. N \in good
  BY <1>1, <1>2, NaturalsFromZero
<1>4. \E f : Chained(f, N - N, N, stop, entries, next)
  BY <1>3 DEF good
<1> QED BY <1>4

\* What one month adds to the plan of a window, from a day of it on.
PlanEnd(w) == IF w.end < clock THEN w.end ELSE clock
MonthGrid(w, m) ==
    Sum({d \in DaysIn(w) : split[d] # None /\ MonthOf[d] = m},
        LAMBDA d : Sum(TOU_PERIODS, LAMBDA p : split[d][p].grid))
EntryEnd(w, c) == IF 2 * NextMonth(c) < PlanEnd(w) THEN 2 * NextMonth(c) ELSE PlanEnd(w)
EntryAt(w, c) ==
    [month |-> MonthOf[c], days |-> BillingDays(c, EntryEnd(w, c)), grid |-> MonthGrid(w, MonthOf[c])]
EntriesAt(w, c) == IF BillingDays(c, EntryEnd(w, c)) > 0 THEN <<EntryAt(w, c)>> ELSE <<>>
PlanFrom(w) ==
    CHOOSE f : f = [c \in 0..Cardinality(Days) |->
      IF 2 * c >= PlanEnd(w) THEN <<>> ELSE EntriesAt(w, c) \o f[NextMonth(c)]]

LEMMA PlanIs == ASSUME NEW w PROVE TierPlan(w) = PlanFrom(w)[w.start \div 2]
BY DEF TierPlan, PlanFrom, EntriesAt, EntryAt, EntryEnd, MonthGrid, PlanEnd

LEMMA PlanSteps ==
    ASSUME SavingsInv, NEW w, w.end \in Int
    PROVE  \A c \in 0..DayCount :
             PlanFrom(w)[c] = IF 2 * c >= PlanEnd(w) THEN <<>>
                              ELSE EntriesAt(w, c) \o PlanFrom(w)[NextMonth(c)]
<1> DEFINE N == DayCount
           stop == {c \in 0..N : 2 * c >= PlanEnd(w)}
           entries == [c \in 0..N |-> EntriesAt(w, c)]
           next == [c \in 0..N |-> NextMonth(c)]
           Body(f) == [c \in 0..N |->
             IF 2 * c >= PlanEnd(w) THEN <<>> ELSE EntriesAt(w, c) \o f[NextMonth(c)]]
<1>0. /\ clock \in Nat /\ N \in Nat \ {0} /\ Days = 0..(N - 1) /\ Cardinality(Days) = N
      /\ clock <= 2 * N - 1
  BY DaysAre DEF SavingsInv
<1>1. PlanEnd(w) \in Int /\ PlanEnd(w) <= clock
  BY <1>0 DEF PlanEnd
<1>2. N \in stop
  BY <1>0, <1>1
<1>3. \A c \in 0..N : c \notin stop => NextMonth(c) \in (c + 1)..N
  <2> SUFFICES ASSUME NEW c \in 0..N, c \notin stop PROVE NextMonth(c) \in (c + 1)..N
    OBVIOUS
  <2>1. c \in Days
    BY <1>0, <1>2
  <2> QED BY <2>1, NextMonthIs
<1>4. /\ \A c \in 0..N : c \in stop <=> 2 * c >= PlanEnd(w)
      /\ \A c \in 0..N : entries[c] = EntriesAt(w, c) /\ next[c] = NextMonth(c)
  OBVIOUS
<1> HIDE DEF stop, entries, next
<1>5. PICK f : Chained(f, 0, N, stop, entries, next)
  <2>1. N \in Nat /\ \A c \in 0..N : c \notin stop => next[c] \in (c + 1)..N
    BY <1>0, <1>3, <1>4
  <2> HIDE DEF N
  <2> QED BY <1>2, <2>1, ChainExists
<1> DEFINE g == [c \in 0..N |-> f[c]]
<1>6. \A c \in 0..N : g[c] = IF 2 * c >= PlanEnd(w) THEN <<>> ELSE EntriesAt(w, c) \o g[NextMonth(c)]
  <2> SUFFICES ASSUME NEW c \in 0..N
               PROVE  g[c] = IF 2 * c >= PlanEnd(w) THEN <<>> ELSE EntriesAt(w, c) \o g[NextMonth(c)]
    OBVIOUS
  <2>1. f[c] = IF c \in stop THEN <<>> ELSE entries[c] \o f[next[c]]
    BY <1>5 DEF Chained
  <2>2. c \notin stop => g[NextMonth(c)] = f[NextMonth(c)]
    <3>1. c \notin stop => NextMonth(c) \in 0..N
      BY <1>0, <1>3
    <3> QED BY <3>1
  <2>3. g[c] = f[c]
    OBVIOUS
  <2> HIDE DEF g, N
  <2> QED BY <1>4, <2>1, <2>2, <2>3
<1>7. g = Body(g)
  <2>1. g = [c \in 0..N |-> g[c]]
    OBVIOUS
  <2> HIDE DEF g
  <2> QED BY <1>6, <2>1
<1>8. PlanFrom(w) = CHOOSE h : h = Body(h)
  BY <1>0 DEF PlanFrom
<1> HIDE DEF g, N
<1>9. PlanFrom(w) = Body(PlanFrom(w))
  <2> DEFINE Good(h) == h = Body(h)
  <2>1. PlanFrom(w) = CHOOSE h : Good(h)
    BY <1>8
  <2>2. Good(g)
    BY <1>7
  <2> HIDE DEF Good
  <2>3. Good(PlanFrom(w))
    BY <2>1, <2>2
  <2> QED BY <2>3 DEF Good
<1> DEFINE P == PlanFrom(w)
<1>10. P = Body(P)
  BY <1>9
<1> HIDE DEF P
<1>11. \A c \in 0..N : P[c] = IF 2 * c >= PlanEnd(w) THEN <<>> ELSE EntriesAt(w, c) \o P[NextMonth(c)]
  <2> SUFFICES ASSUME NEW c \in 0..N
               PROVE P[c] = IF 2 * c >= PlanEnd(w) THEN <<>> ELSE EntriesAt(w, c) \o P[NextMonth(c)]
    OBVIOUS
  <2>1. Body(P)[c] = IF 2 * c >= PlanEnd(w) THEN <<>> ELSE EntriesAt(w, c) \o P[NextMonth(c)]
    OBVIOUS
  <2> HIDE DEF Body
  <2> QED BY <1>10, <2>1
<1> QED BY <1>11 DEF P, N

\* A sum of a sequence, its first element apart.
LEMMA SumFirst ==
    ASSUME NEW x \in Int, NEW s \in Seq(Int)
    PROVE  SumSeq(<<x>> \o s) = x + SumSeq(s) /\ SumSeq(s) \in Int
<1> DEFINE n == Len(s)
           t == <<x>> \o s
           good == {k \in Nat : k <= n => SumAt(t, 1..(k + 1)) = x + SumAt(s, 1..k)}
<1>1. n \in Nat /\ DOMAIN s = 1..n /\ \A i \in 1..n : s[i] \in Int
  BY LenProperties, ElementOfSeq
<1>2. DOMAIN t = 1..(n + 1) /\ t[1] = x /\ \A i \in 1..n : t[i + 1] = s[i]
  OBVIOUS
<1> HIDE DEF t, n
<1>3. ASSUME NEW k \in Int PROVE IsFiniteSet(1..k)
  <2>1. 1 \in Int
    OBVIOUS
  <2> QED BY <2>1, FS_Interval
<1>4. \A k \in Nat : k <= n => SumAt(s, 1..k) \in Int
  <2> SUFFICES ASSUME NEW k \in Nat, k <= n PROVE SumAt(s, 1..k) \in Int
    OBVIOUS
  <2>1. IsFiniteSet(1..k) /\ \A i \in 1..k : s[i] \in Int
    BY <1>1, <1>3
  <2> QED BY <2>1, SumAtOne
<1>5. 0 \in good
  <2>1. 1..(0 + 1) = {} \cup {1} /\ 1..0 = {}
    OBVIOUS
  <2>2. SumAt(t, {} \cup {1}) = t[1] + SumAt(t, {})
    BY <1>2, FS_EmptySet, SumAtMore
  <2>3. SumAt(t, {}) = 0 /\ SumAt(s, {}) = 0
    BY SumAtEmpty
  <2> QED BY <1>2, <2>1, <2>2, <2>3
<1>6. ASSUME NEW k \in Nat, k \in good PROVE k + 1 \in good
  <2> SUFFICES ASSUME k + 1 <= n PROVE SumAt(t, 1..((k + 1) + 1)) = x + SumAt(s, 1..(k + 1))
    OBVIOUS
  <2>1. /\ 1..((k + 1) + 1) = (1..(k + 1)) \cup {(k + 1) + 1} /\ (k + 1) + 1 \notin 1..(k + 1)
        /\ 1..(k + 1) = (1..k) \cup {k + 1} /\ k + 1 \notin 1..k
    OBVIOUS
  <2>2. k + 1 \in 1..n /\ \A i \in 1..k : i \in 1..n
    BY <1>1
  <2>3. t[(k + 1) + 1] = s[k + 1] /\ s[k + 1] \in Int /\ \A i \in 1..k : s[i] \in Int
    BY <1>1, <1>2, <2>2
  <2>4. \A i \in 1..(k + 1) : t[i] \in Int
    <3> SUFFICES ASSUME NEW i \in 1..(k + 1) PROVE t[i] \in Int
      OBVIOUS
    <3>1. CASE i = 1
      BY <1>2, <3>1
    <3>2. CASE i # 1
      <4>1. i - 1 \in 1..n /\ (i - 1) + 1 = i
        BY <1>1, <3>2
      <4>2. t[(i - 1) + 1] = s[i - 1]
        BY <1>2, <4>1
      <4> QED BY <1>1, <4>1, <4>2
    <3> QED BY <3>1, <3>2
  <2>5. IsFiniteSet(1..(k + 1)) /\ IsFiniteSet(1..k)
    BY <1>3
  <2>6. SumAt(t, (1..(k + 1)) \cup {(k + 1) + 1}) = t[(k + 1) + 1] + SumAt(t, 1..(k + 1))
    BY <2>1, <2>3, <2>4, <2>5, SumAtMore
  <2>7. SumAt(s, (1..k) \cup {k + 1}) = s[k + 1] + SumAt(s, 1..k)
    BY <2>1, <2>3, <2>5, SumAtMore
  <2>8. SumAt(t, 1..(k + 1)) = x + SumAt(s, 1..k) /\ SumAt(s, 1..k) \in Int
    BY <1>1, <1>4, <1>6
  <2>9. PICK a \in Int, b \in Int : a = s[k + 1] /\ b = SumAt(s, 1..k)
    BY <2>3, <2>8
  <2>10. a + (x + b) = x + (a + b)
    OBVIOUS
  <2>11. SumAt(t, 1..((k + 1) + 1)) = a + (x + b)
    BY <2>1, <2>3, <2>6, <2>8, <2>9
  <2>12. SumAt(s, 1..(k + 1)) = a + b
    BY <2>1, <2>7, <2>9
  <2> QED BY <2>10, <2>11, <2>12
<1> HIDE DEF good
<1>7. n \in good
  BY <1>1, <1>5, <1>6, NaturalsFromZero
<1>8. SumAt(t, 1..(n + 1)) = x + SumAt(s, 1..n)
  BY <1>1, <1>7 DEF good
<1>9. SumSeq(t) = SumAt(t, 1..(n + 1))
  <2>1. IsFiniteSet(DOMAIN t)
    BY <1>1, <1>2, <1>3
  <2> QED BY <1>2, <2>1, SumSeqIs
<1>10. SumSeq(s) = SumAt(s, 1..n)
  <2>1. IsFiniteSet(DOMAIN s)
    BY <1>1, <1>3
  <2> QED BY <1>1, <2>1, SumSeqIs
<1> QED BY <1>1, <1>4, <1>8, <1>9, <1>10 DEF t

\* A value of every month of a plan, and its sum.
PlanEntries == [month : Months, days : Nat, grid : Nat]
PlanSum(V, plan) == SumSeq([i \in DOMAIN plan |-> V[plan[i]]])

LEMMA PlanSumFirst ==
    ASSUME NEW V \in [PlanEntries -> Int], NEW e \in PlanEntries, NEW rest \in Seq(PlanEntries)
    PROVE  /\ PlanSum(V, <<e>> \o rest) = V[e] + PlanSum(V, rest)
           /\ PlanSum(V, rest) \in Int
<1> DEFINE plan == <<e>> \o rest
           s == [i \in DOMAIN rest |-> V[rest[i]]]
<1>1. /\ Len(rest) \in Nat /\ DOMAIN rest = 1..Len(rest)
      /\ \A i \in 1..Len(rest) : rest[i] \in PlanEntries
  BY LenProperties, ElementOfSeq
<1>2. s \in Seq(Int)
  <2>1. \A i \in 1..Len(rest) : V[rest[i]] \in Int
    BY <1>1
  <2> QED BY <1>1, <2>1
<1>3. [i \in DOMAIN plan |-> V[plan[i]]] = <<V[e]>> \o s
  <2>1. DOMAIN plan = 1..(Len(rest) + 1) /\ plan[1] = e
        /\ \A i \in 2..(Len(rest) + 1) : plan[i] = rest[i - 1]
    BY <1>1
  <2>2. DOMAIN (<<V[e]>> \o s) = 1..(Len(rest) + 1) /\ (<<V[e]>> \o s)[1] = V[e]
        /\ \A i \in 2..(Len(rest) + 1) : (<<V[e]>> \o s)[i] = s[i - 1]
    <3>1. Len(s) = Len(rest)
      BY <1>1
    <3> HIDE DEF s
    <3> QED BY <1>2, <3>1
  <2>3. \A i \in 2..(Len(rest) + 1) : s[i - 1] = V[rest[i - 1]]
    BY <1>1
  <2>4. <<V[e]>> \o s = [i \in 1..(Len(rest) + 1) |-> (<<V[e]>> \o s)[i]]
    <3>1. <<V[e]>> \o s \in Seq(Int)
      BY <1>2
    <3> HIDE DEF s
    <3> QED BY <1>1, <2>2, <3>1
  <2> HIDE DEF s, plan
  <2>5. \A i \in 1..(Len(rest) + 1) : (<<V[e]>> \o s)[i] = V[plan[i]]
    <3> SUFFICES ASSUME NEW i \in 1..(Len(rest) + 1) PROVE (<<V[e]>> \o s)[i] = V[plan[i]]
      OBVIOUS
    <3>1. i = 1 \/ i \in 2..(Len(rest) + 1)
      BY <1>1
    <3> QED BY <2>1, <2>2, <2>3, <3>1
  <2> QED BY <2>1, <2>4, <2>5
<1>4. V[e] \in Int
  OBVIOUS
<1> HIDE DEF s
<1>5. SumSeq(<<V[e]>> \o s) = V[e] + SumSeq(s) /\ SumSeq(s) \in Int
  BY <1>2, <1>4, SumFirst
<1> QED BY <1>3, <1>5 DEF PlanSum, s

LEMMA PlanSumEmpty == ASSUME NEW V PROVE PlanSum(V, <<>>) = 0
<1> DEFINE s == [i \in DOMAIN <<>> |-> V[<<>>[i]]]
<1>1. DOMAIN s = {}
  OBVIOUS
<1> HIDE DEF s
<1>2. SumSeq(s) = 0
  BY <1>1, FS_EmptySet, SumSeqIs, SumAtEmpty
<1> QED BY <1>2 DEF PlanSum, s

-----------------------------------------------------------------------------
(* What a window's roll-ups hold.                                          *)

LEMMA FirstMonotone ==
    ASSUME NEW l \in 1..(MonthCount + 1), NEW m \in 1..(MonthCount + 1), l <= m
    PROVE  First(l) <= First(m) /\ First(m) \in 0..DayCount
<1>0. MonthCount \in Nat \ {0} /\ Months = 1..MonthCount
  BY MonthsAre
<1>1. ASSUME NEW i \in 1..(MonthCount + 1), NEW j \in 1..(MonthCount + 1), i <= j
      PROVE  First(i) <= First(j)
  <2>1. First(i) \in Nat /\ First(j) \in Nat
    BY FirstNext
  <2>2. CASE i = j
    BY <2>1, <2>2
  <2>3. CASE i # j
    <3>1. i \in Months /\ i < j
      BY <1>0, <1>1, <2>3
    <3>2. First(i) + MonthLengths[i] <= First(j) /\ MonthLengths[i] \in Nat
      BY <3>1, FirstGrows, MonthsAre
    <3> QED BY <2>1, <3>2
  <2> QED BY <2>2, <2>3
<1>2. MonthCount + 1 \in 1..(MonthCount + 1) /\ m <= MonthCount + 1
  BY <1>0
<1>3. First(m) <= DayCount /\ First(m) \in Nat /\ DayCount \in Nat
  BY <1>1, <1>2, FirstNext, DaysAre DEF DayCount
<1> QED BY <1>1, <1>3

\* The days from the first of the next month on are those of later months.
LEMMA NextMonthSplits ==
    ASSUME NEW c \in Days, NEW d \in Days
    PROVE  d >= NextMonth(c) <=> MonthOf[d] > MonthOf[c]
<1> DEFINE l == MonthOf[c]
           m == MonthOf[d]
<1>0. /\ l \in Months /\ m \in Months /\ First(m) <= d /\ d < First(m + 1)
      /\ NextMonth(c) = First(l + 1) /\ d \in Nat
  BY MonthOfDay, NextMonthIs, DaysAre
<1> HIDE DEF l, m
<1>1. /\ l \in Int /\ m \in Int /\ l + 1 \in 1..(MonthCount + 1) /\ m \in 1..(MonthCount + 1)
      /\ m + 1 \in 1..(MonthCount + 1)
  BY <1>0, MonthsAre
<1>2. First(l + 1) \in Nat /\ First(m) \in Nat /\ First(m + 1) \in Nat
  BY <1>1, FirstNext
<1>3. CASE m > l
  <2>1. First(l + 1) <= First(m)
    BY <1>1, <1>3, FirstMonotone
  <2>2. d >= First(l + 1)
    BY <1>0, <1>2, <2>1
  <2> QED BY <1>0, <1>3, <2>2 DEF l, m
<1>4. CASE ~(m > l)
  <2>1. First(m + 1) <= First(l + 1)
    BY <1>1, <1>4, FirstMonotone
  <2>2. ~(d >= First(l + 1))
    BY <1>0, <1>2, <2>1
  <2> QED BY <1>0, <1>4, <2>2 DEF l, m
<1> QED BY <1>3, <1>4

\* Days of a window with a roll-up, in one season, and what each used.
Rolled(w) == {d \in DaysIn(w) : split[d] # None}
SeasonDays(w, s) == {d \in Rolled(w) : SeasonFor(MonthOf[d]) = s}
PeriodUse(p, side) == [d \in Days |-> IF split[d] = None THEN 0 ELSE split[d][p][side]]
DayUse(side) == [d \in Days |-> IF split[d] = None THEN 0 ELSE RowSum(split[d], side)]

LEMMA RolledAre ==
    ASSUME NEW w
    PROVE  /\ Rolled(w) \subseteq Days /\ DaysIn(w) \subseteq Days
           /\ IsFiniteSet(Rolled(w)) /\ \A S \in SUBSET Days : IsFiniteSet(S)
           /\ Rolled(w) = SeasonDays(w, "winter") \cup SeasonDays(w, "summer")
           /\ SeasonDays(w, "winter") \cap SeasonDays(w, "summer") = {}
<1>1. Rolled(w) \subseteq Days /\ DaysIn(w) \subseteq Days
  BY DEF Rolled, DaysIn
<1>2. \A S \in SUBSET Days : IsFiniteSet(S)
  BY DaysAre, FS_Subset
<1>3. \A d \in Rolled(w) : SeasonFor(MonthOf[d]) \in {"winter", "summer"}
  BY DEF SeasonFor
<1> QED BY <1>1, <1>2, <1>3 DEF SeasonDays

LEMMA UseIs ==
    ASSUME SavingsInv, NEW side \in {"solar", "grid"}
    PROVE  \A d \in Days :
             /\ \A p \in TOU_PERIODS : PeriodUse(p, side)[d] \in Nat
             /\ DayUse(side)[d] \in Nat
             /\ DayUse(side)[d] = PeriodUse("on_peak", side)[d] + PeriodUse("off_peak", side)[d]
                                    + PeriodUse("super_off_peak", side)[d]
<1> SUFFICES ASSUME NEW d \in Days
             PROVE  /\ \A p \in TOU_PERIODS : PeriodUse(p, side)[d] \in Nat
                    /\ DayUse(side)[d] \in Nat
                    /\ DayUse(side)[d] = PeriodUse("on_peak", side)[d] + PeriodUse("off_peak", side)[d]
                                           + PeriodUse("super_off_peak", side)[d]
  OBVIOUS
<1>1. CASE split[d] = None
  BY <1>1 DEF PeriodUse, DayUse
<1>2. CASE split[d] # None
  <2> DEFINE row == split[d]
             F == SideOf(row, side)
  <2>1. row \in RollUps
    BY <1>2 DEF SavingsInv
  <2>2. /\ \A p \in TOU_PERIODS : F[p] = row[p][side] /\ row[p][side] \in Nat
        /\ RowSum(row, side) \in Nat
    BY <2>1, RowSums
  <2>3. RowSum(row, side) = SumAt(F, TOU_PERIODS)
    BY DEF RowSum
  <2> HIDE DEF row, F
  <2>4. SumAt(F, TOU_PERIODS) = F["on_peak"] + F["off_peak"] + F["super_off_peak"]
    <3>1. \A p \in TOU_PERIODS : F[p] \in Int
      BY <2>2
    <3> QED BY <3>1, PeriodsAre
  <2>5. {"on_peak", "off_peak", "super_off_peak"} = TOU_PERIODS
    BY DEF TOU_PERIODS
  <2>6. /\ \A p \in TOU_PERIODS : PeriodUse(p, side)[d] = row[p][side]
        /\ DayUse(side)[d] = RowSum(row, side)
    BY <1>2 DEF PeriodUse, DayUse, row
  <2> QED BY <2>2, <2>3, <2>4, <2>5, <2>6
<1> QED BY <1>1, <1>2

\* Whatever is summed of the periods is summed of the days.
LEMMA UseAddsUp ==
    ASSUME SavingsInv, NEW side \in {"solar", "grid"}, NEW S \in SUBSET Days
    PROVE  /\ \A p \in TOU_PERIODS : SumAt(PeriodUse(p, side), S) \in Nat
           /\ SumAt(DayUse(side), S) \in Nat
           /\ SumAt(DayUse(side), S) =
                SumAt(PeriodUse("on_peak", side), S) + SumAt(PeriodUse("off_peak", side), S)
                  + SumAt(PeriodUse("super_off_peak", side), S)
<1> DEFINE A == PeriodUse("on_peak", side)
           B == PeriodUse("off_peak", side)
           C == PeriodUse("super_off_peak", side)
           D == DayUse(side)
           E == [d \in Days |-> A[d] + B[d]]
<1>0. IsFiniteSet(S)
  BY DaysAre, FS_Subset
<1>1. {"on_peak", "off_peak", "super_off_peak"} = TOU_PERIODS
  BY DEF TOU_PERIODS
<1>2. \A d \in S : A[d] \in Nat /\ B[d] \in Nat /\ C[d] \in Nat /\ D[d] \in Nat
                     /\ D[d] = A[d] + B[d] + C[d]
  BY <1>1, UseIs
<1>3. ASSUME NEW p \in TOU_PERIODS PROVE SumAt(PeriodUse(p, side), S) \in Nat
  <2>1. \A d \in S : PeriodUse(p, side)[d] \in Nat
    BY UseIs
  <2> QED BY <1>0, <2>1, SumAtNat
<1>4. \A d \in S : E[d] = A[d] + B[d]
  OBVIOUS
<1> HIDE DEF A, B, C, D, E
<1>5. SumAt(A, S) \in Nat /\ SumAt(B, S) \in Nat /\ SumAt(C, S) \in Nat /\ SumAt(D, S) \in Nat
  BY <1>0, <1>2, SumAtNat
<1>6. SumAt(E, S) = SumAt(A, S) + 1 * SumAt(B, S)
  <2>1. \A d \in S : A[d] \in Int /\ B[d] \in Int /\ E[d] = A[d] + 1 * B[d]
    BY <1>2, <1>4
  <2>2. 1 \in Int
    OBVIOUS
  <2> QED BY <1>0, <2>1, <2>2, SumAtLinear
<1>7. SumAt(D, S) = SumAt(E, S) + 1 * SumAt(C, S)
  <2>1. \A d \in S : E[d] \in Int /\ C[d] \in Int /\ D[d] = E[d] + 1 * C[d]
    BY <1>2, <1>4
  <2>2. 1 \in Int
    OBVIOUS
  <2> QED BY <1>0, <2>1, <2>2, SumAtLinear
<1>8. SumAt(D, S) = SumAt(A, S) + SumAt(B, S) + SumAt(C, S)
  BY <1>5, <1>6, <1>7
<1> QED BY <1>3, <1>5, <1>8 DEF A, B, C, D

\* Sums of what the model reads of a roll-up.
LEMMA PeriodSum ==
    ASSUME SavingsInv, NEW side \in {"solar", "grid"}, NEW p \in TOU_PERIODS,
           NEW S \in SUBSET Days, \A d \in S : split[d] # None
    PROVE  Sum(S, LAMBDA d : split[d][p][side]) = SumAt(PeriodUse(p, side), S)
<1> DEFINE at(d) == split[d][p][side]
<1>0. IsFiniteSet(S)
  BY DaysAre, FS_Subset
<1>1. \A d \in S : OnSet(at, S)[d] = PeriodUse(p, side)[d]
  BY DEF OnSet, PeriodUse
<1>2. Sum(S, LAMBDA d : split[d][p][side]) = MapThenSumSet(at, S)
  BY DEF Sum
<1> HIDE DEF at
<1>3. MapThenSumSet(at, S) = SumAt(OnSet(at, S), S)
  BY <1>0, SumIsOfFunction
<1>4. SumAt(OnSet(at, S), S) = SumAt(PeriodUse(p, side), S)
  <2> DEFINE F == OnSet(at, S)
             G == PeriodUse(p, side)
  <2>1. \A d \in S : F[d] = G[d]
    BY <1>1
  <2> HIDE DEF F, G
  <2>2. SumAt(F, S) = SumAt(G, S)
    BY <1>0, <2>1, SumsAgree
  <2> QED BY <2>2 DEF F, G
<1> QED BY <1>2, <1>3, <1>4

LEMMA DaySum ==
    ASSUME SavingsInv, NEW S \in SUBSET Days, \A d \in S : split[d] # None
    PROVE  Sum(S, LAMBDA d : Sum(TOU_PERIODS, LAMBDA p : split[d][p].grid)) = SumAt(DayUse("grid"), S)
<1> DEFINE at(d) == Sum(TOU_PERIODS, LAMBDA p : split[d][p].grid)
<1>0. IsFiniteSet(S)
  BY DaysAre, FS_Subset
<1>1. ASSUME NEW d \in S PROVE at(d) = DayUse("grid")[d]
  <2>1. split[d] \in RollUps /\ d \in Days /\ split[d] # None
    BY DEF SavingsInv
  <2>2. Sum(TOU_PERIODS, LAMBDA p : split[d][p]["grid"]) = RowSum(split[d], "grid")
    BY <2>1, RowSums
  <2> QED BY <2>1, <2>2 DEF DayUse
<1>2. Sum(S, LAMBDA d : Sum(TOU_PERIODS, LAMBDA p : split[d][p].grid)) = MapThenSumSet(at, S)
  BY DEF Sum
<1> HIDE DEF at
<1>3. MapThenSumSet(at, S) = SumAt(OnSet(at, S), S)
  BY <1>0, SumIsOfFunction
<1>4. SumAt(OnSet(at, S), S) = SumAt(DayUse("grid"), S)
  <2> DEFINE F == OnSet(at, S)
             G == DayUse("grid")
  <2>1. \A d \in S : F[d] = G[d]
    BY <1>1 DEF OnSet
  <2> HIDE DEF F, G
  <2>2. SumAt(F, S) = SumAt(G, S)
    BY <1>0, <2>1, SumsAgree
  <2> QED BY <2>2 DEF F, G
<1> QED BY <1>2, <1>3, <1>4

LEMMA SharesAre ==
    ASSUME SavingsInv, NEW w, NEW p \in TOU_PERIODS, NEW side \in {"solar", "grid"}
    PROVE  /\ \A s \in SEASONS : TouTotals(w)[p].seasons[s][side] = SumAt(PeriodUse(p, side), SeasonDays(w, s))
           /\ TouTotals(w)[p][side] = SumAt(PeriodUse(p, side), Rolled(w))
<1> DEFINE of(q, s, i) == Sum({d \in DaysIn(w) : split[d] # None /\ SeasonFor(MonthOf[d]) = s},
                              LAMBDA d : split[d][q][i])
           U == PeriodUse(p, side)
           cell == [solar |-> of(p, "winter", "solar") + of(p, "summer", "solar"),
                    grid |-> of(p, "winter", "grid") + of(p, "summer", "grid"),
                    seasons |-> [s \in SEASONS |-> [solar |-> of(p, s, "solar"), grid |-> of(p, s, "grid")]]]
<1>1. TouTotals(w)[p] = cell
  BY DEF TouTotals
<1>2. ASSUME NEW s PROVE of(p, s, side) = SumAt(U, SeasonDays(w, s))
  <2>1. {d \in DaysIn(w) : split[d] # None /\ SeasonFor(MonthOf[d]) = s} = SeasonDays(w, s)
    BY DEF SeasonDays, Rolled
  <2>2. SeasonDays(w, s) \in SUBSET Days /\ \A d \in SeasonDays(w, s) : split[d] # None
    BY RolledAre DEF SeasonDays, Rolled
  <2>3. Sum(SeasonDays(w, s), LAMBDA d : split[d][p][side]) = SumAt(U, SeasonDays(w, s))
    BY <2>2, PeriodSum
  <2> QED BY <2>1, <2>3
<1> HIDE DEF of
<1>3. \A s \in SEASONS : cell.seasons[s][side] = of(p, s, side)
  OBVIOUS
<1>4. cell[side] = of(p, "winter", side) + of(p, "summer", side)
  OBVIOUS
<1> HIDE DEF cell, U
<1>5. SumAt(U, Rolled(w)) = SumAt(U, SeasonDays(w, "winter")) + SumAt(U, SeasonDays(w, "summer"))
  <2>1. \A d \in Rolled(w) : U[d] \in Int
    BY UseIs, RolledAre DEF U
  <2>2. /\ SeasonDays(w, "winter") \in SUBSET Days /\ SeasonDays(w, "summer") \in SUBSET Days
        /\ SeasonDays(w, "winter") \cup SeasonDays(w, "summer") = Rolled(w)
        /\ SeasonDays(w, "winter") \cap SeasonDays(w, "summer") = {}
    BY RolledAre DEF SeasonDays
  <2>3. IsFiniteSet(SeasonDays(w, "winter")) /\ IsFiniteSet(SeasonDays(w, "summer"))
    BY <2>2, RolledAre
  <2> QED BY <2>1, <2>2, <2>3, SumAtUnion
<1> QED BY <1>1, <1>2, <1>3, <1>4, <1>5 DEF U

LEMMA ClassifiedIs ==
    ASSUME SavingsInv, NEW w, NEW side \in {"solar", "grid"}
    PROVE  /\ Classified(TouTotals(w), side) = SumAt(DayUse(side), Rolled(w))
           /\ SumAt(DayUse(side), Rolled(w)) \in Nat
<1> DEFINE at(p) == TouTotals(w)[p][side]
           F == OnSet(at, TOU_PERIODS)
<1>1. \A p \in TOU_PERIODS : F[p] = SumAt(PeriodUse(p, side), Rolled(w)) /\ F[p] \in Nat
  <2> SUFFICES ASSUME NEW p \in TOU_PERIODS
               PROVE  F[p] = SumAt(PeriodUse(p, side), Rolled(w)) /\ F[p] \in Nat
    OBVIOUS
  <2>1. F[p] = TouTotals(w)[p][side]
    BY DEF OnSet
  <2>2. Rolled(w) \in SUBSET Days
    BY RolledAre
  <2>3. SumAt(PeriodUse(p, side), Rolled(w)) \in Nat
    BY <2>2, UseAddsUp
  <2> HIDE DEF F
  <2> QED BY <2>1, <2>3, SharesAre
<1>2. Classified(TouTotals(w), side) = MapThenSumSet(at, TOU_PERIODS)
  BY DEF Classified, Sum
<1> HIDE DEF at
<1>3. MapThenSumSet(at, TOU_PERIODS) = SumAt(F, TOU_PERIODS)
  BY PeriodsAre, SumIsOfFunction
<1> HIDE DEF F
<1>4. SumAt(F, TOU_PERIODS) = F["on_peak"] + F["off_peak"] + F["super_off_peak"]
  <2>1. \A p \in TOU_PERIODS : F[p] \in Int
    BY <1>1
  <2> QED BY <2>1, PeriodsAre
<1>5. "on_peak" \in TOU_PERIODS /\ "off_peak" \in TOU_PERIODS /\ "super_off_peak" \in TOU_PERIODS
  BY DEF TOU_PERIODS
<1>6. Rolled(w) \in SUBSET Days
  BY RolledAre
<1>7. /\ SumAt(DayUse(side), Rolled(w)) =
           SumAt(PeriodUse("on_peak", side), Rolled(w)) + SumAt(PeriodUse("off_peak", side), Rolled(w))
             + SumAt(PeriodUse("super_off_peak", side), Rolled(w))
      /\ SumAt(DayUse(side), Rolled(w)) \in Nat
  BY <1>6, UseAddsUp
<1> QED BY <1>1, <1>2, <1>3, <1>4, <1>5, <1>7

LEMMA MonthGridIs ==
    ASSUME SavingsInv, NEW w, NEW m
    PROVE  /\ MonthGrid(w, m) = SumAt(DayUse("grid"), {d \in Rolled(w) : MonthOf[d] = m})
           /\ MonthGrid(w, m) \in Nat
<1> DEFINE S == {d \in Rolled(w) : MonthOf[d] = m}
<1>1. S \in SUBSET Days /\ \A d \in S : split[d] # None
  BY RolledAre DEF Rolled
<1>2. {d \in DaysIn(w) : split[d] # None /\ MonthOf[d] = m} = S
  BY DEF Rolled
<1> HIDE DEF S
<1>3. Sum(S, LAMBDA d : Sum(TOU_PERIODS, LAMBDA p : split[d][p].grid)) = SumAt(DayUse("grid"), S)
  BY <1>1, DaySum
<1>4. SumAt(DayUse("grid"), S) \in Nat
  BY <1>1, UseAddsUp
<1> QED BY <1>2, <1>3, <1>4 DEF MonthGrid, S

\* Every window begins on a day of the model or when its days are over.
LEMMA WindowsAre ==
    ASSUME SavingsInv, NEW w \in Windows
    PROVE  /\ w.start \in Nat /\ w.end \in Nat /\ w.start \div 2 \in 0..DayCount
           /\ w # RetainedWindow <=> w \in {DateWindow(d) : d \in 0..Today}
                                           \cup {MonthWindow(m) : m \in Months} \cup {YearWindow}
<1>0. /\ clock \in Nat /\ DayCount \in Nat \ {0} /\ Days = 0..(DayCount - 1) /\ Cardinality(Days) = DayCount
      /\ clock <= 2 * DayCount - 1
  BY DaysAre DEF SavingsInv
<1>1. ASSUME NEW d \in 0..Today, w = DateWindow(d)
      PROVE  /\ w.start \in Nat /\ w.end \in Nat /\ w.start \div 2 \in 0..DayCount
             /\ w # RetainedWindow
  <2>1. w.start = 2 * d /\ w.end = 2 * d + 2
    BY <1>1 DEF DateWindow
  <2>2. RetainedWindow.start = clock - 2 * Retention /\ RetainedWindow.end = clock + 1
    BY DEF RetainedWindow
  <2>3. d \in Nat /\ 2 * d <= clock /\ Retention \in Nat
    BY <1>0, SavingsAssumption DEF Today
  <2>4. ~(2 * d = clock - 2 * Retention /\ 2 * d + 2 = clock + 1)
    BY <1>0, <2>3
  <2> QED BY <1>0, <2>1, <2>2, <2>3, <2>4
<1>2. ASSUME NEW a \in 0..DayCount, NEW b \in 0..DayCount, w = [start |-> 2 * a, end |-> 2 * b]
      PROVE  /\ w.start \in Nat /\ w.end \in Nat /\ w.start \div 2 \in 0..DayCount
             /\ w # RetainedWindow
  <2>1. w.start = 2 * a /\ w.end = 2 * b
    BY <1>2
  <2>2. RetainedWindow.start = clock - 2 * Retention /\ RetainedWindow.end = clock + 1
    BY DEF RetainedWindow
  <2>3. Retention \in Nat
    BY SavingsAssumption
  <2>4. ~(2 * a = clock - 2 * Retention /\ 2 * b = clock + 1)
    BY <1>0, <2>3
  <2> QED BY <1>0, <2>1, <2>2, <2>4
<1>3. ASSUME NEW m \in Months, w = MonthWindow(m)
      PROVE  \E a, b \in 0..DayCount : w = [start |-> 2 * a, end |-> 2 * b]
  <2>1. First(m) + MonthLengths[m] = First(m + 1)
    BY FirstNext
  <2>2. m \in 1..(MonthCount + 1) /\ m + 1 \in 1..(MonthCount + 1) /\ m <= m /\ m + 1 <= m + 1
    BY MonthsAre
  <2>3. First(m) \in 0..DayCount /\ First(m + 1) \in 0..DayCount
    BY <2>2, FirstMonotone
  <2> QED BY <1>3, <2>1, <2>3 DEF MonthWindow
<1>4. ASSUME w = YearWindow
      PROVE  \E a, b \in 0..DayCount : w = [start |-> 2 * a, end |-> 2 * b]
  <2>1. YearStart \in 1..(MonthCount + 1) /\ YearStart <= YearStart
    BY MonthsAre
  <2>2. First(YearStart) \in 0..DayCount /\ DayCount \in 0..DayCount
    BY <1>0, <2>1, FirstMonotone
  <2> QED BY <1>0, <1>4, <2>2 DEF YearWindow
<1>5. ASSUME w = RetainedWindow, clock >= 2 * Retention
      PROVE  w.start \in Nat /\ w.end \in Nat /\ w.start \div 2 \in 0..DayCount
  <2>1. w.start = clock - 2 * Retention /\ w.end = clock + 1
    BY <1>5 DEF RetainedWindow
  <2>2. Retention \in Nat
    BY SavingsAssumption
  <2> QED BY <1>0, <1>5, <2>1, <2>2
<1>6. w \in {DateWindow(d) : d \in 0..Today} \cup {MonthWindow(m) : m \in Months} \cup {YearWindow}
        \/ (w = RetainedWindow /\ clock >= 2 * Retention)
  BY DEF Windows
<1>7. w \in {DateWindow(d) : d \in 0..Today} \cup {MonthWindow(m) : m \in Months} \cup {YearWindow}
      => /\ w.start \in Nat /\ w.end \in Nat /\ w.start \div 2 \in 0..DayCount
         /\ w # RetainedWindow
  <2>1. ASSUME NEW d \in 0..Today, w = DateWindow(d)
        PROVE  /\ w.start \in Nat /\ w.end \in Nat /\ w.start \div 2 \in 0..DayCount
               /\ w # RetainedWindow
    BY <1>1, <2>1
  <2>2. ASSUME NEW m \in Months, w = MonthWindow(m)
        PROVE  /\ w.start \in Nat /\ w.end \in Nat /\ w.start \div 2 \in 0..DayCount
               /\ w # RetainedWindow
    BY <1>2, <1>3, <2>2
  <2>3. w = YearWindow => /\ w.start \in Nat /\ w.end \in Nat /\ w.start \div 2 \in 0..DayCount
                          /\ w # RetainedWindow
    BY <1>2, <1>4
  <2> QED BY <2>1, <2>2, <2>3
<1> QED BY <1>5, <1>6, <1>7

-----------------------------------------------------------------------------
(* Every kilowatt-hour has a block.                                        *)

\* A position is good when all the later ones are.
Descends(N, good) == \A c \in 0..N : (\A x \in (c + 1)..N : x \in good) => c \in good

LEMMA FromTheLast ==
    ASSUME NEW N \in Nat, NEW good, Descends(N, good) PROVE 0..N \subseteq good
<1> DEFINE tail == {n \in Nat : \A c \in 0..N : c + n >= N => c \in good}
<1>1. 0 \in tail
  <2> SUFFICES ASSUME NEW c \in 0..N, c + 0 >= N PROVE c \in good
    OBVIOUS
  <2>1. (c + 1)..N = {}
    OBVIOUS
  <2> QED BY <2>1 DEF Descends
<1>2. ASSUME NEW n \in Nat, n \in tail PROVE n + 1 \in tail
  <2> SUFFICES ASSUME NEW c \in 0..N, c + (n + 1) >= N PROVE c \in good
    OBVIOUS
  <2>1. \A x \in (c + 1)..N : x \in 0..N /\ x + n >= N
    OBVIOUS
  <2>2. \A x \in (c + 1)..N : x \in good
    BY <1>2, <2>1
  <2> QED BY <2>2 DEF Descends
<1> HIDE DEF tail
<1>3. N \in tail
  BY <1>1, <1>2, NaturalsFromZero
<1> QED BY <1>3 DEF tail

LEMMA PlanEndIs ==
    ASSUME SavingsInv, NEW w \in Windows
    PROVE  /\ PlanEnd(w) \in Nat /\ PlanEnd(w) <= clock /\ PlanEnd(w) <= w.end
           /\ PlanEnd(w) = w.end \/ PlanEnd(w) = clock
<1>1. w.end \in Nat /\ clock \in Nat
  BY WindowsAre DEF SavingsInv
<1> QED BY <1>1 DEF PlanEnd

LEMMA EntryIs ==
    ASSUME SavingsInv, NEW w \in Windows, NEW c \in 0..DayCount, 2 * c < PlanEnd(w)
    PROVE  /\ c \in Days /\ NextMonth(c) \in (c + 1)..DayCount
           /\ EntryAt(w, c) \in PlanEntries /\ EntriesAt(w, c) = <<EntryAt(w, c)>>
<1>0. /\ clock \in Nat /\ DayCount \in Nat \ {0} /\ Days = 0..(DayCount - 1)
      /\ clock <= 2 * DayCount - 1
  BY DaysAre DEF SavingsInv
<1>1. PlanEnd(w) \in Nat /\ PlanEnd(w) <= clock
  BY PlanEndIs
<1>2. c \in Days
  BY <1>0, <1>1
<1>3. NextMonth(c) \in (c + 1)..DayCount /\ MonthOf[c] \in Months
  BY <1>2, NextMonthIs, MonthOfDay
<1>4. EntryEnd(w, c) \in Nat /\ EntryEnd(w, c) > 2 * c
  BY <1>0, <1>1, <1>3 DEF EntryEnd
<1>5. BillingDays(c, EntryEnd(w, c)) \in Nat \ {0}
  <2> DEFINE e == EntryEnd(w, c)
  <2>1. e \in Nat /\ e > 2 * c
    BY <1>4
  <2> HIDE DEF e
  <2>2. e \div 2 - c + (e % 2) \in Nat \ {0}
    BY <1>0, <2>1
  <2> QED BY <2>2 DEF BillingDays, e
<1>6. MonthGrid(w, MonthOf[c]) \in Nat
  BY MonthGridIs
<1> QED BY <1>2, <1>3, <1>5, <1>6 DEF EntryAt, EntriesAt, PlanEntries

LEMMA PlanTyped ==
    ASSUME SavingsInv, NEW w \in Windows
    PROVE  \A c \in 0..DayCount : PlanFrom(w)[c] \in Seq(PlanEntries)
<1> DEFINE good == {c \in 0..DayCount : PlanFrom(w)[c] \in Seq(PlanEntries)}
<1>0. DayCount \in Nat
  BY DaysAre
<1>1. w.end \in Int /\ PlanEnd(w) \in Nat
  BY WindowsAre, PlanEndIs
<1>2. Descends(DayCount, good)
  <2> SUFFICES ASSUME NEW c \in 0..DayCount, \A x \in (c + 1)..DayCount : x \in good
               PROVE  c \in good
    BY DEF Descends
  <2>1. PlanFrom(w)[c] = IF 2 * c >= PlanEnd(w) THEN <<>>
                         ELSE EntriesAt(w, c) \o PlanFrom(w)[NextMonth(c)]
    BY <1>1, PlanSteps
  <2>2. CASE 2 * c >= PlanEnd(w)
    <3>1. PlanFrom(w)[c] = <<>>
      BY <2>1, <2>2
    <3>2. PlanFrom(w)[c] \in Seq(PlanEntries)
      BY <3>1
    <3> QED BY <3>2
  <2>3. CASE ~(2 * c >= PlanEnd(w))
    <3>1. 2 * c < PlanEnd(w)
      BY <1>0, <1>1, <2>3
    <3>2. /\ NextMonth(c) \in (c + 1)..DayCount
          /\ EntryAt(w, c) \in PlanEntries /\ EntriesAt(w, c) = <<EntryAt(w, c)>>
      BY <3>1, EntryIs
    <3>3. PlanFrom(w)[NextMonth(c)] \in Seq(PlanEntries)
      BY <3>2
    <3> HIDE DEF good
    <3>4. PlanFrom(w)[c] \in Seq(PlanEntries)
      BY <2>1, <2>3, <3>2, <3>3
    <3> QED BY <3>4 DEF good
  <2> QED BY <2>2, <2>3
<1> HIDE DEF good
<1>3. 0..DayCount \subseteq good
  BY <1>0, <1>2, FromTheLast
<1> QED BY <1>3 DEF good

\* The plan of a window up to a position, one month at a time.
LEMMA PlanSumStep ==
    ASSUME SavingsInv, NEW w \in Windows, NEW c \in 0..DayCount, NEW V \in [PlanEntries -> Int]
    PROVE  /\ PlanSum(V, PlanFrom(w)[c]) \in Int
           /\ 2 * c >= PlanEnd(w) => PlanSum(V, PlanFrom(w)[c]) = 0
           /\ 2 * c < PlanEnd(w) =>
                PlanSum(V, PlanFrom(w)[c]) = V[EntryAt(w, c)] + PlanSum(V, PlanFrom(w)[NextMonth(c)])
<1>0. DayCount \in Nat
  BY DaysAre
<1>1. w.end \in Int /\ PlanEnd(w) \in Nat
  BY WindowsAre, PlanEndIs
<1>2. PlanFrom(w)[c] = IF 2 * c >= PlanEnd(w) THEN <<>>
                       ELSE EntriesAt(w, c) \o PlanFrom(w)[NextMonth(c)]
  BY <1>1, PlanSteps
<1>3. CASE 2 * c >= PlanEnd(w)
  <2>1. PlanSum(V, PlanFrom(w)[c]) = 0
    BY <1>2, <1>3, PlanSumEmpty
  <2> QED BY <1>0, <1>1, <1>3, <2>1
<1>4. CASE ~(2 * c >= PlanEnd(w))
  <2>1. 2 * c < PlanEnd(w)
    BY <1>0, <1>1, <1>4
  <2>2. /\ NextMonth(c) \in 0..DayCount
        /\ EntryAt(w, c) \in PlanEntries /\ EntriesAt(w, c) = <<EntryAt(w, c)>>
    BY <1>0, <2>1, EntryIs
  <2>3. PlanFrom(w)[NextMonth(c)] \in Seq(PlanEntries)
    BY <2>2, PlanTyped
  <2>4. /\ PlanSum(V, PlanFrom(w)[c]) = V[EntryAt(w, c)] + PlanSum(V, PlanFrom(w)[NextMonth(c)])
        /\ PlanSum(V, PlanFrom(w)[NextMonth(c)]) \in Int
    BY <1>2, <1>4, <2>2, <2>3, PlanSumFirst
  <2>5. V[EntryAt(w, c)] \in Int
    BY <2>2
  <2>6. PlanSum(V, PlanFrom(w)[c]) \in Int
    BY <2>4, <2>5
  <2> QED BY <1>4, <2>4, <2>6
<1> QED BY <1>3, <1>4

GridOf == [e \in PlanEntries |-> e.grid]

\* No day of a window is in the month of a position and before it.
Cursor(w, c) == c \in Days => \A d \in Rolled(w) : MonthOf[d] = MonthOf[c] => d >= c

LEMMA FirstCursor == ASSUME NEW w, NEW c \in Days PROVE Cursor(w, NextMonth(c))
<1> SUFFICES ASSUME NextMonth(c) \in Days, NEW d \in Rolled(w), MonthOf[d] = MonthOf[NextMonth(c)]
             PROVE  d >= NextMonth(c)
  BY DEF Cursor
<1>1. d \in Days /\ NextMonth(c) \in Nat
  BY RolledAre, DaysAre
<1>2. NextMonth(c) >= NextMonth(c)
  BY <1>1
<1>3. MonthOf[NextMonth(c)] > MonthOf[c]
  BY <1>2, NextMonthSplits
<1> QED BY <1>1, <1>3, NextMonthSplits

LEMMA PlanHolds ==
    ASSUME SavingsInv, NEW w \in Windows
    PROVE  \A c \in 0..DayCount : Cursor(w, c) =>
             PlanSum(GridOf, PlanFrom(w)[c]) = SumAt(DayUse("grid"), {d \in Rolled(w) : d >= c})
<1> DEFINE U == DayUse("grid")
           Later(c) == {d \in Rolled(w) : d >= c}
           good == {c \in 0..DayCount : Cursor(w, c) => PlanSum(GridOf, PlanFrom(w)[c]) = SumAt(U, Later(c))}
<1>0. /\ clock \in Nat /\ DayCount \in Nat \ {0} /\ Days = 0..(DayCount - 1)
  BY DaysAre DEF SavingsInv
<1>1. PlanEnd(w) \in Nat /\ (PlanEnd(w) = w.end \/ PlanEnd(w) = clock) /\ w.end \in Nat
  BY WindowsAre, PlanEndIs
<1>2. GridOf \in [PlanEntries -> Int]
  BY DEF GridOf, PlanEntries
<1>3. \A d \in Rolled(w) : d \in Days /\ 2 * d < w.end /\ 2 * d + 1 <= clock
  BY DEF Rolled, DaysIn, SavingsInv
<1>4. Descends(DayCount, good)
  <2> SUFFICES ASSUME NEW c \in 0..DayCount, \A x \in (c + 1)..DayCount : x \in good, Cursor(w, c)
               PROVE  PlanSum(GridOf, PlanFrom(w)[c]) = SumAt(U, Later(c))
    BY DEF Descends
  <2> HIDE DEF U
  <2>1. CASE 2 * c >= PlanEnd(w)
    <3>1. \A d \in Rolled(w) : ~(d >= c)
      <4> SUFFICES ASSUME NEW d \in Rolled(w), d >= c PROVE FALSE
        OBVIOUS
      <4>1. d \in Nat /\ 2 * d < w.end /\ 2 * d + 1 <= clock
        BY <1>0, <1>3
      <4>2. 2 * d >= 2 * c
        BY <1>0, <4>1
      <4> QED BY <1>0, <1>1, <2>1, <4>1, <4>2
    <3>2. Later(c) = {}
      BY <3>1
    <3>3. SumAt(U, Later(c)) = 0
      BY <3>2, SumAtEmpty
    <3>4. PlanSum(GridOf, PlanFrom(w)[c]) = 0
      BY <1>2, <2>1, PlanSumStep
    <3> QED BY <3>3, <3>4
  <2>2. CASE ~(2 * c >= PlanEnd(w))
    <3> DEFINE n == NextMonth(c)
               e == EntryAt(w, c)
               This == {d \in Rolled(w) : MonthOf[d] = MonthOf[c]}
    <3>1. 2 * c < PlanEnd(w)
      BY <1>0, <1>1, <2>2
    <3>2. c \in Days /\ n \in (c + 1)..DayCount /\ e \in PlanEntries
      BY <3>1, EntryIs
    <3>3. Cursor(w, n)
      BY <3>2, FirstCursor
    <3>4. PlanSum(GridOf, PlanFrom(w)[n]) = SumAt(U, Later(n))
      BY <3>2, <3>3
    <3>5. PlanSum(GridOf, PlanFrom(w)[c]) = GridOf[e] + PlanSum(GridOf, PlanFrom(w)[n])
      BY <1>2, <3>1, PlanSumStep
    <3>6. GridOf[e] = SumAt(U, This) /\ SumAt(U, This) \in Nat
      <4>1. e.grid = MonthGrid(w, MonthOf[c])
        BY DEF EntryAt
      <4>2. MonthGrid(w, MonthOf[c]) = SumAt(U, This) /\ MonthGrid(w, MonthOf[c]) \in Nat
        BY MonthGridIs DEF U
      <4> HIDE DEF e
      <4> QED BY <3>2, <4>1, <4>2 DEF GridOf
    <3>7. Later(c) = This \cup Later(n) /\ This \cap Later(n) = {}
      <4> SUFFICES ASSUME NEW d \in Rolled(w)
                   PROVE  /\ d >= c <=> (MonthOf[d] = MonthOf[c] \/ d >= n)
                          /\ ~(MonthOf[d] = MonthOf[c] /\ d >= n)
        OBVIOUS
      <4>1. d \in Days /\ d \in Nat /\ c \in Nat /\ n \in Nat /\ n > c
        BY <1>0, <1>3, <3>2
      <4>2. d >= n <=> MonthOf[d] > MonthOf[c]
        BY <3>2, <4>1, NextMonthSplits
      <4>3. MonthOf[d] = MonthOf[c] => d >= c
        BY <3>2 DEF Cursor
      <4>4. MonthOf[d] \in Months /\ MonthOf[c] \in Months
        BY <3>2, <4>1, MonthOfDay
      <4>5. MonthOf[d] \in Int /\ MonthOf[c] \in Int
        BY <4>4, MonthsAre
      <4>6. MonthOf[d] < MonthOf[c] => ~(d >= c)
        <5>1. /\ MonthOf[d] + 1 \in 1..(MonthCount + 1) /\ MonthOf[c] \in 1..(MonthCount + 1)
              /\ d < First(MonthOf[d] + 1) /\ First(MonthOf[c]) <= c
          <6>1. d < First(MonthOf[d] + 1) /\ First(MonthOf[c]) <= c
            BY <3>2, <4>1, MonthOfDay
          <6> QED BY <4>4, <6>1, MonthsAre
        <5>2. First(MonthOf[d] + 1) \in Nat /\ First(MonthOf[c]) \in Nat
          BY <5>1, FirstNext
        <5>3. MonthOf[d] < MonthOf[c] => MonthOf[d] + 1 <= MonthOf[c]
          BY <4>5
        <5>4. MonthOf[d] < MonthOf[c] => First(MonthOf[d] + 1) <= First(MonthOf[c])
          BY <5>1, <5>3, FirstMonotone
        <5> QED BY <4>1, <5>1, <5>2, <5>4
      <4>7. MonthOf[d] > MonthOf[c] \/ MonthOf[d] = MonthOf[c] \/ MonthOf[d] < MonthOf[c]
        BY <4>5
      <4>8. d >= n => d >= c
        BY <4>1
      <4>9. ~(MonthOf[d] = MonthOf[c] /\ MonthOf[d] > MonthOf[c])
        BY <4>5
      <4> QED BY <4>2, <4>3, <4>6, <4>7, <4>8, <4>9
    <3>8. SumAt(U, Later(c)) = SumAt(U, This) + SumAt(U, Later(n))
      <4>1. IsFiniteSet(This) /\ IsFiniteSet(Later(n))
        <5>1. This \in SUBSET Days /\ Later(n) \in SUBSET Days
          BY RolledAre
        <5> QED BY <5>1, RolledAre
      <4>2. \A d \in This \cup Later(n) : U[d] \in Int
        <5>1. \A d \in This \cup Later(n) : d \in Days
          BY <1>3
        <5> QED BY <5>1, UseIs DEF U
      <4> HIDE DEF This, Later
      <4> QED BY <3>7, <4>1, <4>2, SumAtUnion
    <3> QED BY <3>4, <3>5, <3>6, <3>8
  <2> QED BY <2>1, <2>2
<1> HIDE DEF good
<1>5. 0..DayCount \subseteq good
  BY <1>0, <1>4, FromTheLast
<1> QED BY <1>5 DEF good, U

LEMMA PlanOf ==
    ASSUME SavingsInv, NEW w \in Windows
    PROVE  /\ TierPlan(w) \in Seq(PlanEntries)
           /\ PlanSum(GridOf, TierPlan(w)) = SumAt(DayUse("grid"), Rolled(w))
<1> DEFINE c == w.start \div 2
<1>0. w.start \in Nat /\ c \in 0..DayCount /\ DayCount \in Nat /\ Days = 0..(DayCount - 1)
  BY WindowsAre, DaysAre
<1>1. \A d \in Rolled(w) : d >= c
  <2> SUFFICES ASSUME NEW d \in Rolled(w) PROVE d >= c
    OBVIOUS
  <2>1. d \in Nat /\ w.start <= 2 * d
    BY <1>0 DEF Rolled, DaysIn
  <2> QED BY <1>0, <2>1
<1>2. {d \in Rolled(w) : d >= c} = Rolled(w)
  BY <1>1
<1>3. Cursor(w, c)
  BY <1>1 DEF Cursor
<1>4. TierPlan(w) = PlanFrom(w)[c]
  BY PlanIs
<1> HIDE DEF c
<1>5. PlanFrom(w)[c] \in Seq(PlanEntries)
  BY <1>0, PlanTyped
<1>6. PlanSum(GridOf, PlanFrom(w)[c]) = SumAt(DayUse("grid"), {d \in Rolled(w) : d >= c})
  BY <1>0, <1>3, PlanHolds
<1> QED BY <1>2, <1>4, <1>5, <1>6

WithinOf == [e \in PlanEntries |-> Min({e.grid, PerDay * e.days})]

LEMMA MinOfTwo ==
    ASSUME NEW a \in Int, NEW b \in Int
    PROVE  Min({a, b}) = (IF a <= b THEN a ELSE b) /\ Min({b, a}) = Min({a, b})
<1>1. {b, a} = {a, b}
  OBVIOUS
<1> QED BY <1>1 DEF Min

LEMMA WithinIs ==
    ASSUME NEW e \in PlanEntries
    PROVE  /\ e.grid \in Nat /\ PerDay * e.days \in Nat
           /\ WithinOf[e] = Min({e.grid, PerDay * e.days}) /\ WithinOf[e] \in Nat
           /\ e.grid = 0 => WithinOf[e] = 0
<1>1. e.grid \in Nat /\ e.days \in Nat /\ PerDay \in Nat
  BY SavingsAssumption DEF PlanEntries
<1>2. PICK g \in Nat, b \in Nat : g = e.grid /\ b = PerDay * e.days
  BY <1>1
<1>3. Min({g, b}) = IF g <= b THEN g ELSE b
  <2>1. g \in Int /\ b \in Int
    BY <1>2
  <2> QED BY <2>1, MinOfTwo
<1>4. WithinOf[e] = Min({g, b})
  BY <1>2 DEF WithinOf
<1>5. Min({g, b}) \in Nat /\ (g = 0 => Min({g, b}) = 0)
  BY <1>2, <1>3
<1> QED BY <1>2, <1>4, <1>5

LEMMA PlanSumsAre ==
    ASSUME NEW plan \in Seq(PlanEntries)
    PROVE  /\ SumSeq([i \in DOMAIN plan |-> plan[i].grid]) = PlanSum(GridOf, plan)
           /\ SumSeq([i \in DOMAIN plan |-> Min({plan[i].grid, PerDay * plan[i].days})])
                = PlanSum(WithinOf, plan)
           /\ SumSeq([i \in DOMAIN plan |-> plan[i].days]) \in Nat
           /\ PlanSum(GridOf, plan) \in Nat /\ PlanSum(WithinOf, plan) \in Nat
<1>1. /\ Len(plan) \in Nat /\ DOMAIN plan = 1..Len(plan)
      /\ \A i \in DOMAIN plan : plan[i] \in PlanEntries
  BY LenProperties, ElementOfSeq
<1>2. IsFiniteSet(DOMAIN plan)
  <2>1. 1 \in Int /\ Len(plan) \in Int
    BY <1>1
  <2> QED BY <1>1, <2>1, FS_Interval
<1>3. [i \in DOMAIN plan |-> plan[i].grid] = [i \in DOMAIN plan |-> GridOf[plan[i]]]
  BY <1>1 DEF GridOf
<1>4. [i \in DOMAIN plan |-> Min({plan[i].grid, PerDay * plan[i].days})]
        = [i \in DOMAIN plan |-> WithinOf[plan[i]]]
  BY <1>1 DEF WithinOf
<1>5. ASSUME NEW s, DOMAIN s = DOMAIN plan, \A i \in DOMAIN plan : s[i] \in Nat
      PROVE  SumSeq(s) \in Nat
  <2>1. SumSeq(s) = SumAt(s, DOMAIN plan)
    BY <1>2, <1>5, SumSeqIs
  <2>2. SumAt(s, DOMAIN plan) \in Nat
    BY <1>2, <1>5, SumAtNat
  <2> QED BY <2>1, <2>2
<1>6. SumSeq([i \in DOMAIN plan |-> plan[i].days]) \in Nat
  <2> DEFINE s == [i \in DOMAIN plan |-> plan[i].days]
  <2>1. DOMAIN s = DOMAIN plan /\ \A i \in DOMAIN plan : s[i] \in Nat
    BY <1>1 DEF PlanEntries
  <2> HIDE DEF s
  <2>2. SumSeq(s) \in Nat
    BY <1>5, <2>1
  <2> QED BY <2>2 DEF s
<1>7. PlanSum(GridOf, plan) \in Nat
  <2> DEFINE s == [i \in DOMAIN plan |-> GridOf[plan[i]]]
  <2>1. DOMAIN s = DOMAIN plan /\ \A i \in DOMAIN plan : s[i] \in Nat
    BY <1>1 DEF GridOf, PlanEntries
  <2> HIDE DEF s
  <2>2. SumSeq(s) \in Nat
    BY <1>5, <2>1
  <2> QED BY <2>2 DEF s, PlanSum
<1>8. PlanSum(WithinOf, plan) \in Nat
  <2> DEFINE s == [i \in DOMAIN plan |-> WithinOf[plan[i]]]
  <2>1. DOMAIN s = DOMAIN plan /\ \A i \in DOMAIN plan : s[i] \in Nat
    BY <1>1, WithinIs
  <2> HIDE DEF s
  <2>2. SumSeq(s) \in Nat
    BY <1>5, <2>1
  <2> QED BY <2>2 DEF s, PlanSum
<1> QED BY <1>3, <1>4, <1>6, <1>7, <1>8 DEF PlanSum

LEMMA KwhHaveBlocks == ASSUME SavingsInv PROVE EveryKwhHasABlock
<1> SUFFICES ASSUME NEW w \in Windows
             PROVE  SumSeq([i \in DOMAIN TierPlan(w) |-> TierPlan(w)[i].grid])
                      = Classified(TouTotals(w), "grid")
  BY DEF EveryKwhHasABlock
<1> DEFINE plan == TierPlan(w)
<1>1. plan \in Seq(PlanEntries) /\ PlanSum(GridOf, plan) = SumAt(DayUse("grid"), Rolled(w))
  BY PlanOf
<1> HIDE DEF plan
<1>2. SumSeq([i \in DOMAIN plan |-> plan[i].grid]) = PlanSum(GridOf, plan)
  BY <1>1, PlanSumsAre
<1>3. Classified(TouTotals(w), "grid") = SumAt(DayUse("grid"), Rolled(w))
  BY ClassifiedIs
<1> QED BY <1>1, <1>2, <1>3 DEF plan

\* What the first tier takes of a bill, whatever riders cost.
FirstTier(grid, plan) ==
    LET drawn == PlanSum(GridOf, plan)
        days == SumSeq([i \in DOMAIN plan |-> plan[i].days])
    IN IF drawn > 0 THEN (grid * PlanSum(WithinOf, plan)) \div drawn
       ELSE Min({grid, PerDay * (IF days = 0 THEN PeriodDays ELSE days)})

LEMMA Quotient ==
    /\ \A x \in Int, y \in Nat \ {0} : x \div y \in Int
    /\ \A x \in Int, y \in Nat \ {0} : (y * x) \div y = x
OBVIOUS

LEMMA TieredIs ==
    ASSUME NEW grid \in Int, NEW plan \in Seq(PlanEntries)
    PROVE  /\ FirstTier(grid, plan) \in Int
           /\ \A r \in Nat : TieredCost(grid, plan, r)
                = FirstTier(grid, plan) * (Tier1 + r) + (grid - FirstTier(grid, plan)) * (Tier2 + r)
           /\ grid > 0 /\ grid = PlanSum(GridOf, plan) => FirstTier(grid, plan) = PlanSum(WithinOf, plan)
<1>1. PICK drawn \in Nat, within \in Nat, days \in Nat :
        /\ drawn = PlanSum(GridOf, plan) /\ within = PlanSum(WithinOf, plan)
        /\ days = SumSeq([i \in DOMAIN plan |-> plan[i].days])
  BY PlanSumsAre
<1>2. PICK block \in Nat : block = PerDay * (IF days = 0 THEN PeriodDays ELSE days)
  <2>1. PerDay \in Nat /\ PeriodDays \in Nat
    BY SavingsAssumption
  <2>2. PICK k \in Nat : k = (IF days = 0 THEN PeriodDays ELSE days)
    BY <1>1, <2>1
  <2>3. PerDay * k \in Nat
    BY <2>1
  <2> QED BY <2>2, <2>3
<1>3. FirstTier(grid, plan) = IF drawn > 0 THEN (grid * within) \div drawn ELSE Min({grid, block})
  BY <1>1, <1>2 DEF FirstTier
<1>4. FirstTier(grid, plan) \in Int
  <2>1. CASE drawn > 0
    <3>1. grid * within \in Int /\ drawn \in Nat \ {0}
      BY <1>1, <2>1
    <3>2. (grid * within) \div drawn \in Int
      BY <3>1, Quotient
    <3> QED BY <1>3, <2>1, <3>2
  <2>2. CASE ~(drawn > 0)
    <3>1. block \in Int
      BY <1>2
    <3>2. Min({grid, block}) = IF grid <= block THEN grid ELSE block
      BY <3>1, MinOfTwo
    <3>3. Min({grid, block}) \in Int
      BY <3>1, <3>2
    <3> QED BY <1>3, <2>2, <3>3
  <2> QED BY <2>1, <2>2
<1>5. ASSUME NEW r \in Nat
      PROVE  TieredCost(grid, plan, r)
               = FirstTier(grid, plan) * (Tier1 + r) + (grid - FirstTier(grid, plan)) * (Tier2 + r)
  <2>1. /\ SumSeq([i \in DOMAIN plan |-> plan[i].grid]) = drawn
        /\ SumSeq([i \in DOMAIN plan |-> Min({plan[i].grid, PerDay * plan[i].days})]) = within
    BY <1>1, PlanSumsAre
  <2> QED BY <1>1, <1>2, <1>3, <2>1 DEF TieredCost
<1>6. ASSUME grid > 0, grid = PlanSum(GridOf, plan) PROVE FirstTier(grid, plan) = PlanSum(WithinOf, plan)
  <2>1. drawn > 0 /\ drawn = grid
    BY <1>1, <1>6
  <2>2. (drawn * within) \div drawn = within
    <3>1. drawn \in Nat \ {0} /\ within \in Int
      BY <1>1, <2>1
    <3> QED BY <3>1, Quotient
  <2> QED BY <1>1, <1>3, <2>1, <2>2
<1> QED BY <1>4, <1>5, <1>6

-----------------------------------------------------------------------------
(* Riders cancel, and each season has its own rates.                       *)

\* The days a total is taken of.
Totalled(w, side) ==
    {d \in IF w = RetainedWindow THEN Days ELSE DaysIn(w) : total[d] # None /\ total[d][side] # None}

LEMMA TotalIs ==
    ASSUME SavingsInv, NEW w, NEW side \in {"solar", "grid"}
    PROVE  /\ TotalOf(w, side) \in Nat \cup {None}
           /\ TotalOf(w, side) = None <=> Totalled(w, side) = {}
<1> DEFINE S == Totalled(w, side)
           at(d) == total[d][side]
<1>1. S \in SUBSET Days
  BY RolledAre DEF Totalled
<1>2. IsFiniteSet(S)
  BY <1>1, RolledAre
<1>3. \A d \in S : OnSet(at, S)[d] \in Nat
  <2> SUFFICES ASSUME NEW d \in S PROVE OnSet(at, S)[d] \in Nat
    OBVIOUS
  <2>1. total[d] \in Totals /\ total[d][side] # None
    BY <1>1 DEF Totalled, SavingsInv
  <2>2. total[d][side] \in Nat
    BY <2>1 DEF Totals
  <2> QED BY <2>2 DEF OnSet
<1>4. TotalOf(w, side) = IF S = {} THEN None ELSE MapThenSumSet(at, S)
  BY DEF TotalOf, Sum, Totalled
<1> HIDE DEF at
<1>5. MapThenSumSet(at, S) = SumAt(OnSet(at, S), S)
  BY <1>2, SumIsOfFunction
<1>6. MapThenSumSet(at, S) \in Nat
  <2> DEFINE F == OnSet(at, S)
  <2>1. \A d \in S : F[d] \in Nat
    BY <1>3
  <2> HIDE DEF F
  <2>2. SumAt(F, S) \in Nat
    BY <1>2, <2>1, SumAtNat
  <2> QED BY <1>5, <2>2 DEF F
<1>7. None \notin Nat
  BY SavingsAssumption
<1> HIDE DEF S
<1>8. TotalOf(w, side) \in Nat \cup {None} /\ (TotalOf(w, side) = None <=> S = {})
  BY <1>4, <1>6, <1>7
<1> QED BY <1>8 DEF S

LEMMA RateIs ==
    ASSUME NEW s \in SEASONS, NEW p \in TOU_PERIODS, NEW r \in Nat
    PROVE  Rate(s, p, r) = Charges[s][p] + r /\ Charges[s][p] \in Nat
<1>1. Charges \in [SEASONS -> [TOU_PERIODS -> Nat]]
  BY SavingsAssumption
<1> QED BY <1>1 DEF Rate

\* A period is priced by its seasons' shares alone.
Share(w, p, side, s) == SumAt(PeriodUse(p, side), SeasonDays(w, s))

LEMMA PricedIs ==
    ASSUME SavingsInv, NEW w, NEW side \in {"solar", "grid"}, NEW p \in TOU_PERIODS, NEW r \in Nat
    PROVE  /\ PricedPeriod(TouTotals(w), p, side, r)
                = Share(w, p, side, "winter") * (Charges["winter"][p] + r)
                    + Share(w, p, side, "summer") * (Charges["summer"][p] + r)
           /\ Share(w, p, side, "winter") \in Nat /\ Share(w, p, side, "summer") \in Nat
           /\ TouTotals(w)[p][side] = Share(w, p, side, "winter") + Share(w, p, side, "summer")
<1> DEFINE U == PeriodUse(p, side)
           shares == TouTotals(w)[p].seasons
           t == TouTotals(w)[p][side]
           shareAt(s) == shares[s][side]
           pricedAt(s) == shares[s][side] * Rate(s, p, r)
           now0 == Rate(SeasonFor(MonthOf[Today]), p, r)
<1>0. SEASONS = {"winter", "summer"}
  BY DEF SEASONS
<1>1. PICK a \in Nat, b \in Nat : a = Share(w, p, side, "winter") /\ b = Share(w, p, side, "summer")
  <2>1. SeasonDays(w, "winter") \in SUBSET Days /\ SeasonDays(w, "summer") \in SUBSET Days
    BY RolledAre DEF SeasonDays
  <2>2. SumAt(U, SeasonDays(w, "winter")) \in Nat /\ SumAt(U, SeasonDays(w, "summer")) \in Nat
    BY <2>1, UseAddsUp
  <2> QED BY <2>2 DEF Share
<1>2. t = a + b
  <2>1. t = SumAt(U, Rolled(w))
    BY SharesAre
  <2>2. \A d \in Rolled(w) : U[d] \in Int
    BY UseIs, RolledAre
  <2>3. /\ SeasonDays(w, "winter") \in SUBSET Days /\ SeasonDays(w, "summer") \in SUBSET Days
        /\ SeasonDays(w, "winter") \cup SeasonDays(w, "summer") = Rolled(w)
        /\ SeasonDays(w, "winter") \cap SeasonDays(w, "summer") = {}
    BY RolledAre DEF SeasonDays
  <2>4. IsFiniteSet(SeasonDays(w, "winter")) /\ IsFiniteSet(SeasonDays(w, "summer"))
    BY <2>3, RolledAre
  <2> HIDE DEF U, t
  <2>5. SumAt(U, Rolled(w)) = SumAt(U, SeasonDays(w, "winter")) + SumAt(U, SeasonDays(w, "summer"))
    BY <2>2, <2>3, <2>4, SumAtUnion
  <2> QED BY <1>1, <2>1, <2>5 DEF Share, U
<1>3. shareAt("winter") = a /\ shareAt("summer") = b
  BY <1>0, <1>1, SharesAre DEF Share
<1>4. now0 \in Int
  <2>1. SeasonFor(MonthOf[Today]) \in SEASONS
    BY <1>0 DEF SeasonFor
  <2> QED BY <2>1, RateIs
<1>5. /\ Rate("winter", p, r) = Charges["winter"][p] + r /\ Charges["winter"][p] \in Nat
      /\ Rate("summer", p, r) = Charges["summer"][p] + r /\ Charges["summer"][p] \in Nat
  BY <1>0, RateIs
<1>6. pricedAt("winter") = a * (Charges["winter"][p] + r) /\ pricedAt("summer") = b * (Charges["summer"][p] + r)
  BY <1>3, <1>5
<1>7. MapThenSumSet(shareAt, SEASONS) = a + b
  <2> DEFINE F == OnSet(shareAt, SEASONS)
  <2>1. F["winter"] = a /\ F["summer"] = b
    BY <1>0, <1>3 DEF OnSet
  <2> HIDE DEF shareAt
  <2>2. MapThenSumSet(shareAt, SEASONS) = SumAt(F, SEASONS)
    BY PeriodsAre, SumIsOfFunction
  <2> HIDE DEF F
  <2>3. \A s \in SEASONS : F[s] \in Int
    BY <1>0, <1>1, <2>1
  <2>4. SumAt(F, SEASONS) = F["winter"] + F["summer"]
    BY <2>3, PeriodsAre
  <2> QED BY <2>1, <2>2, <2>4
<1>8. MapThenSumSet(pricedAt, SEASONS) = a * (Charges["winter"][p] + r) + b * (Charges["summer"][p] + r)
      /\ a * (Charges["winter"][p] + r) + b * (Charges["summer"][p] + r) \in Int
  <2> DEFINE F == OnSet(pricedAt, SEASONS)
  <2>1. F["winter"] = pricedAt("winter") /\ F["summer"] = pricedAt("summer")
    BY <1>0 DEF OnSet
  <2> HIDE DEF pricedAt
  <2>2. MapThenSumSet(pricedAt, SEASONS) = SumAt(F, SEASONS)
    BY PeriodsAre, SumIsOfFunction
  <2> HIDE DEF F
  <2>3. pricedAt("winter") \in Int /\ pricedAt("summer") \in Int
    <3>1. \A x, y, z \in Nat : x * (y + z) \in Int
      OBVIOUS
    <3> QED BY <1>1, <1>5, <1>6, <3>1
  <2>4. \A s \in SEASONS : F[s] \in Int
    BY <1>0, <2>1, <2>3
  <2>5. SumAt(F, SEASONS) = F["winter"] + F["summer"]
    BY <2>4, PeriodsAre
  <2> QED BY <1>6, <2>1, <2>2, <2>3, <2>5
<1>9. PricedPeriod(TouTotals(w), p, side, r)
        = MapThenSumSet(pricedAt, SEASONS)
            + (IF t - MapThenSumSet(shareAt, SEASONS) > 0
                 THEN t - MapThenSumSet(shareAt, SEASONS) ELSE 0) * now0
  BY DEF PricedPeriod, Sum
<1> HIDE DEF t, shareAt, pricedAt, now0
<1>10. PricedPeriod(TouTotals(w), p, side, r) = MapThenSumSet(pricedAt, SEASONS) + 0 * now0
  <2>1. (IF t - MapThenSumSet(shareAt, SEASONS) > 0 THEN t - MapThenSumSet(shareAt, SEASONS) ELSE 0) = 0
    BY <1>1, <1>2, <1>7
  <2> QED BY <1>9, <2>1
<1>11. 0 * now0 = 0
  BY <1>4
<1> QED BY <1>1, <1>2, <1>8, <1>10, <1>11 DEF t

Priced(w, side, r) == Sum(TOU_PERIODS, LAMBDA p : PricedPeriod(TouTotals(w), p, side, r))
PricedOf(w, side, r) == [p \in TOU_PERIODS |-> PricedPeriod(TouTotals(w), p, side, r)]

LEMMA PricedSum ==
    ASSUME SavingsInv, NEW w, NEW side \in {"solar", "grid"}, NEW r \in Nat
    PROVE  /\ Priced(w, side, r) = SumAt(PricedOf(w, side, r), TOU_PERIODS)
           /\ \A p \in TOU_PERIODS : PricedOf(w, side, r)[p] \in Int
           /\ Priced(w, side, r) \in Int
<1> DEFINE at(p) == PricedPeriod(TouTotals(w), p, side, r)
           F == PricedOf(w, side, r)
<1>1. \A p \in TOU_PERIODS : F[p] \in Int
  <2> SUFFICES ASSUME NEW p \in TOU_PERIODS PROVE F[p] \in Int
    OBVIOUS
  <2>1. F[p] = PricedPeriod(TouTotals(w), p, side, r)
    BY DEF PricedOf
  <2>2. "winter" \in SEASONS /\ "summer" \in SEASONS
    BY DEF SEASONS
  <2>3. Charges["winter"][p] \in Nat /\ Charges["summer"][p] \in Nat
    BY <2>2, RateIs
  <2>4. PICK a, b, x, y \in Nat : /\ a = Share(w, p, side, "winter") /\ b = Share(w, p, side, "summer")
                                  /\ x = Charges["winter"][p] /\ y = Charges["summer"][p]
    BY <2>3, PricedIs
  <2>5. PricedPeriod(TouTotals(w), p, side, r) = a * (x + r) + b * (y + r)
    BY <2>4, PricedIs
  <2>6. a * (x + r) + b * (y + r) \in Int
    BY <2>4
  <2> HIDE DEF F
  <2> QED BY <2>1, <2>5, <2>6
<1>2. OnSet(at, TOU_PERIODS) = F
  BY DEF OnSet, PricedOf
<1>3. Priced(w, side, r) = MapThenSumSet(at, TOU_PERIODS)
  BY DEF Priced, Sum
<1> HIDE DEF at
<1>4. MapThenSumSet(at, TOU_PERIODS) = SumAt(OnSet(at, TOU_PERIODS), TOU_PERIODS)
  BY PeriodsAre, SumIsOfFunction
<1> HIDE DEF F
<1>5. SumAt(F, TOU_PERIODS) \in Int
  BY <1>1, PeriodsAre, SumAtOne
<1> QED BY <1>1, <1>2, <1>3, <1>4, <1>5 DEF F

\* What riders add to the clock's bill is what they cost for the energy it is for.
LEMMA PricedShifts ==
    ASSUME SavingsInv, NEW w, NEW side \in {"solar", "grid"}, NEW r \in Nat
    PROVE  Priced(w, side, r) = Priced(w, side, 0) + r * Classified(TouTotals(w), side)
<1> DEFINE at(p) == TouTotals(w)[p][side]
           F == PricedOf(w, side, r)
           G == PricedOf(w, side, 0)
           T == OnSet(at, TOU_PERIODS)
<1>1. ASSUME NEW p \in TOU_PERIODS PROVE T[p] \in Nat /\ G[p] \in Int /\ F[p] = G[p] + r * T[p]
  <2>1. T[p] = TouTotals(w)[p][side]
    BY DEF OnSet
  <2>2. F[p] = PricedPeriod(TouTotals(w), p, side, r) /\ G[p] = PricedPeriod(TouTotals(w), p, side, 0)
    BY DEF PricedOf
  <2>3. "winter" \in SEASONS /\ "summer" \in SEASONS
    BY DEF SEASONS
  <2>4. Charges["winter"][p] \in Nat /\ Charges["summer"][p] \in Nat
    BY <2>3, RateIs
  <2>5. PICK a, b, x, y \in Nat : /\ a = Share(w, p, side, "winter") /\ b = Share(w, p, side, "summer")
                                  /\ x = Charges["winter"][p] /\ y = Charges["summer"][p]
    BY <2>4, PricedIs
  <2>6. PricedPeriod(TouTotals(w), p, side, r) = a * (x + r) + b * (y + r)
    BY <2>5, PricedIs
  <2>7. PricedPeriod(TouTotals(w), p, side, 0) = a * (x + 0) + b * (y + 0)
    BY <2>5, PricedIs
  <2>8. TouTotals(w)[p][side] = a + b
    BY <2>5, PricedIs
  <2> HIDE DEF F, G, T
  <2>9. a * (x + r) + b * (y + r) = (a * (x + 0) + b * (y + 0)) + r * (a + b)
    OBVIOUS
  <2>10. a + b \in Nat /\ a * (x + 0) + b * (y + 0) \in Int
    OBVIOUS
  <2> QED BY <2>1, <2>2, <2>6, <2>7, <2>8, <2>9, <2>10
<1>2. Classified(TouTotals(w), side) = MapThenSumSet(at, TOU_PERIODS)
  BY DEF Classified, Sum
<1> HIDE DEF at
<1>3. MapThenSumSet(at, TOU_PERIODS) = SumAt(T, TOU_PERIODS)
  BY PeriodsAre, SumIsOfFunction
<1>4. Priced(w, side, r) = SumAt(F, TOU_PERIODS) /\ Priced(w, side, 0) = SumAt(G, TOU_PERIODS)
  BY PricedSum
<1> HIDE DEF F, G, T
<1>5. SumAt(F, TOU_PERIODS) = SumAt(G, TOU_PERIODS) + r * SumAt(T, TOU_PERIODS)
  <2>1. \A p \in TOU_PERIODS : G[p] \in Int /\ T[p] \in Int /\ F[p] = G[p] + r * T[p]
    BY <1>1
  <2>2. r \in Int
    OBVIOUS
  <2> QED BY <2>1, <2>2, PeriodsAre, SumAtLinear
<1> QED BY <1>2, <1>3, <1>4, <1>5

LEMMA GridCostShifts ==
    ASSUME SavingsInv, NEW w, NEW r \in Nat
    PROVE  /\ TotalOf(w, "grid") = None => GridCost(w, r) = None
           /\ TotalOf(w, "grid") # None =>
                /\ Compared(w) \in Nat /\ GridCost(w, r) \in Int /\ GridCost(w, 0) \in Int
                /\ GridCost(w, r) = GridCost(w, 0) + r * Compared(w)
<1> DEFINE C == Classified(TouTotals(w), "grid")
           T == TotalOf(w, "grid")
           R(x) == Rate(SeasonFor(MonthOf[Today]), "off_peak", x)
<1>1. C \in Nat /\ T \in Nat \cup {None}
  BY ClassifiedIs, TotalIs
<1>2. PICK c \in Nat : \A x \in Nat : R(x) = c + x
  <2>1. SeasonFor(MonthOf[Today]) \in SEASONS /\ "off_peak" \in TOU_PERIODS
    BY DEF SeasonFor, SEASONS, TOU_PERIODS
  <2> QED BY <2>1, RateIs
<1>3. \A x \in Nat : GridCost(w, x) = IF T = None THEN None ELSE IF C = 0 THEN T * R(x) ELSE Priced(w, "grid", x)
  BY DEF GridCost, Settle, Priced
<1>4. Compared(w) = IF C > 0 THEN C ELSE T
  BY DEF Compared
<1> HIDE DEF C, T, R
<1>5. CASE T = None
  BY <1>3, <1>5 DEF T
<1>6. CASE T # None /\ C = 0
  <2>1. T \in Nat /\ Compared(w) = T
    BY <1>1, <1>4, <1>6
  <2>2. GridCost(w, r) = T * (c + r) /\ GridCost(w, 0) = T * (c + 0)
    BY <1>2, <1>3, <1>6
  <2>3. \A x \in Nat : x * (c + r) = x * (c + 0) + r * x /\ x * (c + r) \in Int /\ x * (c + 0) \in Int
    OBVIOUS
  <2>4. GridCost(w, r) = GridCost(w, 0) + r * Compared(w) /\ GridCost(w, r) \in Int /\ GridCost(w, 0) \in Int
    BY <2>1, <2>2, <2>3
  <2> QED BY <1>6, <2>1, <2>4 DEF T
<1>7. CASE T # None /\ C # 0
  <2>1. C \in Nat /\ Compared(w) = C
    BY <1>1, <1>4, <1>7
  <2>2. GridCost(w, r) = Priced(w, "grid", r) /\ GridCost(w, 0) = Priced(w, "grid", 0)
    BY <1>3, <1>7
  <2>3. Priced(w, "grid", r) = Priced(w, "grid", 0) + r * C
    BY PricedShifts DEF C
  <2>4. Priced(w, "grid", r) \in Int /\ Priced(w, "grid", 0) \in Int
    BY PricedSum
  <2> QED BY <1>7, <2>1, <2>2, <2>3, <2>4 DEF T
<1> QED BY <1>5, <1>6, <1>7

LEMMA ComparisonShifts ==
    ASSUME SavingsInv, NEW w \in Windows, NEW r \in Nat, Compared(w) \in Nat
    PROVE  /\ ComparisonCost(w, r) \in Int /\ ComparisonCost(w, 0) \in Int
           /\ ComparisonCost(w, r) = ComparisonCost(w, 0) + r * Compared(w)
<1>1. PICK g \in Nat : g = Compared(w)
  OBVIOUS
<1>2. TierPlan(w) \in Seq(PlanEntries) /\ g \in Int
  BY <1>1, PlanOf
<1>3. PICK t \in Int : \A x \in Nat : TieredCost(g, TierPlan(w), x) = t * (Tier1 + x) + (g - t) * (Tier2 + x)
  BY <1>2, TieredIs
<1>4. \A x \in Nat : ComparisonCost(w, x) = TieredCost(g, TierPlan(w), x)
  <2>1. Compared(w) # None
    BY SavingsAssumption
  <2> QED BY <1>1, <2>1 DEF ComparisonCost
<1>5. /\ ComparisonCost(w, r) = t * (Tier1 + r) + (g - t) * (Tier2 + r)
      /\ ComparisonCost(w, 0) = t * (Tier1 + 0) + (g - t) * (Tier2 + 0)
  BY <1>3, <1>4
<1>6. Tier1 \in Nat /\ Tier2 \in Nat
  BY SavingsAssumption
<1>7. PICK a, b \in Nat : a = Tier1 /\ b = Tier2
  BY <1>6
<1>8. /\ t * (a + r) + (g - t) * (b + r) = (t * (a + 0) + (g - t) * (b + 0)) + r * g
      /\ t * (a + r) + (g - t) * (b + r) \in Int /\ t * (a + 0) + (g - t) * (b + 0) \in Int
  <2>1. t \in Int /\ a \in Int /\ b \in Int /\ r \in Int /\ g \in Int
    BY <1>2
  <2> QED BY <2>1
<1> QED BY <1>1, <1>5, <1>7, <1>8

LEMMA RidersOut == ASSUME SavingsInv PROVE RidersCancel
<1> SUFFICES ASSUME NEW w \in Windows PROVE RateSavings(w, Riders) = RateSavings(w, 0)
  BY DEF RidersCancel
<1>0. Riders \in Nat /\ 0 \in Nat /\ None \notin Int
  BY SavingsAssumption
<1>1. CASE TotalOf(w, "grid") = None
  <2>1. GridCost(w, Riders) = None /\ GridCost(w, 0) = None
    BY <1>0, <1>1, GridCostShifts
  <2> QED BY <2>1 DEF RateSavings
<1>2. CASE TotalOf(w, "grid") # None
  <2>1. /\ Compared(w) \in Nat /\ GridCost(w, Riders) \in Int /\ GridCost(w, 0) \in Int
        /\ GridCost(w, Riders) = GridCost(w, 0) + Riders * Compared(w)
    BY <1>0, <1>2, GridCostShifts
  <2>2. /\ ComparisonCost(w, Riders) \in Int /\ ComparisonCost(w, 0) \in Int
        /\ ComparisonCost(w, Riders) = ComparisonCost(w, 0) + Riders * Compared(w)
    BY <1>0, <2>1, ComparisonShifts
  <2>3. PICK x \in Int : x = Riders * Compared(w)
    BY <1>0, <2>1
  <2>4. ComparisonCost(w, Riders) - GridCost(w, Riders) = ComparisonCost(w, 0) - GridCost(w, 0)
    BY <2>1, <2>2, <2>3
  <2>5. /\ ComparisonCost(w, Riders) # None /\ GridCost(w, Riders) # None
        /\ ComparisonCost(w, 0) # None /\ GridCost(w, 0) # None
    BY <1>0, <2>1, <2>2
  <2> QED BY <2>4, <2>5 DEF RateSavings
<1> QED BY <1>1, <1>2

\* What a day's use of a period costs at the rates of its own season.
CostOf(p, side, r) ==
    [d \in Days |-> IF split[d] = None THEN 0
                    ELSE split[d][p][side] * Rate(SeasonFor(MonthOf[d]), p, r)]

LEMMA CostIs ==
    ASSUME SavingsInv, NEW side \in {"solar", "grid"}, NEW p \in TOU_PERIODS, NEW r \in Nat
    PROVE  \A d \in Days : CostOf(p, side, r)[d] \in Int
<1> SUFFICES ASSUME NEW d \in Days PROVE CostOf(p, side, r)[d] \in Int
  OBVIOUS
<1>1. CASE split[d] = None
  BY <1>1 DEF CostOf
<1>2. CASE split[d] # None
  <2>1. split[d] \in RollUps
    BY <1>2 DEF SavingsInv
  <2>2. split[d][p][side] \in Nat
    BY <2>1, RowSums
  <2>3. SeasonFor(MonthOf[d]) \in SEASONS
    BY DEF SeasonFor, SEASONS
  <2>4. Rate(SeasonFor(MonthOf[d]), p, r) \in Nat
    BY <2>3, RateIs
  <2>5. PICK a, b \in Nat : a = split[d][p][side] /\ b = Rate(SeasonFor(MonthOf[d]), p, r)
    BY <2>2, <2>4
  <2>6. CostOf(p, side, r)[d] = a * b /\ a * b \in Int
    BY <1>2, <2>5 DEF CostOf
  <2> QED BY <2>6
<1> QED BY <1>1, <1>2

LEMMA SeasonCost ==
    ASSUME SavingsInv, NEW w, NEW side \in {"solar", "grid"}, NEW p \in TOU_PERIODS, NEW r \in Nat,
           NEW s \in SEASONS
    PROVE  SumAt(CostOf(p, side, r), SeasonDays(w, s)) = Share(w, p, side, s) * (Charges[s][p] + r)
<1> DEFINE K == CostOf(p, side, r)
           U == PeriodUse(p, side)
           S == SeasonDays(w, s)
           k == Charges[s][p] + r
<1>0. S \in SUBSET Days /\ IsFiniteSet(S)
  BY RolledAre DEF SeasonDays
<1>1. k \in Int /\ Rate(s, p, r) = k
  <2>1. Rate(s, p, r) = Charges[s][p] + r /\ Charges[s][p] \in Nat
    BY RateIs
  <2> QED BY <2>1
<1>2. ASSUME NEW d \in S PROVE U[d] \in Int /\ K[d] = U[d] * k
  <2>1. d \in Days /\ split[d] # None /\ SeasonFor(MonthOf[d]) = s
    BY <1>0 DEF SeasonDays, Rolled
  <2>2. U[d] \in Nat
    BY <2>1, UseIs
  <2>3. U[d] = split[d][p][side] /\ K[d] = split[d][p][side] * Rate(s, p, r)
    BY <2>1 DEF PeriodUse, CostOf
  <2> HIDE DEF U, K
  <2> QED BY <1>1, <2>2, <2>3
<1> HIDE DEF K, U, S, k
<1>3. SumAt(K, S) = SumAt(U, S) * k
  BY <1>0, <1>1, <1>2, SumAtTimes
<1> QED BY <1>3 DEF K, U, S, k, Share

LEMMA OwnSeason == ASSUME SavingsInv PROVE PricedByOwnSeason
<1> SUFFICES ASSUME NEW w \in Windows \ {RetainedWindow}, NEW side \in {"solar", "grid"},
                    TotalOf(w, side) # None, Classified(TouTotals(w), side) > 0
             PROVE  Settle(w, side, Riders) =
                      Sum({d \in DaysIn(w) : split[d] # None}, LAMBDA d :
                        Sum(TOU_PERIODS, LAMBDA p :
                          split[d][p][side] * Rate(SeasonFor(MonthOf[d]), p, Riders)))
  BY DEF PricedByOwnSeason
<1> DEFINE A == CostOf("on_peak", side, Riders)
           B == CostOf("off_peak", side, Riders)
           C == CostOf("super_off_peak", side, Riders)
           E == [d \in Days |-> A[d] + B[d]]
           H == [d \in Days |-> E[d] + C[d]]
           S == Rolled(w)
           F == PricedOf(w, side, Riders)
           cost(d, p) == split[d][p][side] * Rate(SeasonFor(MonthOf[d]), p, Riders)
           at(d) == Sum(TOU_PERIODS, LAMBDA p : cost(d, p))
<1>0. Riders \in Nat /\ S \in SUBSET Days /\ IsFiniteSet(S)
  BY SavingsAssumption, RolledAre
<1>1. "on_peak" \in TOU_PERIODS /\ "off_peak" \in TOU_PERIODS /\ "super_off_peak" \in TOU_PERIODS
  BY DEF TOU_PERIODS
<1>2. \A d \in S : A[d] \in Int /\ B[d] \in Int /\ C[d] \in Int /\ E[d] = A[d] + B[d] /\ H[d] = E[d] + C[d]
  <2>1. \A d \in S : A[d] \in Int /\ B[d] \in Int /\ C[d] \in Int
    BY <1>0, <1>1, CostIs
  <2> QED BY <1>0, <2>1
<1>3. ASSUME NEW d \in S PROVE at(d) = H[d]
  <2> DEFINE one(p) == cost(d, p)
             G == OnSet(one, TOU_PERIODS)
  <2>1. d \in Days /\ split[d] # None
    BY <1>0 DEF Rolled
  <2>2. /\ G["on_peak"] = cost(d, "on_peak") /\ G["off_peak"] = cost(d, "off_peak")
        /\ G["super_off_peak"] = cost(d, "super_off_peak")
    BY <1>1 DEF OnSet
  <2>3. A[d] = cost(d, "on_peak") /\ B[d] = cost(d, "off_peak") /\ C[d] = cost(d, "super_off_peak")
    BY <2>1 DEF CostOf
  <2>4. at(d) = MapThenSumSet(one, TOU_PERIODS)
    BY DEF Sum
  <2> HIDE DEF cost, at, A, B, C, E, H
  <2>5. MapThenSumSet(one, TOU_PERIODS) = SumAt(G, TOU_PERIODS)
    <3> HIDE DEF one
    <3> QED BY PeriodsAre, SumIsOfFunction
  <2> HIDE DEF one, G
  <2>6. \A p \in TOU_PERIODS : G[p] \in Int
    BY <1>2, <2>2, <2>3 DEF TOU_PERIODS
  <2>7. SumAt(G, TOU_PERIODS) = G["on_peak"] + G["off_peak"] + G["super_off_peak"]
    BY <2>6, PeriodsAre
  <2> QED BY <1>2, <2>2, <2>3, <2>4, <2>5, <2>7
<1>4. Sum({d \in DaysIn(w) : split[d] # None}, LAMBDA d :
            Sum(TOU_PERIODS, LAMBDA p : split[d][p][side] * Rate(SeasonFor(MonthOf[d]), p, Riders)))
        = MapThenSumSet(at, S)
  BY DEF Sum, Rolled
<1>5. MapThenSumSet(at, S) = SumAt(H, S)
  <2> HIDE DEF at, S
  <2>1. MapThenSumSet(at, S) = SumAt(OnSet(at, S), S)
    BY <1>0, SumIsOfFunction
  <2> DEFINE G == OnSet(at, S)
  <2>2. \A d \in S : G[d] = H[d]
    <3> HIDE DEF H
    <3> QED BY <1>3 DEF OnSet
  <2> HIDE DEF G, H
  <2>3. SumAt(G, S) = SumAt(H, S)
    BY <1>0, <2>2, SumsAgree
  <2> QED BY <2>1, <2>3 DEF G
<1>6. ASSUME NEW p \in TOU_PERIODS PROVE SumAt(CostOf(p, side, Riders), S) = F[p] /\ F[p] \in Int
  <2> DEFINE K == CostOf(p, side, Riders)
  <2>1. "winter" \in SEASONS /\ "summer" \in SEASONS
    BY DEF SEASONS
  <2>2. \A d \in S : K[d] \in Int
    BY <1>0, CostIs
  <2>3. /\ SeasonDays(w, "winter") \in SUBSET Days /\ SeasonDays(w, "summer") \in SUBSET Days
        /\ SeasonDays(w, "winter") \cup SeasonDays(w, "summer") = S
        /\ SeasonDays(w, "winter") \cap SeasonDays(w, "summer") = {}
    BY RolledAre DEF SeasonDays
  <2>4. IsFiniteSet(SeasonDays(w, "winter")) /\ IsFiniteSet(SeasonDays(w, "summer"))
    BY <2>3, RolledAre
  <2>5. /\ SumAt(K, SeasonDays(w, "winter")) = Share(w, p, side, "winter") * (Charges["winter"][p] + Riders)
        /\ SumAt(K, SeasonDays(w, "summer")) = Share(w, p, side, "summer") * (Charges["summer"][p] + Riders)
    BY <1>0, <2>1, SeasonCost
  <2>6. F[p] = PricedPeriod(TouTotals(w), p, side, Riders) /\ F[p] \in Int
    BY <1>0, PricedSum DEF PricedOf
  <2> HIDE DEF K, S, F
  <2>7. SumAt(K, S) = SumAt(K, SeasonDays(w, "winter")) + SumAt(K, SeasonDays(w, "summer"))
    BY <2>2, <2>3, <2>4, SumAtUnion
  <2>8. PricedPeriod(TouTotals(w), p, side, Riders)
          = Share(w, p, side, "winter") * (Charges["winter"][p] + Riders)
              + Share(w, p, side, "summer") * (Charges["summer"][p] + Riders)
    BY <1>0, PricedIs
  <2>9. SumAt(K, S) = F[p]
    BY <2>5, <2>6, <2>7, <2>8
  <2> QED BY <2>6, <2>9 DEF K
<1>7. SumAt(A, S) = F["on_peak"] /\ SumAt(B, S) = F["off_peak"] /\ SumAt(C, S) = F["super_off_peak"]
  BY <1>1, <1>6
<1>8. Settle(w, side, Riders) = Priced(w, side, Riders)
  BY DEF Settle, Priced
<1>9. Priced(w, side, Riders) = SumAt(F, TOU_PERIODS) /\ \A p \in TOU_PERIODS : F[p] \in Int
  BY <1>0, PricedSum
<1> HIDE DEF A, B, C, E, H, S, F, at
<1>10. SumAt(F, TOU_PERIODS) = F["on_peak"] + F["off_peak"] + F["super_off_peak"]
  BY <1>9, PeriodsAre
<1>11. SumAt(E, S) = SumAt(A, S) + 1 * SumAt(B, S)
  <2>1. \A d \in S : A[d] \in Int /\ B[d] \in Int /\ E[d] = A[d] + 1 * B[d]
    BY <1>2
  <2>2. 1 \in Int
    OBVIOUS
  <2> QED BY <1>0, <2>1, <2>2, SumAtLinear
<1>12. SumAt(H, S) = SumAt(E, S) + 1 * SumAt(C, S)
  <2>1. \A d \in S : E[d] \in Int /\ C[d] \in Int /\ H[d] = E[d] + 1 * C[d]
    BY <1>2
  <2>2. 1 \in Int
    OBVIOUS
  <2> QED BY <1>0, <2>1, <2>2, SumAtLinear
<1>13. SumAt(H, S) = F["on_peak"] + F["off_peak"] + F["super_off_peak"]
  BY <1>1, <1>7, <1>9, <1>11, <1>12
<1> QED BY <1>4, <1>5, <1>8, <1>9, <1>10, <1>13

-----------------------------------------------------------------------------
(* The year is its months.                                                 *)

\* The months of the year the history has days of.
MeasuredMonths == {m \in Months : m >= YearStart /\ TotalOf(MonthWindow(m), "grid") # None}

LEMMA MonthDays ==
    ASSUME SavingsInv, NEW m \in Months
    PROVE  /\ MonthWindow(m) \in Windows /\ MonthWindow(m) # RetainedWindow
           /\ MonthWindow(m).start = 2 * First(m) /\ MonthWindow(m).end = 2 * First(m + 1)
           /\ DaysIn(MonthWindow(m)) = {d \in Days : MonthOf[d] = m}
<1> DEFINE w == MonthWindow(m)
<1>0. /\ m \in 1..(MonthCount + 1) /\ m + 1 \in 1..(MonthCount + 1) /\ Days = 0..(DayCount - 1)
      /\ DayCount \in Nat
  BY MonthsAre, DaysAre
<1>1. w \in Windows
  BY DEF Windows
<1>2. w # RetainedWindow
  BY <1>1, WindowsAre
<1>3. First(m) + MonthLengths[m] = First(m + 1) /\ First(m) \in Nat /\ First(m + 1) \in Nat
  BY <1>0, FirstNext
<1>4. w.start = 2 * First(m) /\ w.end = 2 * First(m + 1)
  BY <1>3 DEF MonthWindow
<1> HIDE DEF w
<1>5. ASSUME NEW d \in Days PROVE w.start <= 2 * d /\ 2 * d < w.end <=> MonthOf[d] = m
  <2>1. d \in Nat
    BY <1>0
  <2>2. w.start <= 2 * d /\ 2 * d < w.end <=> First(m) <= d /\ d < First(m + 1)
    BY <1>3, <1>4, <2>1
  <2>3. First(m) <= d /\ d < First(m + 1) <=> MonthOf[d] = m
    BY MonthOfDay
  <2> QED BY <2>2, <2>3
<1>6. DaysIn(w) = {d \in Days : MonthOf[d] = m}
  BY <1>5 DEF DaysIn
<1> QED BY <1>1, <1>2, <1>4, <1>6 DEF w

LEMMA YearDays ==
    ASSUME SavingsInv
    PROVE  /\ YearWindow \in Windows /\ YearWindow # RetainedWindow
           /\ YearWindow.start \div 2 = First(YearStart) /\ PlanEnd(YearWindow) = clock
           /\ DaysIn(YearWindow) = {d \in Days : MonthOf[d] >= YearStart}
<1> DEFINE w == YearWindow
           y == YearStart
<1>0. /\ y \in Months /\ y \in 1..(MonthCount + 1) /\ Days = 0..(DayCount - 1) /\ DayCount \in Nat
      /\ Cardinality(Days) = DayCount /\ clock \in Nat /\ clock <= 2 * DayCount - 1 /\ Months = 1..MonthCount
      /\ MonthCount \in Nat
  BY MonthsAre, DaysAre DEF SavingsInv
<1>1. w \in Windows
  BY DEF Windows
<1>2. w # RetainedWindow
  BY <1>1, WindowsAre
<1>3. w.start = 2 * First(y) /\ w.end = 2 * DayCount /\ First(y) \in Nat
  BY <1>0, FirstNext DEF YearWindow
<1> HIDE DEF w, y
<1>4. w.start \div 2 = First(y)
  BY <1>3
<1>5. PlanEnd(w) = clock
  BY <1>0, <1>3 DEF PlanEnd
<1>6. ASSUME NEW d \in Days PROVE w.start <= 2 * d /\ 2 * d < w.end <=> MonthOf[d] >= y
  <2> DEFINE l == MonthOf[d]
  <2>1. d \in Nat /\ d < DayCount /\ l \in Months /\ First(l) <= d /\ d < First(l + 1)
    BY <1>0, MonthOfDay
  <2> HIDE DEF l
  <2>2. l \in 1..(MonthCount + 1) /\ l + 1 \in 1..(MonthCount + 1) /\ l \in Int /\ y \in Int
    BY <1>0, <2>1
  <2>3. First(l) \in Nat /\ First(l + 1) \in Nat
    BY <2>2, FirstNext
  <2>4. w.start <= 2 * d /\ 2 * d < w.end <=> First(y) <= d
    BY <1>0, <1>3, <2>1
  <2>5. CASE l >= y
    <3>1. First(y) <= First(l)
      BY <1>0, <2>2, <2>5, FirstMonotone
    <3>2. First(y) <= d
      BY <1>3, <2>1, <2>3, <3>1
    <3> QED BY <2>4, <2>5, <3>2 DEF l
  <2>6. CASE ~(l >= y)
    <3>1. l + 1 <= y
      BY <2>2, <2>6
    <3>2. First(l + 1) <= First(y)
      BY <1>0, <2>2, <3>1, FirstMonotone
    <3>3. ~(First(y) <= d)
      BY <1>3, <2>1, <2>3, <3>2
    <3> QED BY <2>4, <2>6, <3>3 DEF l
  <2> QED BY <2>5, <2>6
<1>7. DaysIn(w) = {d \in Days : MonthOf[d] >= y}
  BY <1>6 DEF DaysIn
<1> QED BY <1>1, <1>2, <1>4, <1>5, <1>7 DEF w, y

\* A month is measured when one of its days was read, and rolled up only then.
LEMMA MeasuredIs ==
    ASSUME SavingsInv, NEW m \in Months
    PROVE  /\ TotalOf(MonthWindow(m), "grid") # None <=> \E d \in Days : MonthOf[d] = m /\ total[d] # None
           /\ TotalOf(MonthWindow(m), "grid") # None => 2 * First(m) < clock
           /\ TotalOf(MonthWindow(m), "grid") = None => Rolled(MonthWindow(m)) = {}
<1> DEFINE w == MonthWindow(m)
<1>1. w # RetainedWindow /\ DaysIn(w) = {d \in Days : MonthOf[d] = m}
  BY MonthDays
<1> HIDE DEF w
<1>2. \A d \in Days : total[d] # None => total[d]["grid"] # None
  <2> SUFFICES ASSUME NEW d \in Days, total[d] # None PROVE total[d]["grid"] # None
    OBVIOUS
  <2>1. total[d] \in Totals
    BY DEF SavingsInv
  <2> QED BY <2>1, SavingsAssumption DEF Totals
<1>3. Totalled(w, "grid") = {d \in Days : MonthOf[d] = m /\ total[d] # None}
  BY <1>1, <1>2 DEF Totalled
<1>4. TotalOf(w, "grid") # None <=> \E d \in Days : MonthOf[d] = m /\ total[d] # None
  BY <1>3, TotalIs
<1>5. ASSUME NEW d \in Days, MonthOf[d] = m, total[d] # None PROVE 2 * First(m) < clock
  <2>1. First(m) <= d /\ 2 * d + 1 <= clock
    BY <1>5, MonthOfDay DEF SavingsInv
  <2>2. First(m) \in Nat /\ d \in Nat /\ clock \in Nat
    <3>1. m \in 1..(MonthCount + 1) /\ d \in Nat
      BY MonthsAre, DaysAre
    <3> QED BY <3>1, FirstNext DEF SavingsInv
  <2> QED BY <2>1, <2>2
<1>6. TotalOf(w, "grid") = None => Rolled(w) = {}
  BY <1>1, <1>4 DEF Rolled, SavingsInv
<1> QED BY <1>4, <1>5, <1>6 DEF w

\* Seen from the year or from itself, a month adds the same to the plan.
MonthEntry(m) == EntryAt(MonthWindow(m), First(m))

LEMMA SameEntry ==
    ASSUME SavingsInv, NEW m \in Months, 2 * First(m) < clock
    PROVE  /\ First(m) \in Days /\ First(m) \in 0..DayCount /\ NextMonth(First(m)) = First(m + 1)
           /\ MonthEntry(m) \in PlanEntries
           /\ m >= YearStart => EntryAt(YearWindow, First(m)) = MonthEntry(m)
           /\ MonthEntry(m).grid = SumAt(DayUse("grid"), Rolled(MonthWindow(m)))
           /\ \A V \in [PlanEntries -> Int] : PlanSum(V, TierPlan(MonthWindow(m))) = V[MonthEntry(m)]
<1> DEFINE w == MonthWindow(m)
           y == YearWindow
           c == First(m)
           n == First(m + 1)
<1>0. /\ clock \in Nat /\ DayCount \in Nat \ {0} /\ Days = 0..(DayCount - 1) /\ clock <= 2 * DayCount - 1
      /\ c \in Nat /\ n \in Nat /\ c < n
  <2>1. m \in 1..(MonthCount + 1) /\ m + 1 \in 1..(MonthCount + 1)
    BY MonthsAre
  <2>2. c \in Nat /\ n \in Nat /\ n = c + MonthLengths[m] /\ MonthLengths[m] \in Nat \ {0}
    BY <2>1, FirstNext, MonthsAre
  <2> QED BY <2>2, DaysAre DEF SavingsInv
<1>1. /\ w \in Windows /\ w.start = 2 * c /\ w.end = 2 * n
      /\ DaysIn(w) = {d \in Days : MonthOf[d] = m}
  BY MonthDays
<1>2. y \in Windows /\ PlanEnd(y) = clock /\ DaysIn(y) = {d \in Days : MonthOf[d] >= YearStart}
  BY YearDays
<1>3. c \in Days /\ c \in 0..DayCount /\ MonthOf[c] = m
  <2>1. c \in Days /\ c \in 0..DayCount /\ c <= c
    BY <1>0
  <2>2. MonthOf[c] = m
    BY <1>0, <2>1, MonthOfDay
  <2> QED BY <2>1, <2>2
<1>4. NextMonth(c) = n /\ n \in 0..DayCount
  <2>1. NextMonth(c) = n /\ n \in (c + 1)..DayCount
    BY <1>3, NextMonthIs
  <2> QED BY <1>0, <2>1
<1>5. PlanEnd(w) = IF 2 * n < clock THEN 2 * n ELSE clock
  BY <1>1 DEF PlanEnd
<1>6. 2 * c < PlanEnd(w) /\ 2 * n >= PlanEnd(w)
  BY <1>0, <1>5
<1>7. EntryEnd(w, c) = EntryEnd(y, c)
  <2>1. EntryEnd(y, c) = IF 2 * n < clock THEN 2 * n ELSE clock
    BY <1>2, <1>4 DEF EntryEnd
  <2>2. ~(2 * n < PlanEnd(w))
    BY <1>0, <1>5
  <2>3. EntryEnd(w, c) = PlanEnd(w)
    BY <1>4, <2>2 DEF EntryEnd
  <2> QED BY <1>5, <2>1, <2>3
<1>8. m >= YearStart => MonthGrid(w, m) = MonthGrid(y, m)
  <2> SUFFICES ASSUME m >= YearStart PROVE MonthGrid(w, m) = MonthGrid(y, m)
    OBVIOUS
  <2>1. {d \in Rolled(w) : MonthOf[d] = m} = {d \in Rolled(y) : MonthOf[d] = m}
    BY <1>1, <1>2 DEF Rolled
  <2> QED BY <2>1, MonthGridIs
<1>9. m >= YearStart => EntryAt(y, c) = EntryAt(w, c)
  BY <1>3, <1>7, <1>8 DEF EntryAt
<1>10. EntryAt(w, c) \in PlanEntries
  BY <1>1, <1>3, <1>6, EntryIs
<1>11. EntryAt(w, c).grid = SumAt(DayUse("grid"), Rolled(w))
  <2>1. {d \in Rolled(w) : MonthOf[d] = m} = Rolled(w)
    BY <1>1 DEF Rolled
  <2>2. EntryAt(w, c).grid = MonthGrid(w, m)
    BY <1>3 DEF EntryAt
  <2> QED BY <2>1, <2>2, MonthGridIs
<1>12. ASSUME NEW V \in [PlanEntries -> Int] PROVE PlanSum(V, TierPlan(w)) = V[EntryAt(w, c)]
  <2>1. w.start \div 2 = c
    BY <1>0, <1>1
  <2>2. TierPlan(w) = PlanFrom(w)[c]
    BY <2>1, PlanIs
  <2>3. PlanSum(V, PlanFrom(w)[c]) = V[EntryAt(w, c)] + PlanSum(V, PlanFrom(w)[n])
    BY <1>1, <1>3, <1>4, <1>6, PlanSumStep
  <2>4. PlanSum(V, PlanFrom(w)[n]) = 0
    BY <1>1, <1>4, <1>6, PlanSumStep
  <2>5. V[EntryAt(w, c)] \in Int
    BY <1>10
  <2> QED BY <2>2, <2>3, <2>4, <2>5
<1> QED BY <1>3, <1>4, <1>9, <1>10, <1>11, <1>12 DEF MonthEntry

\* What the months add to a sum over the plan of the year.
MonthValues(V) == [m \in Months |-> V[MonthEntry(m)]]

\* A month of no energy adds nothing.
Ignores(V) == V \in [PlanEntries -> Int] /\ \A e \in PlanEntries : e.grid = 0 => V[e] = 0

LEMMA YearPlan ==
    ASSUME SavingsInv, NEW V, Ignores(V)
    PROVE  PlanSum(V, TierPlan(YearWindow)) = SumAt(MonthValues(V), MeasuredMonths)
<1> DEFINE y == YearWindow
           M == MonthCount + 1
           F == MonthValues(V)
           Later(m) == {l \in MeasuredMonths : l >= m}
           Holds(m) == PlanSum(V, PlanFrom(y)[First(m)]) = SumAt(F, Later(m))
           good == {m \in 0..M : m >= YearStart => Holds(m)}
<1>0. /\ clock \in Nat /\ DayCount \in Nat \ {0} /\ Days = 0..(DayCount - 1) /\ M \in Nat \ {0}
      /\ Months = 1..MonthCount /\ YearStart \in Months /\ MonthCount \in Nat /\ clock <= 2 * DayCount - 1
  BY MonthsAre, DaysAre DEF SavingsInv
<1>1. y \in Windows /\ PlanEnd(y) = clock /\ y.start \div 2 = First(YearStart)
  BY YearDays
<1>2. V \in [PlanEntries -> Int] /\ \A e \in PlanEntries : e.grid = 0 => V[e] = 0
  BY DEF Ignores
<1>3. MeasuredMonths \subseteq Months /\ \A S \in SUBSET Months : IsFiniteSet(S)
  <2>1. IsFiniteSet(Months)
    <3>1. 1 \in Int /\ MonthCount \in Int
      BY <1>0
    <3> QED BY <1>0, <3>1, FS_Interval
  <2> QED BY <2>1, FS_Subset DEF MeasuredMonths
<1>4. \A l \in MeasuredMonths : 2 * First(l) < clock
  BY MeasuredIs DEF MeasuredMonths
<1>5. \A l \in MeasuredMonths : F[l] \in Int
  <2> SUFFICES ASSUME NEW l \in MeasuredMonths PROVE F[l] \in Int
    OBVIOUS
  <2>1. l \in Months /\ MonthEntry(l) \in PlanEntries
    BY <1>3, <1>4, SameEntry
  <2> QED BY <1>2, <2>1 DEF MonthValues
<1>6. Descends(M, good)
  <2> SUFFICES ASSUME NEW m \in 0..M, \A x \in (m + 1)..M : x \in good, m >= YearStart
               PROVE  Holds(m)
    BY DEF Descends
  <2>1. m \in 1..(MonthCount + 1) /\ m \in Nat /\ m <= m
    BY <1>0
  <2>2. First(m) \in 0..DayCount /\ First(m) \in Nat
    BY <2>1, FirstMonotone, FirstNext
  <2> HIDE DEF F
  <2>3. CASE 2 * First(m) >= clock
    <3>1. PlanSum(V, PlanFrom(y)[First(m)]) = 0
      BY <1>1, <1>2, <2>2, <2>3, PlanSumStep
    <3>2. \A l \in MeasuredMonths : ~(l >= m)
      <4> SUFFICES ASSUME NEW l \in MeasuredMonths, l >= m PROVE FALSE
        OBVIOUS
      <4>1. l \in 1..(MonthCount + 1) /\ 2 * First(l) < clock
        BY <1>0, <1>3, <1>4
      <4>2. First(m) <= First(l) /\ First(l) \in Nat
        BY <2>1, <4>1, FirstMonotone, FirstNext
      <4> QED BY <1>0, <2>2, <2>3, <4>1, <4>2
    <3>3. Later(m) = {}
      BY <3>2
    <3>4. SumAt(F, Later(m)) = 0
      BY <3>3, SumAtEmpty
    <3> QED BY <3>1, <3>4
  <2>4. CASE ~(2 * First(m) >= clock)
    <3>1. 2 * First(m) < clock
      BY <1>0, <2>2, <2>4
    <3>2. m \in Months
      <4>1. m # MonthCount + 1
        BY <1>0, <2>2, <3>1 DEF DayCount
      <4> QED BY <1>0, <2>1, <4>1
    <3> DEFINE e == MonthEntry(m)
    <3>3. /\ NextMonth(First(m)) = First(m + 1) /\ e \in PlanEntries
          /\ EntryAt(y, First(m)) = e /\ e.grid = SumAt(DayUse("grid"), Rolled(MonthWindow(m)))
      BY <3>1, <3>2, SameEntry
    <3> HIDE DEF e
    <3>4. PlanSum(V, PlanFrom(y)[First(m)]) = V[e] + PlanSum(V, PlanFrom(y)[First(m + 1)])
      BY <1>1, <1>2, <2>2, <3>1, <3>3, PlanSumStep
    <3>5. Holds(m + 1)
      <4>1. m + 1 \in (m + 1)..M /\ m + 1 >= YearStart
        BY <1>0, <2>1, <3>2
      <4> HIDE DEF Holds, M
      <4> QED BY <4>1
    <3>6. V[e] \in Int
      BY <1>2, <3>3
    <3>7. F[m] = V[e]
      BY <3>2 DEF F, MonthValues, e
    <3>8. IsFiniteSet(Later(m + 1)) /\ \A l \in Later(m + 1) : F[l] \in Int
      BY <1>3, <1>5
    <3>9. SumAt(F, Later(m)) = V[e] + SumAt(F, Later(m + 1))
      <4>1. CASE m \in MeasuredMonths
        <5>1. Later(m) = Later(m + 1) \cup {m} /\ m \notin Later(m + 1)
          <6> SUFFICES ASSUME NEW l \in MeasuredMonths
                       PROVE  (l >= m <=> l >= m + 1 \/ l = m) /\ ~(m >= m + 1)
            BY <4>1, <2>1
          <6>1. l \in Int
            BY <1>0, <1>3
          <6> QED BY <2>1, <6>1
        <5> HIDE DEF Later
        <5>2. SumAt(F, Later(m + 1) \cup {m}) = F[m] + SumAt(F, Later(m + 1))
          BY <3>6, <3>7, <3>8, <5>1, SumAtMore
        <5> QED BY <3>7, <5>1, <5>2
      <4>2. CASE m \notin MeasuredMonths
        <5>1. Later(m) = Later(m + 1)
          <6> SUFFICES ASSUME NEW l \in MeasuredMonths PROVE l >= m <=> l >= m + 1
            OBVIOUS
          <6>1. l \in Int /\ l # m
            BY <1>0, <1>3, <4>2
          <6> QED BY <2>1, <6>1
        <5>2. TotalOf(MonthWindow(m), "grid") = None
          BY <3>2, <4>2 DEF MeasuredMonths
        <5>3. Rolled(MonthWindow(m)) = {}
          BY <3>2, <5>2, MeasuredIs
        <5>4. e.grid = 0
          BY <3>3, <5>3, SumAtEmpty
        <5>5. V[e] = 0
          BY <1>2, <3>3, <5>4
        <5>6. SumAt(F, Later(m + 1)) \in Int
          <6> HIDE DEF Later
          <6> QED BY <3>8, SumAtOne
        <5> HIDE DEF Later
        <5> QED BY <5>1, <5>5, <5>6
      <4> QED BY <4>1, <4>2
    <3> QED BY <3>4, <3>5, <3>9
  <2> QED BY <2>3, <2>4
<1> HIDE DEF good, Holds
<1>7. YearStart \in good
  <2>1. 0..M \subseteq good
    BY <1>0, <1>6, FromTheLast
  <2> QED BY <1>0, <2>1
<1>8. Holds(YearStart)
  <2>1. YearStart >= YearStart
    BY <1>0
  <2> QED BY <1>7, <2>1 DEF good
<1>9. Later(YearStart) = MeasuredMonths
  BY DEF MeasuredMonths
<1>10. TierPlan(y) = PlanFrom(y)[First(YearStart)]
  BY <1>1, PlanIs
<1> QED BY <1>8, <1>9, <1>10 DEF Holds

LEMMA IgnoresEmpty == Ignores(GridOf) /\ Ignores(WithinOf)
<1>1. GridOf \in [PlanEntries -> Int] /\ \A e \in PlanEntries : GridOf[e] = e.grid
  BY DEF GridOf, PlanEntries
<1>2. WithinOf \in [PlanEntries -> Int]
  <2>1. \A e \in PlanEntries : WithinOf[e] \in Int
    <3> SUFFICES ASSUME NEW e \in PlanEntries PROVE WithinOf[e] \in Int
      OBVIOUS
    <3>1. WithinOf[e] \in Nat
      BY WithinIs
    <3> QED BY <3>1
  <2>2. WithinOf = [e \in PlanEntries |-> WithinOf[e]]
    BY DEF WithinOf
  <2> QED BY <2>1, <2>2
<1>3. \A e \in PlanEntries : e.grid = 0 => WithinOf[e] = 0
  BY WithinIs
<1> QED BY <1>1, <1>2, <1>3 DEF Ignores

\* A bill for the energy of its plan has the blocks of its plan.
LEMMA BillOfPlan ==
    ASSUME SavingsInv, NEW w \in Windows, Classified(TouTotals(w), "grid") > 0, NEW r \in Nat
    PROVE  ComparisonCost(w, r)
             = PlanSum(WithinOf, TierPlan(w)) * (Tier1 + r)
                 + (PlanSum(GridOf, TierPlan(w)) - PlanSum(WithinOf, TierPlan(w))) * (Tier2 + r)
<1>1. TierPlan(w) \in Seq(PlanEntries) /\ PlanSum(GridOf, TierPlan(w)) = SumAt(DayUse("grid"), Rolled(w))
  BY PlanOf
<1>2. PICK g \in Nat : g = Classified(TouTotals(w), "grid") /\ g = PlanSum(GridOf, TierPlan(w)) /\ g > 0
  BY <1>1, ClassifiedIs
<1>3. Compared(w) = g /\ g # None
  BY <1>2, SavingsAssumption DEF Compared
<1>4. ComparisonCost(w, r) = TieredCost(g, TierPlan(w), r)
  BY <1>3 DEF ComparisonCost
<1>5. g \in Int
  BY <1>2
<1>6. TieredCost(g, TierPlan(w), r)
        = FirstTier(g, TierPlan(w)) * (Tier1 + r) + (g - FirstTier(g, TierPlan(w))) * (Tier2 + r)
  BY <1>1, <1>5, TieredIs
<1>7. FirstTier(g, TierPlan(w)) = PlanSum(WithinOf, TierPlan(w))
  BY <1>1, <1>2, <1>5, TieredIs
<1> QED BY <1>2, <1>4, <1>6, <1>7

LEMMA YearAddsUp == ASSUME SavingsInv PROVE YearIsItsMonths
<1> DEFINE y == YearWindow
           at(m) == ComparisonCost(MonthWindow(m), Riders)
           G == MonthValues(GridOf)
           W == MonthValues(WithinOf)
           H == OnSet(at, MeasuredMonths)
           a == Tier1 + Riders
           b == Tier2 + Riders
           E == [m \in Months |-> b * G[m]]
<1> SUFFICES ASSUME \A m \in MeasuredMonths : Classified(TouTotals(MonthWindow(m)), "grid") > 0
             PROVE  IF MeasuredMonths = {} THEN ComparisonCost(y, Riders) = None
                    ELSE ComparisonCost(y, Riders) = Sum(MeasuredMonths, LAMBDA m : at(m))
  BY DEF YearIsItsMonths, MeasuredMonths
<1>0. /\ Months = 1..MonthCount /\ MonthCount \in Nat /\ Riders \in Nat /\ a \in Nat /\ b \in Nat
      /\ None \notin Int
  <2>1. Tier1 \in Nat /\ Tier2 \in Nat /\ Riders \in Nat /\ None \notin Int
    BY SavingsAssumption
  <2> QED BY <2>1, MonthsAre
<1>1. y \in Windows /\ y # RetainedWindow /\ DaysIn(y) = {d \in Days : MonthOf[d] >= YearStart}
  BY YearDays
<1>2. MeasuredMonths \subseteq Months /\ IsFiniteSet(MeasuredMonths)
  <2>1. IsFiniteSet(Months)
    <3>1. 1 \in Int /\ MonthCount \in Int
      BY <1>0
    <3> QED BY <1>0, <3>1, FS_Interval
  <2> QED BY <2>1, FS_Subset DEF MeasuredMonths
<1>3. CASE MeasuredMonths = {}
  <2>1. \A d \in DaysIn(y) : total[d] = None
    <3> SUFFICES ASSUME NEW d \in DaysIn(y), total[d] # None PROVE FALSE
      OBVIOUS
    <3>1. d \in Days /\ MonthOf[d] \in Months /\ MonthOf[d] >= YearStart
      BY <1>1, MonthOfDay
    <3>2. TotalOf(MonthWindow(MonthOf[d]), "grid") # None
      BY <3>1, MeasuredIs
    <3> QED BY <1>3, <3>1, <3>2 DEF MeasuredMonths
  <2>2. Totalled(y, "grid") = {}
    BY <1>1, <2>1 DEF Totalled
  <2>3. TotalOf(y, "grid") = None
    BY <2>2, TotalIs
  <2>4. Rolled(y) = {}
    BY <1>1, <2>1 DEF Rolled, SavingsInv
  <2>5. Classified(TouTotals(y), "grid") = 0
    BY <2>4, ClassifiedIs, SumAtEmpty
  <2>6. Compared(y) = None
    BY <2>3, <2>5 DEF Compared
  <2>7. ComparisonCost(y, Riders) = None
    BY <2>6 DEF ComparisonCost
  <2> QED BY <1>3, <2>7
<1>4. CASE MeasuredMonths # {}
  <2>1. ASSUME NEW m \in MeasuredMonths
        PROVE  /\ G[m] \in Nat \ {0} /\ W[m] \in Nat /\ H[m] = W[m] * a + (G[m] - W[m]) * b
    <3> DEFINE w == MonthWindow(m)
               e == MonthEntry(m)
    <3>1. m \in Months /\ w \in Windows /\ 2 * First(m) < clock
      BY <1>2, MonthDays, MeasuredIs DEF MeasuredMonths
    <3>2. /\ e \in PlanEntries /\ e.grid = SumAt(DayUse("grid"), Rolled(w))
          /\ \A V \in [PlanEntries -> Int] : PlanSum(V, TierPlan(w)) = V[e]
      BY <3>1, SameEntry
    <3>3. GridOf \in [PlanEntries -> Int] /\ WithinOf \in [PlanEntries -> Int]
      BY IgnoresEmpty DEF Ignores
    <3>4. G[m] = GridOf[e] /\ W[m] = WithinOf[e]
      BY <3>1 DEF MonthValues
    <3>5. GridOf[e] = e.grid /\ WithinOf[e] \in Nat
      BY <3>2, WithinIs DEF GridOf
    <3>6. Classified(TouTotals(w), "grid") = e.grid /\ e.grid \in Nat /\ e.grid > 0
      <4>1. Classified(TouTotals(w), "grid") = SumAt(DayUse("grid"), Rolled(w))
            /\ SumAt(DayUse("grid"), Rolled(w)) \in Nat
        BY ClassifiedIs
      <4> QED BY <3>2, <4>1
    <3>7. PlanSum(GridOf, TierPlan(w)) = GridOf[e] /\ PlanSum(WithinOf, TierPlan(w)) = WithinOf[e]
      BY <3>2, <3>3
    <3>8. at(m) = PlanSum(WithinOf, TierPlan(w)) * (Tier1 + Riders)
                    + (PlanSum(GridOf, TierPlan(w)) - PlanSum(WithinOf, TierPlan(w))) * (Tier2 + Riders)
      BY <1>0, <3>1, <3>6, BillOfPlan
    <3>9. H[m] = at(m)
      BY DEF OnSet
    <3> HIDE DEF w, e, at, G, W, H
    <3>10. H[m] = W[m] * a + (G[m] - W[m]) * b
      BY <3>4, <3>7, <3>8, <3>9
    <3>11. G[m] \in Nat \ {0} /\ W[m] \in Nat
      BY <3>4, <3>5, <3>6
    <3> QED BY <3>10, <3>11
  <2>2. Sum(MeasuredMonths, LAMBDA m : at(m)) = SumAt(H, MeasuredMonths)
    <3>1. Sum(MeasuredMonths, LAMBDA m : at(m)) = MapThenSumSet(at, MeasuredMonths)
      BY DEF Sum
    <3> HIDE DEF at
    <3>2. MapThenSumSet(at, MeasuredMonths) = SumAt(OnSet(at, MeasuredMonths), MeasuredMonths)
      BY <1>2, SumIsOfFunction
    <3> QED BY <3>1, <3>2
  <2>3. PlanSum(GridOf, TierPlan(y)) = SumAt(G, MeasuredMonths) /\ PlanSum(WithinOf, TierPlan(y)) = SumAt(W, MeasuredMonths)
    BY IgnoresEmpty, YearPlan
  <2>4. \A m \in Months : E[m] = b * G[m]
    OBVIOUS
  <2> HIDE DEF G, W, H, E, a, b, at
  <2>5. SumAt(G, MeasuredMonths) \in Nat \ {0} /\ SumAt(W, MeasuredMonths) \in Nat
    BY <1>2, <1>4, <2>1, SumPositive, SumAtNat
  <2>6. Classified(TouTotals(y), "grid") > 0
    <3>1. PlanSum(GridOf, TierPlan(y)) = SumAt(DayUse("grid"), Rolled(y))
      BY <1>1, PlanOf
    <3>2. Classified(TouTotals(y), "grid") = SumAt(DayUse("grid"), Rolled(y))
      BY ClassifiedIs
    <3> QED BY <2>3, <2>5, <3>1, <3>2
  <2>7. ComparisonCost(y, Riders) = SumAt(W, MeasuredMonths) * a + (SumAt(G, MeasuredMonths) - SumAt(W, MeasuredMonths)) * b
    <3>1. ComparisonCost(y, Riders)
            = PlanSum(WithinOf, TierPlan(y)) * (Tier1 + Riders)
                + (PlanSum(GridOf, TierPlan(y)) - PlanSum(WithinOf, TierPlan(y))) * (Tier2 + Riders)
      BY <1>0, <1>1, <2>6, BillOfPlan
    <3> QED BY <2>3, <3>1 DEF a, b
  <2>8. SumAt(E, MeasuredMonths) = b * SumAt(G, MeasuredMonths)
    <3>1. \A m \in MeasuredMonths : G[m] \in Int /\ E[m] = b * G[m]
      BY <1>2, <2>1, <2>4
    <3>2. b \in Int
      BY <1>0
    <3> QED BY <1>2, <3>1, <3>2, SumAtTimes
  <2>9. SumAt(H, MeasuredMonths) = SumAt(E, MeasuredMonths) + (a - b) * SumAt(W, MeasuredMonths)
    <3>1. ASSUME NEW m \in MeasuredMonths
          PROVE  E[m] \in Int /\ W[m] \in Int /\ H[m] = E[m] + (a - b) * W[m]
      <4>1. PICK g \in Nat, v \in Nat : g = G[m] /\ v = W[m]
        BY <2>1
      <4>2. H[m] = v * a + (g - v) * b /\ E[m] = b * g
        BY <1>2, <2>1, <2>4, <4>1
      <4>3. v * a + (g - v) * b = b * g + (a - b) * v /\ b * g \in Int
        BY <1>0
      <4> QED BY <4>1, <4>2, <4>3
    <3>2. a - b \in Int
      BY <1>0
    <3> QED BY <1>2, <3>1, <3>2, SumAtLinear
  <2>10. PICK g \in Nat, v \in Nat : g = SumAt(G, MeasuredMonths) /\ v = SumAt(W, MeasuredMonths)
    BY <2>5
  <2>11. v * a + (g - v) * b = b * g + (a - b) * v
    BY <1>0
  <2>12. ComparisonCost(y, Riders) = SumAt(H, MeasuredMonths)
    BY <2>7, <2>8, <2>9, <2>10, <2>11
  <2> QED BY <1>4, <2>2, <2>12
<1> QED BY <1>3, <1>4

-----------------------------------------------------------------------------
(* The pages.                                                              *)

PagesInv == ViewsInv /\ RackInv /\ InventoryInv /\ SavingsInv

LEMMA PagesAlways == PageSpec => []PagesInv
<1>1. PageInit => PagesInv
  BY ViewsStart, RackStart, InventoryStart, SavingsStart DEF PageInit, PagesInv
<1>2. PagesInv /\ [PageNext]_pageVars => PagesInv'
  <2> SUFFICES ASSUME PagesInv, [PageNext]_pageVars PROVE PagesInv'
    OBVIOUS
  <2>1. /\ [ViewsNext]_viewVars /\ [RackNext]_rackVars
        /\ [InventoryNext]_inventoryVars /\ [SavingsNext]_savingsVars
    BY DEF PageNext, pageVars
  <2> QED BY <2>1, ViewsStep, RackStep, InventoryStep, SavingsStep DEF PagesInv
<1> QED BY <1>1, <1>2, PTL DEF PageSpec

\* The inputs of the pages keep their types: of the savings panel, no day has a
\* roll-up before it was read, nor one of more than it used.
THEOREM PagesAreTyped == PageSpec => []PageTypeOK
<1>1. PagesInv => PageTypeOK
  BY ViewsTyped, RackTyped, InventoryTyped, SavingsTyped DEF PagesInv, PageTypeOK
<1> QED BY <1>1, PagesAlways, PTL

\* The cards of the packs are those of the batteries reported, whatever is saved.
THEOREM CardsHold ==
    ASSUME BaseIdsDiffer PROVE PageSpec => []CardsAreTheBatteries
<1>1. PagesInv => CardsAreTheBatteries
  BY EveryCard, EveryForm, ShownRowsPass DEF PagesInv, CardsAreTheBatteries
<1> QED BY <1>1, PagesAlways, PTL

\* The rack's state of charge is its packs', where a pack's own is what it holds of
\* what it can hold.
THEOREM RackHolds ==
    ASSUME \A r \in Readings : Agrees(r)
    PROVE  PageSpec => []RackIsItsPacks
<1>1. PagesInv => RackIsItsPacks
  BY RackIs DEF PagesInv
<1> QED BY <1>1, PagesAlways, PTL

\* Bars show no more than was used near them, and all of what was used in a window
\* that was read throughout, where the counter reads more at midnight than a bucket
\* of the Date view can use.
THEOREM BarsHold == ASSUME StartsAt > PerHour PROVE PageSpec => []BarsAddUp
<1>1. PagesInv => BarsAddUp
  BY BarsLow, HoursAddUp DEF PagesInv, BarsAddUp
<1> QED BY <1>1, PagesAlways, PTL

\* Both plans bill the energy that was used, each season at its own rates: riders and
\* credits cancel out of the saving, in every window and whatever is rolled up.
THEOREM BillsHold == PageSpec => []BillsAreOfTheEnergyUsed
<1>1. PagesInv => BillsAreOfTheEnergyUsed
  BY RidersOut, OwnSeason DEF PagesInv, BillsAreOfTheEnergyUsed
<1> QED BY <1>1, PagesAlways, PTL

\* The plan of a window holds all that was rolled up in it, and the year's bill is
\* the sum of its months', each with the block its days earn.
THEOREM BlocksHold == PageSpec => []BlocksAddUp
<1>1. PagesInv => BlocksAddUp
  BY YearAddsUp, KwhHaveBlocks DEF PagesInv, BlocksAddUp
<1> QED BY <1>1, PagesAlways, PTL
=============================================================================
