--------------------------- MODULE ProgramsProofs ---------------------------
(***************************************************************************)
(* Theorems about the programs beside the services: the map of readable    *)
(* registers, the snapshots, and the kiosk supervisor.                     *)
(***************************************************************************)
EXTENDS MCPrograms, FoldTheorems

-----------------------------------------------------------------------------
(* The map: one read, and the blocks of the inverter.                      *)

\* The registers from i to j are on one page.
OnePage(pages, i, j) == \A a \in i..j : pages[a] = pages[i] /\ pages[a] # NoPage

LEMMA AnswersOnePage ==
    ASSUME NEW i \in Int, NEW j \in Int, i <= j
    PROVE  MapAnswers(i..j) <=> OnePage(page, i, j)
<1>1. i \in i..j
  OBVIOUS
<1>2. MapAnswers(i..j) => OnePage(page, i, j)
  BY <1>1 DEF MapAnswers, OnePage
<1>3. ASSUME OnePage(page, i, j) PROVE MapAnswers(i..j)
  <2>1. page[i] \in {page[a] : a \in i..j}
    BY <1>1
  <2>2. page[i] # NoPage /\ \A a \in i..j : page[a] = page[i]
    BY <1>1, <1>3 DEF OnePage
  <2> QED BY <2>1, <2>2 DEF MapAnswers
<1> QED BY <1>2, <1>3

\* The ranges to sweep, and the addresses in them.
LEMMA RangeFacts ==
    /\ Len(Ranges) \in Nat /\ Len(Ranges) >= 1
    /\ \A i \in 1..Len(Ranges) :
         /\ Ranges[i][1] \in Nat /\ Ranges[i][2] \in Nat /\ Ranges[i][1] <= Ranges[i][2]
         /\ Span(Ranges[i]) \subseteq Address
    /\ Address \subseteq Nat /\ IsFiniteSet(Address)
    /\ Stride \in Nat /\ Stride >= 1 /\ EdgeRead \in Nat /\ EdgeRead >= 1
    /\ MaxReads \in Nat /\ MaxReads >= 1 /\ MapRetries \in Nat /\ MaxLinkFailures \in Nat
<1>1. Len(Ranges) \in Nat /\ Len(Ranges) >= 1
  BY SweepAssumption
<1>2. \A i \in 1..Len(Ranges) :
        Ranges[i][1] \in Nat /\ Ranges[i][2] \in Nat /\ Ranges[i][1] <= Ranges[i][2]
  <2>1. \A i \in 1..Len(Ranges) : Ranges[i] \in Nat \X Nat
    BY SweepAssumption
  <2> QED BY <2>1, SweepAssumption
<1>3. \A i \in 1..Len(Ranges) : Span(Ranges[i]) \subseteq Address
  BY DEF Address
<1>4. Address \subseteq Nat
  BY <1>2 DEF Address, Span
<1>5. IsFiniteSet(Address)
  <2> DEFINE upto(n) == UNION {Span(Ranges[i]) : i \in 1..n}
             good == {n \in Nat : n <= Len(Ranges) => IsFiniteSet(upto(n))}
  <2>1. 0 \in good
    <3>1. upto(0) = {}
      OBVIOUS
    <3> QED BY <3>1, FS_EmptySet
  <2>2. ASSUME NEW n \in Nat, n \in good PROVE n + 1 \in good
    <3> SUFFICES ASSUME n + 1 <= Len(Ranges) PROVE IsFiniteSet(upto(n + 1))
      OBVIOUS
    <3>1. IsFiniteSet(upto(n))
      BY <1>1, <2>2
    <3>2. Ranges[n + 1][1] \in Int /\ Ranges[n + 1][2] \in Int
      BY <1>1, <1>2
    <3>3. IsFiniteSet(Span(Ranges[n + 1]))
      BY <3>2, FS_Interval DEF Span
    <3>4. 1..(n + 1) = (1..n) \cup {n + 1}
      OBVIOUS
    <3>5. upto(n + 1) = upto(n) \cup Span(Ranges[n + 1])
      BY <3>4
    <3> HIDE DEF upto
    <3>6. IsFiniteSet(upto(n) \cup Span(Ranges[n + 1]))
      BY <3>1, <3>3, FS_Union, Zenon
    <3> QED BY <3>5, <3>6
  <2>3. Address = upto(Len(Ranges))
    BY DEF Address
  <2> HIDE DEF good, upto
  <2>4. Nat \subseteq good
    BY <2>1, <2>2, NaturalsFromZero
  <2>5. IsFiniteSet(upto(Len(Ranges)))
    BY <1>1, <2>4 DEF good
  <2> QED BY <2>3, <2>5
<1> QED BY <1>1, <1>2, <1>3, <1>4, <1>5, SweepAssumption

LEMMA LeastOfTwo ==
    ASSUME NEW x \in Int, NEW y \in Int
    PROVE  Min({x, y}) = IF x <= y THEN x ELSE y
BY DEF Min

\* What a read within the budget may return and cost.
LEMMA OneRead ==
    ASSUME reads \in 0..MaxReads, linkFailures \in 0..MaxLinkFailures, ~Exhausted,
           NEW span, NEW r \in ReadResults(span), Spend(span, r)
    PROVE  /\ r.outcome \in {"ok", "refused", "failed"}
           /\ r.outcome = "ok" => MapAnswers(span) /\ values' = values \cup span
           /\ r.outcome # "ok" => values' = values
           /\ r.outcome = "refused" => ~MapAnswers(span)
           /\ reads' \in 0..MaxReads /\ linkFailures' \in 0..MaxLinkFailures
           /\ reads < reads'
<1> DEFINE tries == Min({MapRetries + 1, MaxReads - reads})
<1>1. tries \in Nat /\ 1 <= tries /\ tries <= MaxReads - reads
  <2>1. MapRetries + 1 \in Int /\ MaxReads - reads \in Int /\ MapRetries + 1 >= 1
        /\ MaxReads - reads >= 1
    BY RangeFacts DEF Exhausted
  <2> QED BY <2>1, LeastOfTwo
<1>2. r \in Attempts(span, "failed")
  BY DEF ReadResults
<1>3. /\ linkFailures + r.lost <= MaxLinkFailures
      /\ \/ \E k \in 1..tries : r = [outcome |-> Told(span), spent |-> k, lost |-> k - 1]
         \/ r = [outcome |-> "failed", spent |-> tries, lost |-> tries]
  BY <1>2 DEF Attempts
<1> HIDE DEF tries
<1>4. /\ r.outcome \in {Told(span), "failed"} /\ r.spent \in 1..tries /\ r.lost \in Nat
  <2>1. CASE \E k \in 1..tries : r = [outcome |-> Told(span), spent |-> k, lost |-> k - 1]
    BY <1>1, <2>1
  <2>2. CASE r = [outcome |-> "failed", spent |-> tries, lost |-> tries]
    BY <1>1, <2>2
  <2> QED BY <1>3, <2>1, <2>2
<1>5. reads' = reads + r.spent /\ linkFailures' = linkFailures + r.lost
      /\ values' = IF r.outcome = "ok" THEN values \cup span ELSE values
  BY DEF Spend
<1>6. reads' \in 0..MaxReads /\ linkFailures' \in 0..MaxLinkFailures /\ reads < reads'
  <2>1. MaxReads \in Nat /\ MaxLinkFailures \in Nat /\ reads \in Nat /\ linkFailures \in Nat
    BY RangeFacts
  <2>2. /\ reads' = reads + r.spent /\ linkFailures' = linkFailures + r.lost
        /\ linkFailures + r.lost <= MaxLinkFailures
    BY <1>3, <1>5
  <2>3. r.spent \in Nat /\ r.lost \in Nat /\ 1 <= r.spent /\ r.spent <= MaxReads - reads
    BY <1>1, <1>4, <2>1
  <2> QED BY <2>1, <2>2, <2>3
<1>7. Told(span) \in {"ok", "refused"} /\ (Told(span) = "ok" <=> MapAnswers(span))
  BY DEF Told
<1> QED BY <1>4, <1>5, <1>6, <1>7

-----------------------------------------------------------------------------
(* The map: what has been reported of a range that is swept in part.       *)

RangesApart == \A i, j \in 1..Len(Ranges) : i # j => Span(Ranges[i]) \cap Span(Ranges[j]) = {}

\* A later range has nothing in common with an earlier one or lies inside it.
RangesNest ==
    \A i, j \in 1..Len(Ranges) :
        i < j => \/ Span(Ranges[i]) \cap Span(Ranges[j]) = {}
                 \/ Span(Ranges[j]) \subseteq Span(Ranges[i])

Walked(blocks) == UNION {Span(b) : b \in blocks}
Reported(blocks, dubious, lost) == Walked(blocks) \cup dubious \cup lost

\* The registers of the same page next to an edge are in doubt, up to the next probe
\* or the last one.
UpSettled(pages, dubious, edge, limit) ==
    \A a \in (edge + 1)..limit : (a < edge + Stride /\ OnePage(pages, edge, a)) => a \in dubious
DownSettled(pages, dubious, edge, floor) ==
    \A a \in floor..(edge - 1) : (edge < a + Stride /\ OnePage(pages, a, edge)) => a \in dubious

\* Of the registers from i to j those below p are reported, or a lost probe is.
SoFar(known, lost, i, j, p) ==
    \/ \E a \in i..j : a \in lost
    \/ \A a \in i..j : a < p => a \in known

Met(blocks, i, j) == RangesApart /\ \E a \in i..j : a \in Walked(blocks)

\* A stretch of one page is reported as far as the sweep went, if a probe must have hit
\* it or a block has some of it.
RangeSoFar(pages, blocks, dubious, lost, range, p) ==
    \A i, j \in Span(range) :
        (/\ i <= j /\ OnePage(pages, i, j)
         /\ Met(blocks, i, j) \/ (i + Stride <= j + 1 /\ i + Stride <= p))
        => SoFar(Reported(blocks, dubious, lost), lost, i, j, p)

LEMMA SoFarGrows ==
    ASSUME NEW known, NEW lost, NEW more, NEW moreLost, NEW i, NEW j, NEW p,
           known \subseteq more, lost \subseteq moreLost, SoFar(known, lost, i, j, p)
    PROVE  SoFar(more, moreLost, i, j, p)
BY DEF SoFar

\* A block around p carries what is said of a stretch on to its end and beyond.
LEMMA PastBlock ==
    ASSUME NEW pages, NEW known, NEW lost, NEW dubious, dubious \subseteq known,
           NEW low \in Int, NEW high \in Int, NEW p \in Int, NEW i \in Int, NEW j \in Int,
           NEW limit \in Int, low <= p, p <= high, low..high \subseteq known,
           UpSettled(pages, dubious, high, limit),
           j <= limit, OnePage(pages, i, j), i <= high, SoFar(known, lost, i, j, p)
    PROVE  SoFar(known, lost, i, j, high + Stride)
<1> SUFFICES ASSUME \A a \in i..j : a < p => a \in known,
                    NEW a \in i..j, a < high + Stride
             PROVE  a \in known
  BY DEF SoFar
<1>1. CASE a <= high
  BY <1>1
<1>2. CASE a > high
  <2>1. OnePage(pages, high, a)
    BY <1>2 DEF OnePage
  <2> QED BY <1>2, <2>1 DEF UpSettled
<1> QED BY <1>1, <1>2

\* Below p a block has what is said of a stretch that does not begin long before it.
LEMMA BeforeBlock ==
    ASSUME NEW pages, NEW known, NEW lost, NEW dubious, dubious \subseteq known,
           NEW low \in Int, NEW high \in Int, NEW p \in Int, NEW i \in Int, NEW j \in Int,
           NEW floor \in Int, low <= p, p <= high, low..high \subseteq known,
           DownSettled(pages, dubious, low, floor),
           floor <= i, OnePage(pages, i, j), low <= j, low < i + Stride
    PROVE  SoFar(known, lost, i, j, p)
<1> SUFFICES ASSUME NEW a \in i..j, a < p PROVE a \in known
  BY DEF SoFar
<1>1. CASE a >= low
  BY <1>1
<1>2. CASE a < low
  <2>1. OnePage(pages, a, low)
    BY <1>2 DEF OnePage
  <2>2. low < a + Stride
    BY RangeFacts
  <2> QED BY <1>2, <2>1, <2>2 DEF DownSettled
<1> QED BY <1>1, <1>2

\* A block around the probe.
LEMMA BlockSoFar ==
    ASSUME NEW pages, NEW blocks, NEW dubious, NEW more, dubious \subseteq more, NEW lost,
           NEW range \in Nat \X Nat, NEW p \in Nat, NEW low \in Nat, NEW high \in Nat,
           low <= p, p <= high,
           UpSettled(pages, more, high, range[2]), DownSettled(pages, more, low, range[1]),
           RangesApart => \A a \in Walked(blocks) : (a \in Span(range) => a < p),
           RangeSoFar(pages, blocks, dubious, lost, range, p)
    PROVE  RangeSoFar(pages, blocks \cup {<<low, high>>}, more, lost, range, high + Stride)
<1> DEFINE now == blocks \cup {<<low, high>>}
           known == Reported(now, more, lost)
<1>1. /\ Walked(now) = Walked(blocks) \cup low..high
      /\ more \subseteq known /\ low..high \subseteq known
      /\ Reported(blocks, dubious, lost) \subseteq known
    <2>1. /\ blocks \subseteq now /\ <<low, high>> \in now
        /\ \A b \in now : b \in blocks \/ b = <<low, high>>
    OBVIOUS
  <2> HIDE DEF now
  <2>2. Span(<<low, high>>) = low..high
    BY DEF Span
  <2>3. Walked(blocks) \subseteq Walked(now)
    BY <2>1 DEF Walked
  <2>4. low..high \subseteq Walked(now)
    BY <2>1, <2>2 DEF Walked
  <2>5. \A a \in Walked(now) : a \in Walked(blocks) \/ a \in low..high
    BY <2>1, <2>2 DEF Walked
  <2>6. Walked(now) = Walked(blocks) \cup low..high
    BY <2>3, <2>4, <2>5
  <2> QED BY <2>4, <2>3, <2>6 DEF Reported
<1>2. range[1] \in Int /\ range[2] \in Int /\ Stride \in Nat /\ Stride >= 1
      /\ low \in Int /\ high \in Int /\ p \in Int
  BY RangeFacts
<1> HIDE DEF now, known
<1> DEFINE floor == range[1]
           limit == range[2]
<1>a. UpSettled(pages, more, high, limit) /\ DownSettled(pages, more, low, floor)
      /\ floor \in Int /\ limit \in Int
  BY <1>2
<1> SUFFICES ASSUME NEW i \in Span(range), NEW j \in Span(range), i <= j, OnePage(pages, i, j),
                    Met(now, i, j) \/ (i + Stride <= j + 1 /\ i + Stride <= high + Stride)
             PROVE  SoFar(known, lost, i, j, high + Stride)
  BY DEF RangeSoFar, now, known
<1>3. i \in Int /\ j \in Int /\ floor <= i /\ j <= limit
  BY <1>2 DEF Span
<1> HIDE DEF floor, limit
<1>4. CASE Met(blocks, i, j) \/ (i + Stride <= j + 1 /\ i + Stride <= p)
  <2>1. SoFar(known, lost, i, j, p)
    <3>1. SoFar(Reported(blocks, dubious, lost), lost, i, j, p)
      BY <1>4 DEF RangeSoFar
    <3> QED BY <1>1, <3>1, SoFarGrows
  <2>2. i <= high
    <3>1. CASE Met(blocks, i, j)
      <4>1. PICK a \in i..j : a \in Walked(blocks)
        BY <3>1 DEF Met
      <4>2. a \in Span(range)
        BY <1>2, <1>3, <4>1 DEF Span
      <4> QED BY <1>3, <3>1, <4>1, <4>2 DEF Met
    <3>2. CASE i + Stride <= p
      BY <1>2, <1>3, <3>2
    <3> QED BY <1>4, <3>1, <3>2
  <2> QED BY <1>1, <1>2, <1>3, <1>a, <2>1, <2>2, PastBlock
<1>5. CASE ~(Met(blocks, i, j) \/ (i + Stride <= j + 1 /\ i + Stride <= p))
  <2>1. i <= high /\ low <= j
    <3>1. CASE Met(now, i, j)
      <4>1. PICK a \in i..j : a \in low..high
        BY <1>1, <1>5, <3>1 DEF Met
      <4> QED BY <1>3, <4>1
    <3>2. CASE i + Stride <= j + 1 /\ i + Stride <= high + Stride
      BY <1>2, <1>3, <1>5, <3>2
    <3> QED BY <3>1, <3>2
  <2>2. low < i + Stride
    BY <1>2, <1>3, <1>5, <2>1
  <2>3. SoFar(known, lost, i, j, p)
    BY <1>1, <1>2, <1>3, <1>a, <2>1, <2>2, BeforeBlock
  <2> QED BY <1>1, <1>2, <1>3, <1>a, <2>1, <2>3, PastBlock
<1> QED BY <1>4, <1>5

\* A probe that is refused or lost.
LEMMA ProbeSoFar ==
    ASSUME NEW pages, NEW blocks, NEW dubious, NEW lost, NEW moreLost, lost \subseteq moreLost,
           NEW range \in Nat \X Nat, NEW p \in Nat,
           p \in moreLost \/ pages[p] = NoPage,
           RangesApart => \A a \in Walked(blocks) : (a \in Span(range) => a < p),
           RangeSoFar(pages, blocks, dubious, lost, range, p)
    PROVE  RangeSoFar(pages, blocks, dubious, moreLost, range, p + Stride)
<1>1. range[1] \in Int /\ range[2] \in Int /\ Stride \in Nat /\ Stride >= 1
  BY RangeFacts
<1>2. Reported(blocks, dubious, lost) \subseteq Reported(blocks, dubious, moreLost)
  BY DEF Reported
<1> SUFFICES ASSUME NEW i \in Span(range), NEW j \in Span(range), i <= j, OnePage(pages, i, j),
                    Met(blocks, i, j) \/ (i + Stride <= j + 1 /\ i + Stride <= p + Stride)
             PROVE  SoFar(Reported(blocks, dubious, moreLost), moreLost, i, j, p + Stride)
  BY DEF RangeSoFar
<1>3. i \in Int /\ j \in Int
  BY <1>1 DEF Span
<1>4. i <= p
  <2>1. CASE Met(blocks, i, j)
    <3>1. PICK a \in i..j : a \in Walked(blocks)
      BY <2>1 DEF Met
    <3>2. a \in Span(range)
      BY <1>1, <1>3, <3>1 DEF Span
    <3> QED BY <1>3, <2>1, <3>1, <3>2 DEF Met
  <2>2. CASE i + Stride <= p + Stride
    BY <1>1, <1>3, <2>2
  <2> QED BY <2>1, <2>2
<1>5. CASE p <= j
  <2>1. p \in i..j
    BY <1>3, <1>4, <1>5
  <2>2. p \in moreLost
    BY <2>1 DEF OnePage
  <2> QED BY <2>1, <2>2 DEF SoFar
<1>6. CASE j < p
  <2>1. SoFar(Reported(blocks, dubious, lost), lost, i, j, p)
    BY <1>1, <1>3, <1>6 DEF RangeSoFar
  <2>2. SoFar(Reported(blocks, dubious, moreLost), moreLost, i, j, p)
    BY <1>2, <2>1, SoFarGrows
  <2> QED BY <1>3, <1>6, <2>2 DEF SoFar
<1> QED BY <1>3, <1>5, <1>6

\* What happens in another range.
LEMMA OtherSoFar ==
    ASSUME NEW pages, NEW blocks, NEW now, NEW dubious, NEW more, NEW lost, NEW moreLost,
           blocks \subseteq now, dubious \subseteq more, lost \subseteq moreLost,
           NEW range \in Nat \X Nat, NEW p,
           RangesApart => \A a \in Walked(now) : a \in Span(range) => a \in Walked(blocks),
           RangeSoFar(pages, blocks, dubious, lost, range, p)
    PROVE  RangeSoFar(pages, now, more, moreLost, range, p)
<1>1. Reported(blocks, dubious, lost) \subseteq Reported(now, more, moreLost)
  BY DEF Reported, Walked
<1> SUFFICES ASSUME NEW i \in Span(range), NEW j \in Span(range), i <= j, OnePage(pages, i, j),
                    Met(now, i, j) \/ (i + Stride <= j + 1 /\ i + Stride <= p)
             PROVE  SoFar(Reported(now, more, moreLost), moreLost, i, j, p)
  BY DEF RangeSoFar
<1>2. Met(now, i, j) => Met(blocks, i, j)
  <2>1. \A a \in i..j : a \in Span(range)
    BY DEF Span
  <2> QED BY <2>1 DEF Met
<1>3. SoFar(Reported(blocks, dubious, lost), lost, i, j, p)
  BY <1>2 DEF RangeSoFar
<1> QED BY <1>1, <1>3, SoFarGrows

-----------------------------------------------------------------------------
(* The map: the invariant of the sweep.                                    *)

\* The budget has lasted, and no register lies between what a lost read at an edge
\* leaves in doubt and the next probe.
Uncut(spent) == spent < MaxReads /\ Stride <= EdgeRead + 1 /\ RangesNest

\* The block lies in the i-th range, its edges are settled, and the probe is past it.
IslandOf(pages, dubious, spent, cur, p, b, i) ==
    /\ Ranges[i][1] <= b[1] /\ b[1] <= b[2] /\ b[2] <= Ranges[i][2]
    /\ Uncut(spent) => /\ UpSettled(pages, dubious, b[2], Ranges[i][2])
                       /\ DownSettled(pages, dubious, b[1], Ranges[i][1])
    /\ (RangesApart /\ i = cur) => b[2] + Stride <= p

IslandsOK(pages, blocks, vals, dubious, spent, cur, p) ==
    \A b \in blocks :
        Span(b) \subseteq vals /\ \E i \in 1..cur : IslandOf(pages, dubious, spent, cur, p, b, i)

ValuesTrue == \A a \in values : page[a] # NoPage

\* The walk is inside its range, and every register from edge to edge has been read.
WalkOK ==
    pc \in {"walk", "bisect"} =>
        /\ Floor <= probe /\ probe <= Limit
        /\ Floor <= walk.edge /\ walk.edge <= Limit
        /\ walk.dir = "down" => walk.edge <= probe /\ walk.edge..probe \subseteq values
        /\ walk.dir = "up" =>
             /\ probe <= walk.edge /\ Floor <= lowEdge /\ lowEdge <= probe
             /\ lowEdge..walk.edge \subseteq values
             /\ Uncut(reads) => DownSettled(page, doubts, lowEdge, Floor)

\* The page ends between the best and the high register of the bisection.
EndsWithin(pages, vals, w) ==
    IF w.dir = "up"
      THEN /\ ~OnePage(pages, w.edge + 1, w.edge + w.high + 1)
           /\ w.best > 0 => OnePage(pages, w.edge + 1, w.edge + w.best)
           /\ (w.edge + 1)..(w.edge + w.best) \subseteq vals
      ELSE /\ ~OnePage(pages, w.edge - w.high - 1, w.edge - 1)
           /\ w.best > 0 => OnePage(pages, w.edge - w.best, w.edge - 1)
           /\ (w.edge - w.best)..(w.edge - 1) \subseteq vals

BisectOK ==
    pc = "bisect" =>
        /\ walk.low = walk.best + 1 /\ walk.best <= walk.high /\ walk.high < Ahead
        /\ EndsWithin(page, values, walk)

Swept ==
    Uncut(reads) =>
        /\ pc # "done" => RangeSoFar(page, islands, doubts, unverified, Ranges[current], probe)
        /\ \A i \in 1..current : (i < current \/ pc = "done") =>
             RangeSoFar(page, islands, doubts, unverified, Ranges[i], Ranges[i][2] + 1)

SweepInv ==
    /\ MapTypeOK /\ ValuesTrue /\ WalkOK /\ BisectOK /\ Swept
    /\ IslandsOK(page, islands, values, doubts, reads, current, probe)
    /\ pc = "scan" => Floor <= probe
    /\ pc = "done" => current = Len(Ranges)

LEMMA BlockEnds ==
    ASSUME NEW b \in Address \X Address
    PROVE  b[1] \in Nat /\ b[2] \in Nat /\ b[1] \in Int /\ b[2] \in Int
<1>1. b[1] \in Address /\ b[2] \in Address
  OBVIOUS
<1>2. Address \subseteq Nat /\ \A n \in Nat : n \in Int
  BY RangeFacts
<1> QED BY <1>1, <1>2, Zenon

LEMMA RangeEnds ==
    ASSUME NEW i \in 1..Len(Ranges)
    PROVE  /\ Ranges[i][1] \in Nat /\ Ranges[i][2] \in Nat /\ Ranges[i] \in Nat \X Nat
           /\ Ranges[i][1] \in Int /\ Ranges[i][2] \in Int /\ Ranges[i][1] <= Ranges[i][2]
           /\ Span(Ranges[i]) \subseteq Address
<1>1. Ranges[i][1] \in Nat /\ Ranges[i][2] \in Nat
      /\ Ranges[i][1] <= Ranges[i][2] /\ Span(Ranges[i]) \subseteq Address
  BY RangeFacts
<1>2. \A n \in Nat : n \in Int
  OBVIOUS
<1>3. Ranges[i] \in Nat \X Nat
  BY SweepAssumption
<1> QED BY <1>1, <1>2, <1>3, Zenon

LEMMA WalkedBlock ==
    ASSUME NEW blocks, NEW a, a \in Walked(blocks)
    PROVE  \E b \in blocks : a \in Span(b)
BY DEF Walked

\* Ranges that are apart: the probe is past every block of its range, and no block
\* is in a range to come.
LEMMA WalkedBelow ==
    ASSUME NEW pages, NEW blocks, NEW vals, NEW dubious, NEW spent,
           NEW cur \in 1..Len(Ranges), NEW p \in Int, blocks \subseteq Address \X Address,
           IslandsOK(pages, blocks, vals, dubious, spent, cur, p), RangesApart
    PROVE  /\ \A a \in Walked(blocks) : (a \in Span(Ranges[cur]) => a < p)
           /\ \A k \in 1..Len(Ranges) : k > cur => \A a \in Walked(blocks) : a \notin Span(Ranges[k])
<1>1. \A a \in Walked(blocks) : \E i \in 1..cur :
        a \in Span(Ranges[i]) /\ (i = cur => a < p)
  <2> TAKE a \in Walked(blocks)
  <2>1. PICK b \in blocks : a \in Span(b)
    BY WalkedBlock
  <2>2. PICK i \in 1..cur : IslandOf(pages, dubious, spent, cur, p, b, i)
    BY <2>1 DEF IslandsOK
  <2>3. b[1] \in Int /\ b[2] \in Int /\ Ranges[i][1] \in Int /\ Ranges[i][2] \in Int
        /\ Stride \in Nat /\ Stride >= 1
    <3>1. b \in Address \X Address /\ i \in 1..Len(Ranges)
      OBVIOUS
    <3> QED BY <3>1, BlockEnds, RangeEnds, RangeFacts
  <2>4. /\ Ranges[i][1] <= b[1] /\ b[1] <= b[2] /\ b[2] <= Ranges[i][2]
        /\ i = cur => b[2] + Stride <= p
    BY <2>2 DEF IslandOf
  <2>5. a \in Int /\ b[1] <= a /\ a <= b[2]
    BY <2>1, <2>3 DEF Span
  <2>6. a \in Span(Ranges[i])
    BY <2>3, <2>4, <2>5 DEF Span
  <2> QED BY <2>3, <2>4, <2>5, <2>6
<1>2. ASSUME NEW a \in Walked(blocks), NEW k \in 1..Len(Ranges), a \in Span(Ranges[k])
      PROVE  \E i \in 1..cur : i = k /\ (i = cur => a < p)
  <2>1. PICK i \in 1..cur : a \in Span(Ranges[i]) /\ (i = cur => a < p)
    BY <1>1
  <2>2. i \in 1..Len(Ranges)
    OBVIOUS
  <2>3. i = k
    BY <1>2, <2>1, <2>2 DEF RangesApart
  <2> QED BY <2>1, <2>3
<1>3. \A a \in Walked(blocks) : (a \in Span(Ranges[cur]) => a < p)
  BY <1>2
<1>4. \A k \in 1..Len(Ranges) : k > cur => \A a \in Walked(blocks) : a \notin Span(Ranges[k])
  <2> SUFFICES ASSUME NEW k \in 1..Len(Ranges), k > cur, NEW a \in Walked(blocks),
                      a \in Span(Ranges[k])
               PROVE  FALSE
    OBVIOUS
  <2>1. k \in 1..cur
    BY <1>2
  <2> QED BY <2>1
<1> QED BY <1>3, <1>4

\* Blocks stay in order as more is read and doubted and the sweep moves on.
LEMMA IslandsKept ==
    ASSUME NEW pages, NEW blocks, NEW vals, NEW dubious, NEW spent \in Nat, NEW cur \in Nat,
           NEW p \in Int, blocks \subseteq Address \X Address,
           IslandsOK(pages, blocks, vals, dubious, spent, cur, p),
           NEW vals2, NEW dubious2, NEW spent2 \in Nat, NEW cur2 \in Nat, NEW p2 \in Int,
           vals \subseteq vals2, dubious \subseteq dubious2, spent <= spent2,
           (cur2 = cur /\ p <= p2) \/ cur2 = cur + 1
    PROVE  IslandsOK(pages, blocks, vals2, dubious2, spent2, cur2, p2)
<1> SUFFICES ASSUME NEW b \in blocks
             PROVE  /\ Span(b) \subseteq vals2
                    /\ \E i \in 1..cur2 : IslandOf(pages, dubious2, spent2, cur2, p2, b, i)
  BY DEF IslandsOK
<1>1. PICK i \in 1..cur : IslandOf(pages, dubious, spent, cur, p, b, i)
  BY DEF IslandsOK
<1>2. Uncut(spent2) => Uncut(spent)
  BY RangeFacts DEF Uncut
<1>3. Uncut(spent2) => /\ UpSettled(pages, dubious2, b[2], Ranges[i][2])
                       /\ DownSettled(pages, dubious2, b[1], Ranges[i][1])
  BY <1>1, <1>2 DEF IslandOf, UpSettled, DownSettled
<1>4. (RangesApart /\ i = cur2) => b[2] + Stride <= p2
  <2>1. b[2] \in Int /\ Stride \in Int
    BY RangeFacts, BlockEnds
  <2>2. (RangesApart /\ i = cur) => b[2] + Stride <= p
    BY <1>1 DEF IslandOf
  <2>3. i = cur2 => i = cur /\ p <= p2
    OBVIOUS
  <2> QED BY <2>1, <2>2, <2>3
<1>5. IslandOf(pages, dubious2, spent2, cur2, p2, b, i)
  BY <1>1, <1>3, <1>4 DEF IslandOf
<1>6. Span(b) \subseteq vals2 /\ i \in 1..cur2
  BY DEF IslandsOK
<1> QED BY <1>5, <1>6

-----------------------------------------------------------------------------
(* The map: steps of the sweep.                                            *)

\* What every step keeps or lets grow.
Onward ==
    /\ page' = page
    /\ values \subseteq values' /\ values' \subseteq Address /\ ValuesTrue'
    /\ doubts \subseteq doubts' /\ doubts' \subseteq Address
    /\ unverified \subseteq unverified' /\ unverified' \subseteq Address
    /\ refused' \subseteq Address /\ unscanned' \subseteq Address
    /\ reads' \in 0..MaxReads /\ reads <= reads' /\ linkFailures' \in 0..MaxLinkFailures

LEMMA SweepTypes ==
    ASSUME MapTypeOK
    PROVE  /\ current \in Nat /\ current >= 1 /\ current <= Len(Ranges) /\ current \in 1..Len(Ranges)
           /\ Floor \in Int /\ Limit \in Int /\ Floor \in Nat /\ Limit \in Nat /\ Floor <= Limit
           /\ probe \in Int /\ probe \in Nat /\ walk.edge \in Int /\ lowEdge \in Int
           /\ walk.low \in Int /\ walk.high \in Int /\ walk.best \in Int
           /\ walk.dir \in {"down", "up"} /\ reads \in Nat /\ reads \in 0..MaxReads
           /\ linkFailures \in 0..MaxLinkFailures
           /\ Ranges[current] \in Nat \X Nat /\ Span(Ranges[current]) = Floor..Limit
           /\ \A a \in Int : Floor <= a /\ a <= Limit => a \in Address
<1>1. current \in 1..Len(Ranges) /\ Len(Ranges) \in Nat
  BY RangeFacts DEF MapTypeOK
<1>2. /\ Floor \in Int /\ Limit \in Int /\ Floor \in Nat /\ Limit \in Nat /\ Floor <= Limit
      /\ Ranges[current] \in Nat \X Nat
      /\ Span(Ranges[current]) = Floor..Limit /\ Floor..Limit \subseteq Address
  BY <1>1, RangeEnds DEF Floor, Limit, Span
<1>3. /\ probe \in Nat /\ walk.edge \in Nat /\ lowEdge \in Nat /\ walk.low \in Nat
      /\ walk.high \in Nat /\ walk.best \in Nat /\ walk.dir \in {"down", "up"}
      /\ reads \in 0..MaxReads /\ linkFailures \in 0..MaxLinkFailures
  BY DEF MapTypeOK
<1>4. /\ probe \in Int /\ walk.edge \in Int /\ lowEdge \in Int /\ walk.low \in Int
      /\ walk.high \in Int /\ walk.best \in Int
  <2>1. \A n \in Nat : n \in Int
    OBVIOUS
  <2> QED BY <1>3, <2>1, Zenon
<1>5. current \in Nat /\ current >= 1 /\ current <= Len(Ranges) /\ reads \in Nat
  BY <1>1, <1>3, RangeFacts
<1>6. \A a \in Int : Floor <= a /\ a <= Limit => a \in Address
  BY <1>2
<1> QED BY <1>1, <1>2, <1>3, <1>4, <1>5, <1>6

LEMMA UncutBefore ==
    ASSUME MapTypeOK, Onward, Uncut(reads')
    PROVE  Uncut(reads)
<1>1. reads \in Int /\ reads' \in Int /\ MaxReads \in Int /\ reads <= reads'
  BY SweepTypes, RangeFacts DEF Onward
<1>2. reads' < MaxReads /\ Stride <= EdgeRead + 1 /\ RangesNest
  BY DEF Uncut
<1> QED BY <1>1, <1>2 DEF Uncut

\* Ranges that are finished stay reported.
LEMMA FinishedStays ==
    ASSUME MapTypeOK, Swept, Onward, Uncut(reads'), islands \subseteq islands',
           NEW i \in 1..current, i < current \/ pc = "done",
           RangesApart => \A a \in Walked(islands') : a \in Span(Ranges[i]) => a \in Walked(islands)
    PROVE  RangeSoFar(page', islands', doubts', unverified', Ranges[i], Ranges[i][2] + 1)
<1>1. Uncut(reads)
  BY UncutBefore
<1>2. RangeSoFar(page, islands, doubts, unverified, Ranges[i], Ranges[i][2] + 1)
  BY <1>1 DEF Swept
<1>3. i \in 1..Len(Ranges)
  BY SweepTypes
<1>4. Ranges[i] \in Nat \X Nat
  BY <1>3, RangeEnds
<1>5. RangeSoFar(page, islands', doubts', unverified', Ranges[i], Ranges[i][2] + 1)
  BY <1>2, <1>4, OtherSoFar DEF Onward
<1> QED BY <1>5 DEF Onward

\* The sweep of a range goes on from where it is.
LEMMA SweptStays ==
    ASSUME MapTypeOK, Swept, Onward, pc # "done", pc' # "done",
           islands' = islands, current' = current, probe' = probe
    PROVE  Swept'
<1> SUFFICES ASSUME Uncut(reads')
             PROVE  /\ RangeSoFar(page', islands', doubts', unverified', Ranges[current'], probe')
                    /\ \A i \in 1..current' : i < current' =>
                         RangeSoFar(page', islands', doubts', unverified', Ranges[i], Ranges[i][2] + 1)
  BY DEF Swept
<1>1. \A i \in 1..current' : i < current' =>
        RangeSoFar(page', islands', doubts', unverified', Ranges[i], Ranges[i][2] + 1)
  BY FinishedStays
<1>2. Uncut(reads)
  BY UncutBefore
<1>3. RangeSoFar(page, islands, doubts, unverified, Ranges[current], probe)
  BY <1>2 DEF Swept
<1>4. RangeSoFar(page, islands, doubts', unverified', Ranges[current], probe)
  BY <1>3, SweepTypes, OtherSoFar DEF Onward
<1> QED BY <1>1, <1>4 DEF Onward

\* And so do the blocks.
LEMMA IslandsStay ==
    ASSUME MapTypeOK, IslandsOK(page, islands, values, doubts, reads, current, probe), Onward,
           islands' = islands, current' \in Nat, probe' \in Nat,
           (current' = current /\ probe <= probe') \/ current' = current + 1
    PROVE  IslandsOK(page, islands, values, doubts, reads, current, probe)'
<1>1. islands \subseteq Address \X Address
  BY DEF MapTypeOK
<1>2. reads \in Nat /\ reads' \in Nat /\ probe' \in Int
  BY RangeFacts, SweepTypes DEF Onward
<1>3. values \subseteq values' /\ doubts \subseteq doubts' /\ reads <= reads' /\ page' = page
  BY DEF Onward
<1>4. current \in Nat /\ probe \in Int
  BY SweepTypes
<1>5. IslandsOK(page, islands, values', doubts', reads', current', probe')
  BY <1>1, <1>2, <1>3, <1>4, IslandsKept
<1> QED BY <1>3, <1>5

\* The walk down ends at its edge, and the walk up begins at the probe.
LEMMA WalkTurns ==
    ASSUME SweepInv, Onward, pc \in {"walk", "bisect"}, walk.dir = "down", NEW e \in Int,
           EndWalk(e), current' = current, Floor <= e, e <= probe, e..probe \subseteq values',
           Uncut(reads') => DownSettled(page, doubts', e, Floor)
    PROVE  SweepInv'
<1>1. /\ lowEdge' = e /\ pc' = "walk" /\ walk' = [NoWalk EXCEPT !.dir = "up", !.edge = probe]
      /\ islands' = islands /\ probe' = probe
  BY DEF EndWalk
<1>2. walk' = [dir |-> "up", edge |-> probe, low |-> 1, high |-> 0, best |-> 0]
  BY <1>1 DEF NoWalk
<1>3. Floor' = Floor /\ Limit' = Limit /\ MapTypeOK
  BY DEF Floor, Limit, SweepInv
<1>4. Floor <= probe /\ probe <= Limit
  BY DEF SweepInv, WalkOK
<1>5. /\ Floor \in Int /\ Floor \in Nat /\ Limit \in Int /\ probe \in Int /\ e \in Nat
      /\ current \in Nat /\ probe \in Nat
  <2>1. Floor \in Nat /\ Limit \in Int /\ probe \in Int /\ current \in Nat /\ probe \in Nat
        /\ Floor \in Int
    BY <1>3, SweepTypes
  <2> QED BY <2>1
<1>6. MapTypeOK'
  BY <1>1, <1>2, <1>3, <1>5 DEF MapTypeOK, Onward
<1>7. WalkOK'
  <2>1. /\ Floor' <= probe' /\ probe' <= Limit' /\ Floor' <= walk'.edge /\ walk'.edge <= Limit'
        /\ walk'.dir = "up" /\ probe' <= walk'.edge /\ Floor' <= lowEdge' /\ lowEdge' <= probe'
        /\ lowEdge'..walk'.edge \subseteq values'
    BY <1>1, <1>2, <1>3, <1>4, <1>5
  <2>2. Uncut(reads') => DownSettled(page', doubts', lowEdge', Floor')
    BY <1>1, <1>3 DEF Onward
  <2> QED BY <2>1, <2>2 DEF WalkOK
<1>8. BisectOK'
  BY <1>1 DEF BisectOK
<1>9. Swept'
  BY <1>1, SweptStays DEF SweepInv
<1>10. IslandsOK(page, islands, values, doubts, reads, current, probe)'
  <2>1. current' \in Nat /\ probe' \in Nat /\ probe <= probe'
    BY <1>1, <1>5
  <2> QED BY <1>1, <2>1, IslandsStay DEF SweepInv
<1> QED BY <1>1, <1>6, <1>7, <1>8, <1>9, <1>10 DEF SweepInv, Onward

\* The registers that the block from low to high adds to the blocks.
LEMMA OneMoreBlock ==
    ASSUME NEW blocks, NEW low, NEW high
    PROVE  \A a \in Walked(blocks \cup {<<low, high>>}) : a \in Walked(blocks) \/ a \in low..high
<1>1. \A b \in blocks \cup {<<low, high>>} : b \in blocks \/ b = <<low, high>>
  OBVIOUS
<1>2. Span(<<low, high>>) = low..high
  BY DEF Span
<1> QED BY <1>1, <1>2 DEF Walked

\* The walk up ends at its edge, and the block is recorded.
LEMMA WalkRecords ==
    ASSUME SweepInv, Onward, pc \in {"walk", "bisect"}, walk.dir = "up", NEW e \in Int,
           EndWalk(e), current' = current, probe <= e, e <= Limit, lowEdge..e \subseteq values',
           Uncut(reads') => UpSettled(page, doubts', e, Limit)
    PROVE  SweepInv'
<1>1. /\ islands' = islands \cup {<<lowEdge, e>>} /\ probe' = e + Stride
      /\ pc' = "scan" /\ walk' = NoWalk /\ lowEdge' = lowEdge /\ page' = page
  BY DEF EndWalk, Onward
<1>2. Floor' = Floor /\ Limit' = Limit /\ MapTypeOK
  BY DEF Floor, Limit, SweepInv
<1>3. /\ Floor <= probe /\ probe <= Limit /\ Floor <= lowEdge /\ lowEdge <= probe
      /\ Uncut(reads) => DownSettled(page, doubts, lowEdge, Floor)
  BY DEF SweepInv, WalkOK
<1>4. /\ Floor \in Nat /\ Floor \in Int /\ Limit \in Int /\ probe \in Int /\ probe \in Nat
      /\ lowEdge \in Int /\ current \in Nat /\ current \in 1..Len(Ranges)
      /\ Ranges[current] \in Nat \X Nat /\ Span(Ranges[current]) = Floor..Limit
  BY <1>2, SweepTypes
<1>5. Stride \in Nat /\ Stride >= 1
  BY RangeFacts
<1>6. e \in Nat /\ lowEdge \in Nat /\ probe' \in Nat /\ probe <= probe'
  <2>1. \A n \in Nat : n \in Int /\ n >= 0
    OBVIOUS
  <2>2. Floor >= 0 /\ Stride \in Int /\ Stride >= 0
    BY <1>4, <1>5, <2>1, Zenon
  <2> QED BY <1>1, <1>3, <1>4, <2>2
<1>7. lowEdge \in Address /\ e \in Address
  <2>1. \A a \in Int : Floor <= a /\ a <= Limit => a \in Address
    BY <1>2, SweepTypes
  <2> QED BY <1>3, <1>4, <2>1
<1>8. MapTypeOK'
  <2>1. islands' \subseteq Address \X Address
    BY <1>1, <1>2, <1>7 DEF MapTypeOK
  <2> QED BY <1>1, <1>2, <1>6, <2>1 DEF MapTypeOK, Onward, NoWalk
<1>9. IslandsOK(page, islands, values, doubts, reads, current, probe)'
  <2>1. islands \subseteq Address \X Address /\ reads \in Nat /\ reads' \in Nat /\ probe' \in Int
    <3>1. reads' \in 0..MaxReads /\ MaxReads \in Nat
      BY RangeFacts DEF Onward
    <3> QED BY <1>2, <1>1, <1>5, <3>1, SweepTypes DEF MapTypeOK
  <2>2. IslandsOK(page, islands, values, doubts, reads, current, probe)
    BY DEF SweepInv
  <2>3. values \subseteq values' /\ doubts \subseteq doubts' /\ reads <= reads'
    BY DEF Onward
  <2>4. IslandsOK(page, islands, values', doubts', reads', current, probe')
    BY <1>4, <1>6, <2>1, <2>2, <2>3, IslandsKept
  <2> DEFINE new == <<lowEdge, e>>
  <2>5. new[1] = lowEdge /\ new[2] = e /\ Span(new) = lowEdge..e
    BY DEF Span
  <2> HIDE DEF new
  <2>6. Uncut(reads') => /\ UpSettled(page, doubts', e, Limit)
                         /\ DownSettled(page, doubts', lowEdge, Floor)
    <3>1. Uncut(reads') => Uncut(reads)
      BY <1>2, UncutBefore
    <3> QED BY <1>3, <2>3, <3>1 DEF DownSettled
  <2>7. IslandOf(page, doubts', reads', current, probe', new, current)
    <3>1. Ranges[current][1] <= new[1] /\ new[1] <= new[2] /\ new[2] <= Ranges[current][2]
      BY <1>3, <1>4, <2>5 DEF Floor, Limit
    <3>2. new[2] + Stride <= probe'
      BY <1>1, <1>5, <2>5
    <3> QED BY <2>5, <2>6, <3>1, <3>2 DEF IslandOf, Floor, Limit
  <2>8. current \in 1..current
    BY <1>4
  <2>9. \A b \in islands' : b \in islands \/ b = new
    BY <1>1 DEF new
  <2>10. IslandsOK(page, islands', values', doubts', reads', current, probe')
    BY <2>4, <2>5, <2>7, <2>8, <2>9 DEF IslandsOK
  <2> QED BY <1>1, <2>10
<1>10. Swept'
  <2> SUFFICES ASSUME Uncut(reads')
               PROVE  /\ RangeSoFar(page', islands', doubts', unverified', Ranges[current'], probe')
                      /\ \A i \in 1..current' : i < current' =>
                           RangeSoFar(page', islands', doubts', unverified', Ranges[i], Ranges[i][2] + 1)
    BY <1>1 DEF Swept
  <2>1. Uncut(reads)
    BY <1>2, UncutBefore
  <2>2. RangeSoFar(page, islands, doubts, unverified, Ranges[current], probe)
    BY <2>1 DEF SweepInv, Swept
  <2>3. RangesApart => /\ \A a \in Walked(islands) : (a \in Span(Ranges[current]) => a < probe)
    <3>1. islands \subseteq Address \X Address
      BY <1>2 DEF MapTypeOK
    <3>2. IslandsOK(page, islands, values, doubts, reads, current, probe)
      BY DEF SweepInv
    <3> QED BY <1>4, <3>1, <3>2, WalkedBelow
  <2>4. RangeSoFar(page, islands', doubts', unverified, Ranges[current], e + Stride)
    <3>1. UpSettled(page, doubts', e, Ranges[current][2])
      BY DEF Limit
    <3>2. DownSettled(page, doubts', lowEdge, Ranges[current][1])
      BY <1>3, <2>1 DEF Floor, DownSettled, Onward
    <3>3. doubts \subseteq doubts'
      BY DEF Onward
    <3>4. RangeSoFar(page, islands \cup {<<lowEdge, e>>}, doubts', unverified, Ranges[current], e + Stride)
      BY <1>3, <1>4, <1>6, <2>2, <2>3, <3>1, <3>2, <3>3, BlockSoFar
    <3> QED BY <1>1, <3>4
  <2>5. RangeSoFar(page', islands', doubts', unverified', Ranges[current'], probe')
    <3>1. unverified \subseteq unverified'
      BY DEF Onward
    <3>2. RangeSoFar(page, islands', doubts', unverified', Ranges[current], e + Stride)
      BY <1>4, <2>4, <3>1, OtherSoFar
    <3> QED BY <1>1, <3>2
  <2>6. ASSUME NEW i \in 1..current', i < current'
        PROVE  RangeSoFar(page', islands', doubts', unverified', Ranges[i], Ranges[i][2] + 1)
    <3>1. RangesApart => \A a \in Walked(islands') : a \in Span(Ranges[i]) => a \in Walked(islands)
      <4> SUFFICES ASSUME RangesApart, NEW a \in Walked(islands'), a \in Span(Ranges[i]),
                          a \notin Walked(islands)
                   PROVE  FALSE
        OBVIOUS
      <4>1. a \in lowEdge..e
        BY <1>1, OneMoreBlock
      <4>2. a \in Span(Ranges[current])
        BY <1>3, <1>4, <4>1
      <4>3. i \in 1..Len(Ranges) /\ i # current
        BY <1>4, <2>6
      <4> QED BY <1>4, <4>2, <4>3 DEF RangesApart
    <3>2. islands \subseteq islands' /\ i \in 1..current /\ i < current
      BY <1>1, <2>6
    <3>3. MapTypeOK /\ Swept
      BY DEF SweepInv
    <3> QED BY <3>1, <3>2, <3>3, FinishedStays
  <2> QED BY <2>5, <2>6
<1>11. WalkOK' /\ BisectOK' /\ ValuesTrue'
  BY <1>1 DEF WalkOK, BisectOK, Onward
<1>12. Floor' <= probe'
  BY <1>1, <1>2, <1>3, <1>4, <1>5
<1> QED BY <1>1, <1>8, <1>9, <1>10, <1>11, <1>12 DEF SweepInv

\* A read returns registers of a page, and they are registers of the ranges.
LEMMA ReadsOn ==
    ASSUME MapTypeOK, ValuesTrue, ~Exhausted, NEW span, span \subseteq Address,
           NEW r \in ReadResults(span), Spend(span, r), page' = page
    PROVE  /\ values \subseteq values' /\ values' \subseteq Address /\ ValuesTrue'
           /\ reads' \in 0..MaxReads /\ reads <= reads' /\ linkFailures' \in 0..MaxLinkFailures
           /\ r.outcome \in {"ok", "refused", "failed"}
           /\ r.outcome = "ok" => MapAnswers(span) /\ span \subseteq values'
           /\ r.outcome = "refused" => ~MapAnswers(span)
<1>1. reads \in 0..MaxReads /\ linkFailures \in 0..MaxLinkFailures
  BY DEF MapTypeOK
<1>2. /\ r.outcome \in {"ok", "refused", "failed"}
      /\ r.outcome = "ok" => MapAnswers(span) /\ values' = values \cup span
      /\ r.outcome # "ok" => values' = values
      /\ r.outcome = "refused" => ~MapAnswers(span)
      /\ reads' \in 0..MaxReads /\ linkFailures' \in 0..MaxLinkFailures
      /\ reads < reads'
  BY <1>1, OneRead
<1>3. values \subseteq values' /\ values' \subseteq Address
  BY <1>2 DEF MapTypeOK
<1>4. ASSUME NEW a \in values' PROVE page'[a] # NoPage
  <2>1. CASE a \in values
    BY <2>1 DEF ValuesTrue
  <2>2. CASE a \notin values
    <3>1. MapAnswers(span) /\ a \in span
      BY <1>2, <1>4, <2>2
    <3> QED BY <3>1 DEF MapAnswers
  <2> QED BY <2>1, <2>2
<1>5. ValuesTrue'
  BY <1>4 DEF ValuesTrue
<1>6. reads <= reads'
  <2>1. reads \in Int /\ reads' \in Int
    BY <1>1, <1>2
  <2> QED BY <1>2, <2>1
<1> QED BY <1>2, <1>3, <1>5, <1>6

LEMMA NextRangeKeeps ==
    ASSUME SweepInv, NextRange
    PROVE  SweepInv'
<1>1. /\ MapTypeOK /\ ValuesTrue /\ Swept /\ Floor <= probe
      /\ IslandsOK(page, islands, values, doubts, reads, current, probe)
      /\ pc = "scan" /\ (probe > Limit \/ Exhausted) /\ page' = page
      /\ unscanned' = unscanned \union probe..Limit
      /\ IF current < Len(Ranges)
           THEN current' = current + 1 /\ probe' = Ranges[current + 1][1] /\ pc' = pc
           ELSE pc' = "done" /\ current' = current /\ probe' = probe
      /\ walk' = walk /\ lowEdge' = lowEdge /\ islands' = islands /\ values' = values
      /\ refused' = refused /\ unverified' = unverified /\ doubts' = doubts
      /\ reads' = reads /\ linkFailures' = linkFailures
  BY DEF NextRange, SweepInv
<1>2. /\ Floor \in Int /\ Limit \in Int /\ probe \in Int /\ probe \in Nat /\ current \in Nat
      /\ current >= 1 /\ current <= Len(Ranges) /\ current \in 1..Len(Ranges)
      /\ Ranges[current] \in Nat \X Nat /\ Span(Ranges[current]) = Floor..Limit
  BY <1>1, SweepTypes
<1>3. Len(Ranges) \in Nat
  BY RangeFacts
<1>4. unscanned' \subseteq Address
  <2>1. \A a \in Int : Floor <= a /\ a <= Limit => a \in Address
    BY <1>1, SweepTypes
  <2>2. probe..Limit \subseteq Address
    BY <1>1, <1>2, <2>1
  <2> QED BY <1>1, <2>2 DEF MapTypeOK
<1>5. Onward
  <2>1. reads \in 0..MaxReads /\ linkFailures \in 0..MaxLinkFailures /\ reads <= reads
    <3>1. reads \in 0..MaxReads /\ linkFailures \in 0..MaxLinkFailures /\ reads \in Nat
      BY <1>1, SweepTypes
    <3> QED BY <3>1
  <2>2. ValuesTrue'
    BY <1>1 DEF ValuesTrue
  <2> QED BY <1>1, <1>4, <2>1, <2>2 DEF Onward, MapTypeOK
<1>6. WalkOK' /\ BisectOK'
  BY <1>1 DEF WalkOK, BisectOK
<1>7. \A i \in 1..current : (i < current /\ Uncut(reads')) =>
        RangeSoFar(page', islands', doubts', unverified', Ranges[i], Ranges[i][2] + 1)
  BY <1>1, <1>5, FinishedStays
<1>8. Uncut(reads') =>
        RangeSoFar(page', islands', doubts', unverified', Ranges[current], Ranges[current][2] + 1)
  <2> SUFFICES ASSUME Uncut(reads)
               PROVE  RangeSoFar(page, islands, doubts, unverified, Ranges[current], Limit + 1)
    BY <1>1 DEF Limit
  <2>1. probe > Limit
    BY <1>1, <1>2, RangeFacts, SweepTypes DEF Uncut, Exhausted
  <2>2. RangeSoFar(page, islands, doubts, unverified, Ranges[current], probe)
    BY <1>1 DEF Swept
  <2> SUFFICES ASSUME NEW i \in Floor..Limit, NEW j \in Floor..Limit, i <= j, OnePage(page, i, j),
                      Met(islands, i, j) \/ (i + Stride <= j + 1 /\ i + Stride <= Limit + 1)
               PROVE  SoFar(Reported(islands, doubts, unverified), unverified, i, j, Limit + 1)
    BY <1>2 DEF RangeSoFar
  <2>3. Met(islands, i, j) \/ (i + Stride <= j + 1 /\ i + Stride <= probe)
    <3>1. Stride \in Nat
      BY RangeFacts
    <3>2. i \in Int /\ j \in Int /\ j <= Limit
      BY <1>2
    <3> QED BY <1>2, <2>1, <3>1, <3>2
  <2>4. SoFar(Reported(islands, doubts, unverified), unverified, i, j, probe)
    BY <1>2, <2>2, <2>3 DEF RangeSoFar
  <2>5. \A a \in i..j : a < probe
    BY <1>2, <2>1
  <2> QED BY <2>4, <2>5 DEF SoFar
<1>9. CASE current < Len(Ranges)
  <2>1. current' = current + 1 /\ probe' = Ranges[current + 1][1] /\ pc' = "scan"
        /\ current + 1 \in 1..Len(Ranges)
    BY <1>1, <1>2, <1>3, <1>9
  <2>2. /\ Ranges[current + 1][1] \in Nat /\ Ranges[current + 1][1] \in Int
        /\ Ranges[current + 1] \in Nat \X Nat /\ Ranges[current + 1][2] \in Int
    BY <2>1, RangeEnds
  <2>3. MapTypeOK'
    BY <1>1, <1>5, <2>1, <2>2 DEF MapTypeOK, Onward
  <2>4. IslandsOK(page, islands, values, doubts, reads, current, probe)'
    BY <1>1, <1>2, <1>5, <2>1, <2>2, IslandsStay
  <2>5. Floor' <= probe'
    BY <2>1, <2>2 DEF Floor
  <2>6. RangeSoFar(page', islands', doubts', unverified', Ranges[current'], probe')
    <3> DEFINE next == current + 1
    <3> SUFFICES ASSUME NEW i \in Span(Ranges[next]), NEW j \in Span(Ranges[next]),
                        Met(islands, i, j) \/ i + Stride <= Ranges[next][1]
                 PROVE  FALSE
      BY <1>1, <2>1 DEF RangeSoFar
    <3>1. next \in 1..Len(Ranges) /\ next > current
      BY <1>2, <2>1
    <3> HIDE DEF next
    <3>2. /\ Ranges[next][1] \in Int /\ Ranges[next][2] \in Int
      BY <3>1, RangeEnds
    <3>3. i \in Int /\ j \in Int /\ Ranges[next][1] <= i /\ j <= Ranges[next][2]
      BY <3>2 DEF Span
    <3>4. ~(i + Stride <= Ranges[next][1])
      BY <3>2, <3>3, RangeFacts
    <3>5. PICK a \in i..j : RangesApart /\ a \in Walked(islands)
      BY <3>4 DEF Met
    <3>6. a \in Span(Ranges[next])
      BY <3>2, <3>3 DEF Span
    <3>7. islands \subseteq Address \X Address
      BY <1>1 DEF MapTypeOK
    <3> QED BY <1>1, <1>2, <3>1, <3>5, <3>6, <3>7, WalkedBelow
  <2>7. Swept'
    <3>1. \A i \in 1..(current + 1) : i < current + 1 => i \in 1..current /\ (i < current \/ i = current)
      BY <1>2
    <3> QED BY <1>7, <1>8, <2>1, <2>6, <3>1 DEF Swept
  <2> QED BY <1>5, <1>6, <2>1, <2>3, <2>4, <2>5, <2>7 DEF SweepInv, Onward
<1>10. CASE ~(current < Len(Ranges))
  <2>1. pc' = "done" /\ current' = current /\ probe' = probe
    BY <1>1, <1>10
  <2>2. MapTypeOK'
    BY <1>1, <1>5, <2>1 DEF MapTypeOK, Onward
  <2>3. IslandsOK(page, islands, values, doubts, reads, current, probe)'
    BY <1>1, <1>2, <1>5, <2>1, IslandsStay
  <2>4. Swept'
    <3>1. \A i \in 1..current : i < current \/ i = current
      BY <1>2
    <3> QED BY <1>7, <1>8, <2>1, <3>1 DEF Swept
  <2>5. current' = Len(Ranges)
    BY <1>2, <1>3, <1>10, <2>1
  <2> QED BY <1>5, <1>6, <2>1, <2>2, <2>3, <2>4, <2>5 DEF SweepInv, Onward
<1> QED BY <1>9, <1>10

LEMMA SkipCoveredKeeps ==
    ASSUME SweepInv, SkipCovered
    PROVE  SweepInv'
<1>1. /\ MapTypeOK /\ ValuesTrue /\ Swept /\ Floor <= probe
      /\ IslandsOK(page, islands, values, doubts, reads, current, probe)
      /\ pc = "scan" /\ probe <= Limit
      /\ pc' = pc /\ page' = page /\ current' = current /\ walk' = walk /\ lowEdge' = lowEdge
      /\ islands' = islands /\ values' = values /\ refused' = refused /\ doubts' = doubts
      /\ unverified' = unverified /\ unscanned' = unscanned
      /\ reads' = reads /\ linkFailures' = linkFailures
  BY DEF SkipCovered, SweepInv, notes
<1>2. PICK b \in islands : probe \in Span(b) /\ probe' = b[2] + Stride
  BY DEF SkipCovered, Covering
<1>3. /\ Floor \in Int /\ Limit \in Int /\ probe \in Int /\ probe \in Nat /\ current \in Nat
      /\ current \in 1..Len(Ranges) /\ Ranges[current] \in Nat \X Nat
      /\ Span(Ranges[current]) = Floor..Limit /\ reads \in Nat
  BY <1>1, SweepTypes
<1>4. islands \subseteq Address \X Address
  BY <1>1 DEF MapTypeOK
<1>5. PICK low \in Nat, high \in Nat : low = b[1] /\ high = b[2]
  BY <1>4, BlockEnds
<1>6. Stride \in Int /\ Stride \in Nat /\ Stride >= 1
  BY RangeFacts
<1>7. low <= probe /\ probe <= high
  BY <1>2, <1>3, <1>5 DEF Span
<1>8. probe' \in Nat /\ probe <= probe'
  <2>1. probe' = high + Stride
    BY <1>2, <1>5
  <2> QED BY <1>3, <1>6, <1>7, <2>1
<1>9. Onward
  <2>1. reads \in 0..MaxReads /\ linkFailures \in 0..MaxLinkFailures /\ reads <= reads
    BY <1>1, <1>3, SweepTypes
  <2>2. ValuesTrue'
    BY <1>1 DEF ValuesTrue
  <2> QED BY <1>1, <2>1, <2>2 DEF Onward, MapTypeOK
<1>10. MapTypeOK'
  BY <1>1, <1>8 DEF MapTypeOK
<1>11. IslandsOK(page, islands, values, doubts, reads, current, probe)'
  <2>1. current' \in Nat
    BY <1>1, <1>3
  <2> QED BY <1>1, <1>8, <1>9, <2>1, IslandsStay
<1>12. WalkOK' /\ BisectOK'
  BY <1>1 DEF WalkOK, BisectOK
<1>13. Floor' <= probe'
  <2>1. Floor <= probe'
    BY <1>1, <1>3, <1>8
  <2> QED BY <1>1, <2>1 DEF Floor
<1>14. Swept'
  <2> SUFFICES ASSUME Uncut(reads)
               PROVE  /\ RangeSoFar(page, islands, doubts, unverified, Ranges[current], probe')
                      /\ \A i \in 1..current : i < current =>
                           RangeSoFar(page, islands, doubts, unverified, Ranges[i], Ranges[i][2] + 1)
    BY <1>1 DEF Swept
  <2>1. RangeSoFar(page, islands, doubts, unverified, Ranges[current], probe)
    BY <1>1 DEF Swept
  <2>2. \A i \in 1..current : i < current =>
          RangeSoFar(page, islands, doubts, unverified, Ranges[i], Ranges[i][2] + 1)
    BY <1>1 DEF Swept
  <2>3. PICK k \in 1..current : IslandOf(page, doubts, reads, current, probe, b, k)
    BY <1>1 DEF IslandsOK
  <2>4. k \in 1..Len(Ranges)
    BY <1>3
  <2>5. PICK first \in Int, last \in Int : first = Ranges[k][1] /\ last = Ranges[k][2]
    BY <2>4, RangeEnds
  <2>6. /\ first <= low /\ high <= last
        /\ UpSettled(page, doubts, high, last) /\ DownSettled(page, doubts, low, first)
        /\ (RangesApart /\ k = current) => high + Stride <= probe
    BY <1>5, <2>3, <2>5 DEF IslandOf
  <2>7. probe \in Span(Ranges[k]) /\ probe \in Span(Ranges[current])
    <3>1. probe \in Span(Ranges[k])
      <4>1. probe \in first..last
        BY <1>3, <1>7, <2>6
      <4> QED BY <2>5, <4>1 DEF Span
    <3> QED BY <1>1, <1>3, <3>1
  <2>8. ~RangesApart
    <3> SUFFICES ASSUME RangesApart PROVE FALSE
      OBVIOUS
    <3>1. k = current
      BY <1>3, <2>4, <2>7 DEF RangesApart
    <3> QED BY <1>3, <1>5, <1>6, <1>7, <2>6, <3>1
  <2>9. first <= Floor /\ Limit <= last
    <3>1. CASE k = current
      BY <1>3, <2>5, <3>1 DEF Floor, Limit
    <3>2. CASE k # current
      <4>1. k < current
        BY <1>3, <3>2
      <4>2. Span(Ranges[current]) \subseteq Span(Ranges[k])
        BY <1>3, <2>4, <2>7, <4>1 DEF Uncut, RangesNest
      <4>3. Floor..Limit \subseteq first..last
        BY <1>3, <2>5, <4>2 DEF Span
      <4>4. Floor \in Floor..Limit /\ Limit \in Floor..Limit
        BY <1>1, <1>3
      <4> QED BY <1>3, <4>3, <4>4
    <3> QED BY <3>1, <3>2
  <2>10. UpSettled(page, doubts, high, Ranges[current][2])
         /\ DownSettled(page, doubts, low, Ranges[current][1])
    <3>1. UpSettled(page, doubts, high, Limit)
      BY <1>3, <2>6, <2>9 DEF UpSettled
    <3>2. DownSettled(page, doubts, low, Floor)
      BY <1>3, <2>6, <2>9 DEF DownSettled
    <3> QED BY <3>1, <3>2 DEF Floor, Limit
  <2>11. islands \cup {<<low, high>>} = islands
    BY <1>4, <1>5
  <2>12. RangeSoFar(page, islands \cup {<<low, high>>}, doubts, unverified, Ranges[current], high + Stride)
    BY <1>3, <1>7, <2>1, <2>8, <2>10, BlockSoFar
  <2> QED BY <1>2, <1>5, <2>2, <2>11, <2>12
<1> QED BY <1>1, <1>9, <1>10, <1>11, <1>12, <1>13, <1>14 DEF SweepInv, Onward

LEMMA ProbeOneKeeps ==
    ASSUME SweepInv, ProbeOne
    PROVE  SweepInv'
<1>1. /\ MapTypeOK /\ ValuesTrue /\ Swept /\ Floor <= probe
      /\ IslandsOK(page, islands, values, doubts, reads, current, probe)
      /\ pc = "scan" /\ probe <= Limit /\ ~Exhausted
      /\ page' = page /\ current' = current /\ lowEdge' = lowEdge
      /\ islands' = islands /\ doubts' = doubts /\ unscanned' = unscanned
  BY DEF ProbeOne, SweepInv
<1>2. PICK r \in ReadResults({probe}) :
        /\ Spend({probe}, r)
        /\ IF r.outcome = "ok"
             THEN /\ pc' = "walk" /\ walk' = [NoWalk EXCEPT !.edge = probe]
                  /\ probe' = probe /\ refused' = refused /\ unverified' = unverified
             ELSE /\ probe' = probe + Stride
                  /\ refused' = IF r.outcome = "refused" THEN refused \union {probe} ELSE refused
                  /\ unverified' = IF r.outcome = "failed" THEN unverified \union {probe}
                                                           ELSE unverified
                  /\ pc' = pc /\ walk' = walk
  BY DEF ProbeOne
<1>3. /\ Floor \in Int /\ Limit \in Int /\ probe \in Int /\ probe \in Nat /\ current \in Nat
      /\ current \in 1..Len(Ranges) /\ Ranges[current] \in Nat \X Nat
      /\ Span(Ranges[current]) = Floor..Limit /\ reads \in Nat
      /\ \A a \in Int : Floor <= a /\ a <= Limit => a \in Address
  BY <1>1, SweepTypes
<1>4. {probe} \subseteq Address
  BY <1>1, <1>3
<1>5. Stride \in Int /\ Stride \in Nat /\ Stride >= 1
  BY RangeFacts
<1>6. /\ values \subseteq values' /\ values' \subseteq Address /\ ValuesTrue'
      /\ reads' \in 0..MaxReads /\ reads <= reads' /\ linkFailures' \in 0..MaxLinkFailures
      /\ r.outcome \in {"ok", "refused", "failed"}
      /\ r.outcome = "ok" => MapAnswers({probe}) /\ {probe} \subseteq values'
      /\ r.outcome = "refused" => ~MapAnswers({probe})
  BY <1>1, <1>2, <1>4, ReadsOn
<1>7. Onward
  <2>1. unverified \subseteq unverified' /\ unverified' \subseteq Address /\ refused' \subseteq Address
    <3>1. unverified \subseteq Address /\ refused \subseteq Address
      BY <1>1 DEF MapTypeOK
    <3> QED BY <1>2, <1>4, <3>1
  <2> QED BY <1>1, <1>6, <2>1 DEF Onward, MapTypeOK
<1>8. BisectOK'
  BY <1>1, <1>2 DEF BisectOK
<1>9. probe' \in Nat /\ probe <= probe'
  <2>1. probe' = probe \/ probe' = probe + Stride
    BY <1>2
  <2> QED BY <1>3, <1>5, <2>1
<1>10. MapTypeOK'
  <2>1. walk' \in [dir : {"down", "up"}, edge : Nat, low : Nat, high : Nat, best : Nat]
    BY <1>1, <1>2, <1>3 DEF MapTypeOK, NoWalk
  <2>2. pc' \in {"scan", "walk"}
    BY <1>1, <1>2
  <2> QED BY <1>1, <1>7, <1>9, <2>1, <2>2 DEF MapTypeOK, Onward
<1>11. IslandsOK(page, islands, values, doubts, reads, current, probe)'
  <2>1. current' \in Nat
    BY <1>1, <1>3
  <2> QED BY <1>1, <1>7, <1>9, <2>1, IslandsStay
<1>12. CASE r.outcome = "ok"
  <2>1. /\ pc' = "walk" /\ probe' = probe
        /\ walk' = [dir |-> "down", edge |-> probe, low |-> 1, high |-> 0, best |-> 0]
    BY <1>2, <1>12 DEF NoWalk
  <2>2. Swept'
    BY <1>1, <1>7, <2>1, SweptStays
  <2>3. WalkOK'
    <3>1. Floor' = Floor /\ Limit' = Limit
      BY <1>1 DEF Floor, Limit
    <3>2. probe..probe \subseteq values'
      BY <1>3, <1>6, <1>12
    <3> QED BY <1>1, <1>3, <2>1, <3>1, <3>2 DEF WalkOK
  <2> QED BY <1>6, <1>8, <1>10, <1>11, <2>1, <2>2, <2>3 DEF SweepInv
<1>13. CASE r.outcome # "ok"
  <2>1. /\ probe' = probe + Stride /\ pc' = "scan"
    BY <1>1, <1>2, <1>13
  <2>2. probe \in unverified' \/ page[probe] = NoPage
    <3>1. CASE r.outcome = "failed"
      BY <1>2, <1>13, <3>1
    <3>2. CASE r.outcome = "refused"
      BY <1>6, <3>2 DEF MapAnswers
    <3> QED BY <1>6, <1>13, <3>1, <3>2
  <2>3. WalkOK'
    BY <2>1 DEF WalkOK
  <2>4. Floor' <= probe'
    <3>1. Floor' = Floor
      BY <1>1 DEF Floor
    <3> QED BY <1>1, <1>3, <1>5, <2>1, <3>1
  <2>5. Swept'
    <3> SUFFICES ASSUME Uncut(reads')
                 PROVE  /\ RangeSoFar(page', islands', doubts', unverified', Ranges[current'], probe')
                        /\ \A i \in 1..current' : i < current' =>
                             RangeSoFar(page', islands', doubts', unverified', Ranges[i], Ranges[i][2] + 1)
      BY <2>1 DEF Swept
    <3>1. Uncut(reads)
      BY <1>1, <1>7, UncutBefore
    <3>2. RangeSoFar(page, islands, doubts, unverified, Ranges[current], probe)
      BY <1>1, <3>1 DEF Swept
    <3>3. RangesApart => \A a \in Walked(islands) : (a \in Span(Ranges[current]) => a < probe)
      <4>1. islands \subseteq Address \X Address
        BY <1>1 DEF MapTypeOK
      <4> QED BY <1>1, <1>3, <4>1, WalkedBelow
    <3>4. unverified \subseteq unverified'
      BY <1>7 DEF Onward
    <3>5. RangeSoFar(page, islands, doubts, unverified', Ranges[current], probe + Stride)
      BY <1>3, <2>2, <3>2, <3>3, <3>4, ProbeSoFar
    <3>6. \A i \in 1..current' : i < current' =>
            RangeSoFar(page', islands', doubts', unverified', Ranges[i], Ranges[i][2] + 1)
      BY <1>1, <1>7, FinishedStays
    <3> QED BY <1>1, <2>1, <3>5, <3>6
  <2> QED BY <1>6, <2>1, <1>8, <1>10, <1>11, <2>3, <2>4, <2>5 DEF SweepInv
<1> QED BY <1>12, <1>13

\* A walk that goes on, with its edge where it was or further out.
LEMMA WalkGoesOn ==
    ASSUME SweepInv, Onward, pc \in {"walk", "bisect"}, pc' \in {"walk", "bisect"},
           islands' = islands, current' = current, probe' = probe, lowEdge' = lowEdge,
           walk' \in [dir : {"down", "up"}, edge : Nat, low : Nat, high : Nat, best : Nat],
           walk'.dir = walk.dir, Floor <= walk'.edge, walk'.edge <= Limit,
           walk.dir = "down" => walk'.edge <= probe /\ walk'.edge..probe \subseteq values',
           walk.dir = "up" => probe <= walk'.edge /\ lowEdge..walk'.edge \subseteq values',
           BisectOK'
    PROVE  SweepInv'
<1>1. MapTypeOK /\ Swept /\ IslandsOK(page, islands, values, doubts, reads, current, probe)
  BY DEF SweepInv
<1>2. Floor' = Floor /\ Limit' = Limit
  BY DEF Floor, Limit
<1>3. current \in Nat /\ probe \in Nat /\ probe <= probe
  BY <1>1, SweepTypes
<1>4. MapTypeOK'
  BY <1>1, <1>3 DEF MapTypeOK, Onward
<1>5. Swept'
  BY <1>1, SweptStays
<1>6. IslandsOK(page, islands, values, doubts, reads, current, probe)'
  BY <1>1, <1>3, IslandsStay
<1>7. WalkOK'
  <2>1. /\ Floor <= probe /\ probe <= Limit
        /\ walk.dir = "up" => /\ Floor <= lowEdge /\ lowEdge <= probe
                              /\ Uncut(reads) => DownSettled(page, doubts, lowEdge, Floor)
    BY DEF SweepInv, WalkOK
  <2>2. Uncut(reads') => Uncut(reads)
    BY <1>1, UncutBefore
  <2>3. DownSettled(page, doubts, lowEdge, Floor) => DownSettled(page, doubts', lowEdge, Floor)
    BY DEF DownSettled, Onward
  <2>4. walk.dir = "up" => (Uncut(reads') => DownSettled(page', doubts', lowEdge', Floor'))
    BY <1>2, <2>1, <2>2, <2>3 DEF Onward
  <2> QED BY <1>2, <2>1, <2>4 DEF WalkOK
<1> QED BY <1>4, <1>5, <1>6, <1>7 DEF SweepInv, Onward

\* The addresses beyond the edge, up to the end of the range.
LEMMA BeyondTheEdge ==
    ASSUME MapTypeOK, Floor <= walk.edge, walk.edge <= Limit,
           NEW n \in Int, 1 <= n, n <= Ahead
    PROVE  /\ Beyond(1, n) \subseteq Address
           /\ walk.dir = "up" => /\ Beyond(1, n) = (walk.edge + 1)..(walk.edge + n)
                                 /\ MapAnswers(Beyond(1, n)) <=> OnePage(page, walk.edge + 1, walk.edge + n)
                                 /\ walk.edge + n <= Limit
           /\ walk.dir = "down" => /\ Beyond(1, n) = (walk.edge - n)..(walk.edge - 1)
                                   /\ MapAnswers(Beyond(1, n)) <=> OnePage(page, walk.edge - n, walk.edge - 1)
                                   /\ Floor <= walk.edge - n
<1>1. /\ Floor \in Int /\ Limit \in Int /\ walk.edge \in Int /\ walk.dir \in {"down", "up"}
      /\ \A a \in Int : Floor <= a /\ a <= Limit => a \in Address
  BY SweepTypes
<1> DEFINE edge == walk.edge
<1>2. edge \in Int /\ Floor <= edge /\ edge <= Limit
  BY <1>1
<1>3. CASE walk.dir = "up"
  <2>1. Beyond(1, n) = (edge + 1)..(edge + n) /\ Ahead = Limit - edge
    BY <1>3 DEF Beyond, Ahead
  <2> HIDE DEF edge
  <2>2. edge + n <= Limit /\ edge + 1 \in Int /\ edge + n \in Int /\ edge + 1 <= edge + n
    BY <1>1, <1>2, <2>1
  <2>3. (edge + 1)..(edge + n) \subseteq Address
    BY <1>1, <1>2, <2>2
  <2>4. MapAnswers((edge + 1)..(edge + n)) <=> OnePage(page, edge + 1, edge + n)
    BY <2>2, AnswersOnePage
  <2> QED BY <1>3, <2>1, <2>2, <2>3, <2>4 DEF edge
<1>4. CASE walk.dir = "down"
  <2>1. Beyond(1, n) = (edge - n)..(edge - 1) /\ Ahead = edge - Floor
    BY <1>4 DEF Beyond, Ahead
  <2> HIDE DEF edge
  <2>2. Floor <= edge - n /\ edge - 1 \in Int /\ edge - n \in Int /\ edge - n <= edge - 1
    BY <1>1, <1>2, <2>1
  <2>3. (edge - n)..(edge - 1) \subseteq Address
    BY <1>1, <1>2, <2>2
  <2>4. MapAnswers((edge - n)..(edge - 1)) <=> OnePage(page, edge - n, edge - 1)
    BY <2>2, AnswersOnePage
  <2> QED BY <1>4, <2>1, <2>2, <2>3, <2>4 DEF edge
<1> QED BY <1>1, <1>3, <1>4

\* A read beyond the edge was lost: what it asked for covers what may be left of the page
\* before the next probe.
LEMMA DoubtedAbove ==
    ASSUME NEW pages, NEW dubious, NEW edge \in Int, NEW limit \in Int, NEW n \in Int,
           Stride <= EdgeRead + 1, n = EdgeRead \/ edge + n >= limit,
           (edge + 1)..(edge + n) \subseteq dubious
    PROVE  UpSettled(pages, dubious, edge, limit)
<1>1. Stride \in Int /\ EdgeRead \in Int
  BY RangeFacts
<1> QED BY <1>1 DEF UpSettled

LEMMA DoubtedBelow ==
    ASSUME NEW pages, NEW dubious, NEW edge \in Int, NEW floor \in Int, NEW n \in Int,
           Stride <= EdgeRead + 1, n = EdgeRead \/ edge - n <= floor,
           (edge - n)..(edge - 1) \subseteq dubious
    PROVE  DownSettled(pages, dubious, edge, floor)
<1>1. Stride \in Int /\ EdgeRead \in Int
  BY RangeFacts
<1> QED BY <1>1 DEF DownSettled

LEMMA WalkOnKeeps ==
    ASSUME SweepInv, WalkOn
    PROVE  SweepInv'
<1> DEFINE width == Min({EdgeRead, Ahead})
           edge == walk.edge
<1>1. /\ MapTypeOK /\ ValuesTrue /\ Swept /\ WalkOK
      /\ pc = "walk" /\ Ahead > 0 /\ ~Exhausted
      /\ page' = page /\ current' = current /\ refused' = refused /\ unverified' = unverified
      /\ unscanned' = unscanned
  BY DEF WalkOn, SweepInv
<1>2. PICK r \in ReadResults(Beyond(1, width)) :
        /\ Spend(Beyond(1, width), r)
        /\ CASE r.outcome = "ok" ->
                  /\ walk' = [walk EXCEPT !.edge = Move(width)]
                  /\ UNCHANGED <<pc, probe, lowEdge, islands, doubts>>
             [] r.outcome = "failed" ->
                  /\ doubts' = doubts \union Beyond(1, width)
                  /\ EndWalk(walk.edge)
             [] r.outcome = "refused" ->
                  /\ pc' = "bisect"
                  /\ walk' = [walk EXCEPT !.low = 1, !.high = width - 1, !.best = 0]
                  /\ UNCHANGED <<probe, lowEdge, islands, doubts>>
  BY DEF WalkOn
<1>3. /\ Floor \in Int /\ Limit \in Int /\ probe \in Int /\ edge \in Int /\ lowEdge \in Int
      /\ Floor \in Nat /\ walk.dir \in {"down", "up"}
  BY <1>1, SweepTypes
<1>4. /\ Floor <= probe /\ probe <= Limit /\ Floor <= edge /\ edge <= Limit
      /\ walk.dir = "down" => edge <= probe /\ edge..probe \subseteq values
      /\ walk.dir = "up" => probe <= edge /\ Floor <= lowEdge /\ lowEdge <= probe
                            /\ lowEdge..edge \subseteq values
  BY <1>1 DEF WalkOK
<1>5. /\ width \in Int /\ 1 <= width /\ width <= Ahead /\ width <= EdgeRead
      /\ width = EdgeRead \/ width = Ahead
      /\ Ahead = IF walk.dir = "up" THEN Limit - edge ELSE edge - Floor
  <2>1. Ahead = IF walk.dir = "up" THEN Limit - edge ELSE edge - Floor
    BY DEF Ahead
  <2>2. Ahead \in Int /\ EdgeRead \in Int /\ EdgeRead >= 1
    BY <1>3, <2>1, RangeFacts
  <2>3. width = IF EdgeRead <= Ahead THEN EdgeRead ELSE Ahead
    BY <2>2, LeastOfTwo
  <2> HIDE DEF width
  <2> QED BY <1>1, <2>1, <2>2, <2>3
<1> HIDE DEF width
<1>6. /\ Beyond(1, width) \subseteq Address
      /\ walk.dir = "up" => /\ Beyond(1, width) = (edge + 1)..(edge + width)
                            /\ MapAnswers(Beyond(1, width)) <=> OnePage(page, edge + 1, edge + width)
                            /\ edge + width <= Limit
      /\ walk.dir = "down" => /\ Beyond(1, width) = (edge - width)..(edge - 1)
                              /\ MapAnswers(Beyond(1, width)) <=> OnePage(page, edge - width, edge - 1)
                              /\ Floor <= edge - width
  BY <1>1, <1>4, <1>5, BeyondTheEdge
<1>7. /\ values \subseteq values' /\ values' \subseteq Address /\ ValuesTrue'
      /\ reads' \in 0..MaxReads /\ reads <= reads' /\ linkFailures' \in 0..MaxLinkFailures
      /\ r.outcome \in {"ok", "refused", "failed"}
      /\ r.outcome = "ok" => MapAnswers(Beyond(1, width)) /\ Beyond(1, width) \subseteq values'
      /\ r.outcome = "refused" => ~MapAnswers(Beyond(1, width))
  BY <1>1, <1>2, <1>6, ReadsOn
<1>8. walk \in [dir : {"down", "up"}, edge : Nat, low : Nat, high : Nat, best : Nat]
  BY <1>1 DEF MapTypeOK
<1>9. CASE r.outcome = "ok"
  <2>1. walk' = [walk EXCEPT !.edge = Move(width)] /\ pc' = pc /\ probe' = probe
        /\ lowEdge' = lowEdge /\ islands' = islands /\ doubts' = doubts
    BY <1>2, <1>9
  <2>2. Onward
    BY <1>1, <1>7, <2>1 DEF Onward, MapTypeOK
  <2>3. BisectOK'
    BY <1>1, <2>1 DEF BisectOK
  <2>4. /\ Floor <= Move(width) /\ Move(width) <= Limit /\ Move(width) \in Nat
        /\ walk.dir = "down" => Move(width) <= probe /\ Move(width)..probe \subseteq values'
        /\ walk.dir = "up" => probe <= Move(width) /\ lowEdge..Move(width) \subseteq values'
    <3>0. Floor >= 0
      <4>1. \A n \in Nat : n >= 0
        OBVIOUS
      <4> QED BY <1>3, <4>1, Zenon
    <3>1. CASE walk.dir = "up"
      <4>1. Move(width) = edge + width /\ edge + width <= Limit
        BY <1>6, <3>1 DEF Move
      <4>2. lowEdge..edge \subseteq values' /\ (edge + 1)..(edge + width) \subseteq values'
        BY <1>4, <1>6, <1>7, <1>9, <3>1
      <4> HIDE DEF edge
      <4>3. Floor <= edge + width /\ edge + width \in Nat /\ probe <= edge + width
        BY <1>3, <1>4, <1>5, <3>0, <3>1
      <4>4. lowEdge..(edge + width) \subseteq values'
        BY <1>3, <1>5, <4>2
      <4> QED BY <3>1, <4>1, <4>3, <4>4
    <3>2. CASE walk.dir = "down"
      <4>1. Move(width) = edge - width /\ Floor <= edge - width
        BY <1>6, <3>2 DEF Move
      <4>2. edge..probe \subseteq values' /\ (edge - width)..(edge - 1) \subseteq values'
        BY <1>4, <1>6, <1>7, <1>9, <3>2
      <4> HIDE DEF edge
      <4>3. edge - width <= Limit /\ edge - width \in Nat /\ edge - width <= probe
        BY <1>3, <1>4, <1>5, <3>0, <3>2, <4>1
      <4>4. (edge - width)..probe \subseteq values'
        BY <1>3, <1>5, <4>2
      <4> QED BY <3>2, <4>1, <4>3, <4>4
    <3> QED BY <1>3, <3>1, <3>2
  <2>5. /\ walk' \in [dir : {"down", "up"}, edge : Nat, low : Nat, high : Nat, best : Nat]
        /\ walk'.edge = Move(width) /\ walk'.dir = walk.dir
    BY <1>8, <2>1, <2>4
  <2> QED BY <1>1, <2>1, <2>2, <2>3, <2>4, <2>5, WalkGoesOn
<1>10. CASE r.outcome = "failed"
  <2>1. doubts' = doubts \union Beyond(1, width) /\ EndWalk(edge)
    BY <1>2, <1>10
  <2>2. Onward
    <3>1. doubts' \subseteq Address
      BY <1>1, <1>6, <2>1 DEF MapTypeOK
    <3> QED BY <1>1, <1>7, <2>1, <3>1 DEF Onward, MapTypeOK
  <2>3. CASE walk.dir = "up"
    <3>1. Uncut(reads') => UpSettled(page, doubts', edge, Limit)
      <4>1. (edge + 1)..(edge + width) \subseteq doubts'
        BY <1>6, <2>1, <2>3
      <4>2. width = EdgeRead \/ edge + width >= Limit
        BY <1>3, <1>5, <2>3
      <4> HIDE DEF edge
      <4> QED BY <1>3, <1>5, <4>1, <4>2, DoubtedAbove DEF Uncut
    <3>2. lowEdge..edge \subseteq values'
      BY <1>4, <1>7, <2>3
    <3> QED BY <1>1, <1>3, <1>4, <2>1, <2>2, <2>3, <3>1, <3>2, WalkRecords
  <2>4. CASE walk.dir = "down"
    <3>1. Uncut(reads') => DownSettled(page, doubts', edge, Floor)
      <4>1. (edge - width)..(edge - 1) \subseteq doubts'
        BY <1>6, <2>1, <2>4
      <4>2. width = EdgeRead \/ edge - width <= Floor
        BY <1>3, <1>5, <2>4
      <4> HIDE DEF edge
      <4> QED BY <1>3, <1>5, <4>1, <4>2, DoubtedBelow DEF Uncut
    <3>2. edge..probe \subseteq values'
      BY <1>4, <1>7, <2>4
    <3> QED BY <1>1, <1>3, <1>4, <2>1, <2>2, <2>4, <3>1, <3>2, WalkTurns
  <2> QED BY <1>3, <2>3, <2>4
<1>11. CASE r.outcome = "refused"
  <2>1. pc' = "bisect" /\ walk' = [walk EXCEPT !.low = 1, !.high = width - 1, !.best = 0]
        /\ probe' = probe /\ lowEdge' = lowEdge /\ islands' = islands /\ doubts' = doubts
    BY <1>2, <1>11
  <2>2. Onward
    BY <1>1, <1>7, <2>1 DEF Onward, MapTypeOK
  <2>3. /\ walk' \in [dir : {"down", "up"}, edge : Nat, low : Nat, high : Nat, best : Nat]
        /\ walk'.edge = edge /\ walk'.dir = walk.dir
        /\ walk'.low = 1 /\ walk'.high = width - 1 /\ walk'.best = 0
    <3>1. width - 1 \in Nat
      BY <1>5
    <3> QED BY <1>8, <2>1, <3>1
  <2>4. Ahead' = Ahead
    BY <1>1, <2>3 DEF Ahead, Floor, Limit
  <2>5. BisectOK'
    <3>1. EndsWithin(page, values', walk')
      <4>1. CASE walk.dir = "up"
        <5>1. ~OnePage(page, edge + 1, edge + width)
          BY <1>6, <1>7, <1>11, <4>1
        <5> HIDE DEF edge
        <5>2. edge + (width - 1) + 1 = edge + width /\ (edge + 1)..(edge + 0) = {}
          BY <1>3, <1>5
        <5> QED BY <2>3, <4>1, <5>1, <5>2 DEF EndsWithin
      <4>2. CASE walk.dir = "down"
        <5>1. ~OnePage(page, edge - width, edge - 1)
          BY <1>6, <1>7, <1>11, <4>2
        <5> HIDE DEF edge
        <5>2. edge - (width - 1) - 1 = edge - width /\ (edge - 0)..(edge - 1) = {}
          BY <1>3, <1>5
        <5> QED BY <2>3, <4>2, <5>1, <5>2 DEF EndsWithin
      <4> QED BY <1>3, <4>1, <4>2
    <3>2. walk'.low = walk'.best + 1 /\ walk'.best <= walk'.high /\ walk'.high < Ahead
      <4>1. Ahead \in Int
        BY <1>3, <1>5
      <4> QED BY <1>5, <2>3, <4>1
    <3> QED BY <1>1, <2>4, <3>1, <3>2 DEF BisectOK
  <2>6. /\ walk.dir = "down" => edge <= probe /\ edge..probe \subseteq values'
        /\ walk.dir = "up" => probe <= edge /\ lowEdge..edge \subseteq values'
    BY <1>4, <1>7
  <2> QED BY <1>1, <1>4, <2>1, <2>2, <2>3, <2>5, <2>6, WalkGoesOn
<1> QED BY <1>7, <1>9, <1>10, <1>11

LEMMA WalkEndsKeeps ==
    ASSUME SweepInv, WalkEnds
    PROVE  SweepInv'
<1>1. /\ MapTypeOK /\ ValuesTrue /\ WalkOK /\ pc = "walk" /\ (Ahead = 0 \/ Exhausted)
      /\ EndWalk(walk.edge) /\ page' = page /\ current' = current /\ values' = values
      /\ refused' = refused /\ unverified' = unverified /\ unscanned' = unscanned
      /\ doubts' = doubts /\ reads' = reads /\ linkFailures' = linkFailures
  BY DEF WalkEnds, SweepInv, notes
<1>2. /\ Floor \in Int /\ Limit \in Int /\ walk.edge \in Int /\ walk.dir \in {"down", "up"}
      /\ reads \in 0..MaxReads /\ linkFailures \in 0..MaxLinkFailures /\ reads \in Nat
  BY <1>1, SweepTypes
<1>3. Onward
  <2>1. ValuesTrue' /\ reads <= reads
    BY <1>1, <1>2 DEF ValuesTrue
  <2> QED BY <1>1, <1>2, <2>1 DEF Onward, MapTypeOK
<1>4. /\ Floor <= walk.edge /\ walk.edge <= Limit
      /\ walk.dir = "down" => walk.edge <= probe /\ walk.edge..probe \subseteq values
      /\ walk.dir = "up" => probe <= walk.edge /\ lowEdge..walk.edge \subseteq values
  BY <1>1 DEF WalkOK
<1>5. Uncut(reads') => Ahead = 0
  <2>1. MaxReads \in Int
    BY RangeFacts
  <2> QED BY <1>1, <1>2, <2>1 DEF Uncut, Exhausted
<1>6. CASE walk.dir = "up"
  <2>1. Uncut(reads') => UpSettled(page, doubts', walk.edge, Limit)
    BY <1>2, <1>5, <1>6 DEF Ahead, UpSettled
  <2> QED BY <1>1, <1>2, <1>3, <1>4, <1>6, <2>1, WalkRecords
<1>7. CASE walk.dir = "down"
  <2>1. Uncut(reads') => DownSettled(page, doubts', walk.edge, Floor)
    BY <1>2, <1>5, <1>7 DEF Ahead, DownSettled
  <2> QED BY <1>1, <1>2, <1>3, <1>4, <1>7, <2>1, WalkTurns
<1> QED BY <1>2, <1>6, <1>7

\* The page does not reach the register beyond high; up to high it is in doubt.
LEMMA PageEndsAbove ==
    ASSUME NEW pages, NEW dubious, NEW edge \in Int, NEW limit \in Int,
           NEW best \in Int, NEW high \in Int, 0 <= best, best <= high,
           ~OnePage(pages, edge + 1, edge + high + 1),
           best > 0 => OnePage(pages, edge + 1, edge + best),
           (edge + best + 1)..(edge + high) \subseteq dubious
    PROVE  UpSettled(pages, dubious, edge + best, limit)
<1> SUFFICES ASSUME NEW a \in (edge + best + 1)..limit, OnePage(pages, edge + best, a),
                    a > edge + high
             PROVE  FALSE
  BY DEF UpSettled
<1> SUFFICES ASSUME NEW x \in (edge + 1)..(edge + high + 1)
             PROVE  pages[x] = pages[edge + 1] /\ pages[x] # NoPage
  BY DEF OnePage
<1>1. \A y \in Int : edge + best <= y /\ y <= edge + high + 1 =>
        pages[y] = pages[edge + best] /\ pages[y] # NoPage
  BY DEF OnePage
<1>2. CASE best = 0
  BY <1>1, <1>2
<1>3. CASE best > 0
  <2>1. \A y \in Int : edge + 1 <= y /\ y <= edge + best =>
          pages[y] = pages[edge + 1] /\ pages[y] # NoPage
    BY <1>3 DEF OnePage
  <2>2. pages[edge + best] = pages[edge + 1]
    BY <1>3, <2>1
  <2> QED BY <1>1, <2>1, <2>2
<1> QED BY <1>2, <1>3

LEMMA PageEndsBelow ==
    ASSUME NEW pages, NEW dubious, NEW edge \in Int, NEW floor \in Int,
           NEW best \in Int, NEW high \in Int, 0 <= best, best <= high,
           ~OnePage(pages, edge - high - 1, edge - 1),
           best > 0 => OnePage(pages, edge - best, edge - 1),
           (edge - high)..(edge - best - 1) \subseteq dubious
    PROVE  DownSettled(pages, dubious, edge - best, floor)
<1> SUFFICES ASSUME NEW a \in floor..(edge - best - 1), OnePage(pages, a, edge - best),
                    a < edge - high
             PROVE  FALSE
  BY DEF DownSettled
<1>1. \A y \in Int : edge - high - 1 <= y /\ y <= edge - best =>
        pages[y] = pages[a] /\ pages[y] # NoPage
  BY DEF OnePage
<1>2. pages[edge - high - 1] = pages[a] /\ pages[edge - best] = pages[a]
  BY <1>1
<1> SUFFICES ASSUME NEW x \in (edge - high - 1)..(edge - 1)
             PROVE  pages[x] = pages[a] /\ pages[x] # NoPage
  BY <1>2 DEF OnePage
<1>3. CASE best = 0
  BY <1>1, <1>3
<1>4. CASE best > 0
  <2>1. \A y \in Int : edge - best <= y /\ y <= edge - 1 =>
          pages[y] = pages[edge - best] /\ pages[y] # NoPage
    BY <1>4 DEF OnePage
  <2> QED BY <1>1, <1>2, <2>1
<1> QED BY <1>3, <1>4

LEMMA BisectFacts ==
    ASSUME SweepInv, pc = "bisect"
    PROVE  /\ Floor \in Int /\ Limit \in Int /\ probe \in Int /\ walk.edge \in Int /\ lowEdge \in Int
           /\ Floor \in Nat /\ Floor >= 0 /\ walk.dir \in {"down", "up"}
           /\ walk.low \in Int /\ walk.best \in Int /\ walk.high \in Int
           /\ 0 <= walk.best /\ walk.low = walk.best + 1 /\ walk.best <= walk.high /\ walk.high < Ahead
           /\ Ahead = IF walk.dir = "up" THEN Limit - walk.edge ELSE walk.edge - Floor
           /\ Floor <= probe /\ probe <= Limit /\ Floor <= walk.edge /\ walk.edge <= Limit
           /\ walk.dir = "down" => walk.edge <= probe /\ walk.edge..probe \subseteq values
           /\ walk.dir = "up" => /\ probe <= walk.edge /\ Floor <= lowEdge /\ lowEdge <= probe
                                 /\ lowEdge..walk.edge \subseteq values
           /\ EndsWithin(page, values, walk)
<1>1. MapTypeOK /\ WalkOK /\ BisectOK
  BY DEF SweepInv
<1>2. /\ Floor \in Int /\ Limit \in Int /\ probe \in Int /\ walk.edge \in Int /\ lowEdge \in Int
      /\ Floor \in Nat /\ walk.dir \in {"down", "up"}
      /\ walk.low \in Int /\ walk.best \in Int /\ walk.high \in Int
  BY <1>1, SweepTypes
<1>3. walk.best \in Nat
  BY <1>1 DEF MapTypeOK
<1>4. 0 <= walk.best /\ Floor >= 0
  <2>1. \A n \in Nat : 0 <= n /\ n >= 0
    OBVIOUS
  <2> QED BY <1>2, <1>3, <2>1, Zenon
<1>5. /\ walk.low = walk.best + 1 /\ walk.best <= walk.high /\ walk.high < Ahead
      /\ EndsWithin(page, values, walk)
  BY <1>1 DEF BisectOK
<1>6. /\ Floor <= probe /\ probe <= Limit /\ Floor <= walk.edge /\ walk.edge <= Limit
      /\ walk.dir = "down" => walk.edge <= probe /\ walk.edge..probe \subseteq values
      /\ walk.dir = "up" => /\ probe <= walk.edge /\ Floor <= lowEdge /\ lowEdge <= probe
                            /\ lowEdge..walk.edge \subseteq values
  BY <1>1 DEF WalkOK
<1>7. Ahead = IF walk.dir = "up" THEN Limit - walk.edge ELSE walk.edge - Floor
  BY DEF Ahead
<1> QED BY <1>2, <1>4, <1>5, <1>6, <1>7

\* The walk ends at the best register of the bisection.
LEMMA BisectionStops ==
    ASSUME SweepInv, Onward, pc = "bisect", current' = current, EndWalk(Move(walk.best)),
           Uncut(reads') => Beyond(walk.best + 1, walk.high) \subseteq doubts'
    PROVE  SweepInv'
<1> DEFINE edge == walk.edge
           best == walk.best
           high == walk.high
<1>1. /\ Floor \in Int /\ Limit \in Int /\ probe \in Int /\ edge \in Int /\ lowEdge \in Int
      /\ walk.dir \in {"down", "up"} /\ best \in Int /\ high \in Int
      /\ 0 <= best /\ best <= high /\ high < Ahead
      /\ Ahead = IF walk.dir = "up" THEN Limit - edge ELSE edge - Floor
      /\ Floor <= probe /\ probe <= Limit /\ Floor <= edge /\ edge <= Limit
      /\ walk.dir = "down" => edge <= probe /\ edge..probe \subseteq values
      /\ walk.dir = "up" => /\ probe <= edge /\ Floor <= lowEdge /\ lowEdge <= probe
                            /\ lowEdge..edge \subseteq values
      /\ EndsWithin(page, values, walk)
  BY BisectFacts
<1>2. values \subseteq values'
  BY DEF Onward
<1>3. CASE walk.dir = "up"
  <2>1. /\ ~OnePage(page, edge + 1, edge + high + 1)
        /\ best > 0 => OnePage(page, edge + 1, edge + best)
        /\ (edge + 1)..(edge + best) \subseteq values
    BY <1>1, <1>3 DEF EndsWithin
  <2>2. EndWalk(edge + best)
    BY <1>3 DEF Move
  <2>3. Uncut(reads') => (edge + (best + 1))..(edge + high) \subseteq doubts'
    BY <1>3 DEF Beyond
  <2>4. lowEdge..edge \subseteq values
    BY <1>1, <1>3
  <2> HIDE DEF edge, best, high
  <2>5. Uncut(reads') => UpSettled(page, doubts', edge + best, Limit)
    <3>1. edge + (best + 1) = edge + best + 1
      BY <1>1
    <3> QED BY <1>1, <2>1, <2>3, <3>1, PageEndsAbove
  <2>6. lowEdge..(edge + best) \subseteq values'
    BY <1>1, <1>2, <1>3, <2>1, <2>4
  <2>7. probe <= edge + best /\ edge + best <= Limit /\ edge + best \in Int
    BY <1>1, <1>3
  <2> QED BY <1>3, <2>2, <2>5, <2>6, <2>7, WalkRecords
<1>4. CASE walk.dir = "down"
  <2>1. /\ ~OnePage(page, edge - high - 1, edge - 1)
        /\ best > 0 => OnePage(page, edge - best, edge - 1)
        /\ (edge - best)..(edge - 1) \subseteq values
    BY <1>1, <1>4 DEF EndsWithin
  <2>2. EndWalk(edge - best)
    BY <1>4 DEF Move
  <2>3. Uncut(reads') => (edge - high)..(edge - (best + 1)) \subseteq doubts'
    BY <1>4 DEF Beyond
  <2>4. edge..probe \subseteq values
    BY <1>1, <1>4
  <2> HIDE DEF edge, best, high
  <2>5. Uncut(reads') => DownSettled(page, doubts', edge - best, Floor)
    <3>1. edge - (best + 1) = edge - best - 1
      BY <1>1
    <3> QED BY <1>1, <2>1, <2>3, <3>1, PageEndsBelow
  <2>6. (edge - best)..probe \subseteq values'
    BY <1>1, <1>2, <1>4, <2>1, <2>4
  <2>7. edge - best <= probe /\ Floor <= edge - best /\ edge - best \in Int
    BY <1>1, <1>4
  <2> QED BY <1>4, <2>2, <2>5, <2>6, <2>7, WalkTurns
<1> QED BY <1>1, <1>3, <1>4

LEMMA BisectEndsKeeps ==
    ASSUME SweepInv, BisectEnds
    PROVE  SweepInv'
<1>1. /\ MapTypeOK /\ ValuesTrue /\ pc = "bisect" /\ (walk.low > walk.high \/ Exhausted)
      /\ EndWalk(Move(walk.best)) /\ page' = page /\ current' = current /\ values' = values
      /\ refused' = refused /\ unverified' = unverified /\ unscanned' = unscanned
      /\ doubts' = doubts /\ reads' = reads /\ linkFailures' = linkFailures
  BY DEF BisectEnds, SweepInv, notes
<1>2. /\ reads \in 0..MaxReads /\ linkFailures \in 0..MaxLinkFailures /\ reads \in Nat
  BY <1>1, SweepTypes
<1>3. Onward
  <2>1. ValuesTrue' /\ reads <= reads
    BY <1>1, <1>2 DEF ValuesTrue
  <2> QED BY <1>1, <1>2, <2>1 DEF Onward, MapTypeOK
<1>4. Uncut(reads') => Beyond(walk.best + 1, walk.high) \subseteq doubts'
  <2> SUFFICES ASSUME Uncut(reads') PROVE Beyond(walk.best + 1, walk.high) = {}
    OBVIOUS
  <2>1. walk.low > walk.high
    <3>1. MaxReads \in Int
      BY RangeFacts
    <3> QED BY <1>1, <1>2, <3>1 DEF Uncut, Exhausted
  <2>2. /\ walk.edge \in Int /\ walk.best \in Int /\ walk.high \in Int /\ walk.low = walk.best + 1
    BY <1>1, BisectFacts
  <2> QED BY <2>1, <2>2 DEF Beyond
<1> QED BY <1>1, <1>3, <1>4, BisectionStops

LEMMA BisectKeeps ==
    ASSUME SweepInv, Bisect
    PROVE  SweepInv'
<1> DEFINE middle == (walk.low + walk.high) \div 2
           edge == walk.edge
<1>1. /\ MapTypeOK /\ ValuesTrue /\ pc = "bisect" /\ walk.low <= walk.high /\ ~Exhausted
      /\ page' = page /\ current' = current /\ refused' = refused /\ unverified' = unverified
      /\ unscanned' = unscanned
  BY DEF Bisect, SweepInv
<1>2. PICK r \in ReadResults(Beyond(1, middle)) :
        /\ Spend(Beyond(1, middle), r)
        /\ IF r.outcome = "failed"
             THEN /\ doubts' = doubts \union Beyond(walk.best + 1, walk.high)
                  /\ EndWalk(Move(walk.best))
             ELSE /\ walk' = IF r.outcome = "ok"
                               THEN [walk EXCEPT !.best = middle, !.low = middle + 1]
                               ELSE [walk EXCEPT !.high = middle - 1]
                  /\ UNCHANGED <<pc, probe, lowEdge, islands, doubts>>
  BY DEF Bisect
<1>3. /\ Floor \in Int /\ Limit \in Int /\ probe \in Int /\ edge \in Int /\ lowEdge \in Int
      /\ walk.dir \in {"down", "up"} /\ walk.low \in Int /\ walk.best \in Int /\ walk.high \in Int
      /\ 0 <= walk.best /\ walk.low = walk.best + 1 /\ walk.best <= walk.high /\ walk.high < Ahead
      /\ Ahead = IF walk.dir = "up" THEN Limit - edge ELSE edge - Floor
      /\ Floor <= probe /\ probe <= Limit /\ Floor <= edge /\ edge <= Limit
      /\ walk.dir = "down" => edge <= probe /\ edge..probe \subseteq values
      /\ walk.dir = "up" => /\ probe <= edge /\ Floor <= lowEdge /\ lowEdge <= probe
                            /\ lowEdge..edge \subseteq values
      /\ EndsWithin(page, values, walk)
  BY <1>1, BisectFacts
<1>4. middle \in Int /\ walk.low <= middle /\ middle <= walk.high /\ 1 <= middle
  BY <1>1, <1>3
<1>5. middle <= Ahead /\ Ahead \in Int
  BY <1>3, <1>4
<1> HIDE DEF middle
<1>6. /\ Beyond(1, middle) \subseteq Address
      /\ walk.dir = "up" => /\ Beyond(1, middle) = (edge + 1)..(edge + middle)
                            /\ MapAnswers(Beyond(1, middle)) <=> OnePage(page, edge + 1, edge + middle)
      /\ walk.dir = "down" => /\ Beyond(1, middle) = (edge - middle)..(edge - 1)
                              /\ MapAnswers(Beyond(1, middle)) <=> OnePage(page, edge - middle, edge - 1)
  BY <1>1, <1>3, <1>4, <1>5, BeyondTheEdge
<1>7. /\ values \subseteq values' /\ values' \subseteq Address /\ ValuesTrue'
      /\ reads' \in 0..MaxReads /\ reads <= reads' /\ linkFailures' \in 0..MaxLinkFailures
      /\ r.outcome \in {"ok", "refused", "failed"}
      /\ r.outcome = "ok" => MapAnswers(Beyond(1, middle)) /\ Beyond(1, middle) \subseteq values'
      /\ r.outcome = "refused" => ~MapAnswers(Beyond(1, middle))
  BY <1>1, <1>2, <1>6, ReadsOn
<1>8. CASE r.outcome = "failed"
  <2>1. doubts' = doubts \union Beyond(walk.best + 1, walk.high) /\ EndWalk(Move(walk.best))
    BY <1>2, <1>8
  <2>2. doubts' \subseteq Address
    <3>1. Beyond(walk.best + 1, walk.high) \subseteq Beyond(1, walk.high)
      BY <1>3 DEF Beyond
    <3>2. walk.high \in Int /\ 1 <= walk.high /\ walk.high <= Ahead
      BY <1>3, <1>4, <1>5
    <3>3. Beyond(1, walk.high) \subseteq Address
      BY <1>1, <1>3, <3>2, BeyondTheEdge
    <3>4. doubts \subseteq Address
      BY <1>1 DEF MapTypeOK
    <3> QED BY <2>1, <3>1, <3>3, <3>4
  <2>3. Onward
    BY <1>1, <1>7, <2>1, <2>2 DEF Onward, MapTypeOK
  <2> QED BY <1>1, <2>1, <2>3, BisectionStops
<1>9. CASE r.outcome # "failed"
  <2>1. /\ walk' = IF r.outcome = "ok" THEN [walk EXCEPT !.best = middle, !.low = middle + 1]
                                       ELSE [walk EXCEPT !.high = middle - 1]
        /\ pc' = pc /\ probe' = probe /\ lowEdge' = lowEdge /\ islands' = islands /\ doubts' = doubts
    BY <1>2, <1>9
  <2>2. Onward
    BY <1>1, <1>7, <2>1 DEF Onward, MapTypeOK
  <2>3. walk \in [dir : {"down", "up"}, edge : Nat, low : Nat, high : Nat, best : Nat]
    BY <1>1 DEF MapTypeOK
  <2>4. middle \in Nat /\ middle + 1 \in Nat /\ middle - 1 \in Nat
    BY <1>4
  <2>5. /\ walk' \in [dir : {"down", "up"}, edge : Nat, low : Nat, high : Nat, best : Nat]
        /\ walk'.edge = edge /\ walk'.dir = walk.dir
        /\ r.outcome = "ok" => walk'.best = middle /\ walk'.low = middle + 1 /\ walk'.high = walk.high
        /\ r.outcome # "ok" => /\ walk'.best = walk.best /\ walk'.low = walk.low
                               /\ walk'.high = middle - 1
    BY <2>1, <2>3, <2>4
  <2>6. Ahead' = Ahead
    BY <1>1, <2>5 DEF Ahead, Floor, Limit
  <2>7. walk'.low = walk'.best + 1 /\ walk'.best <= walk'.high /\ walk'.high < Ahead
    BY <1>3, <1>4, <1>5, <2>5
  <2>8. EndsWithin(page, values', walk')
    <3>1. CASE walk.dir = "up"
      <4>1. /\ ~OnePage(page, edge + 1, edge + walk.high + 1)
            /\ walk.best > 0 => OnePage(page, edge + 1, edge + walk.best)
            /\ (edge + 1)..(edge + walk.best) \subseteq values'
        BY <1>3, <1>7, <3>1 DEF EndsWithin
      <4>2. CASE r.outcome = "ok"
        <5>1. OnePage(page, edge + 1, edge + middle) /\ (edge + 1)..(edge + middle) \subseteq values'
          BY <1>6, <1>7, <3>1, <4>2
        <5> HIDE DEF edge
        <5> QED BY <2>5, <3>1, <4>1, <4>2, <5>1 DEF EndsWithin
      <4>3. CASE r.outcome # "ok"
        <5>1. ~OnePage(page, edge + 1, edge + middle)
          BY <1>6, <1>7, <1>9, <3>1, <4>3
        <5> HIDE DEF edge
        <5>2. edge + (middle - 1) + 1 = edge + middle
          BY <1>3, <1>4
        <5> QED BY <2>5, <3>1, <4>1, <4>3, <5>1, <5>2 DEF EndsWithin
      <4> QED BY <4>2, <4>3
    <3>2. CASE walk.dir = "down"
      <4>1. /\ ~OnePage(page, edge - walk.high - 1, edge - 1)
            /\ walk.best > 0 => OnePage(page, edge - walk.best, edge - 1)
            /\ (edge - walk.best)..(edge - 1) \subseteq values'
        BY <1>3, <1>7, <3>2 DEF EndsWithin
      <4>2. CASE r.outcome = "ok"
        <5>1. OnePage(page, edge - middle, edge - 1) /\ (edge - middle)..(edge - 1) \subseteq values'
          BY <1>6, <1>7, <3>2, <4>2
        <5> HIDE DEF edge
        <5> QED BY <2>5, <3>2, <4>1, <4>2, <5>1 DEF EndsWithin
      <4>3. CASE r.outcome # "ok"
        <5>1. ~OnePage(page, edge - middle, edge - 1)
          BY <1>6, <1>7, <1>9, <3>2, <4>3
        <5> HIDE DEF edge
        <5>2. edge - (middle - 1) - 1 = edge - middle
          BY <1>3, <1>4
        <5> QED BY <2>5, <3>2, <4>1, <4>3, <5>1, <5>2 DEF EndsWithin
      <4> QED BY <4>2, <4>3
    <3> QED BY <1>3, <3>1, <3>2
  <2>9. BisectOK'
    BY <1>1, <2>6, <2>7, <2>8 DEF BisectOK
  <2>10. /\ walk.dir = "down" => edge <= probe /\ edge..probe \subseteq values'
         /\ walk.dir = "up" => probe <= edge /\ lowEdge..edge \subseteq values'
    BY <1>3, <1>7
  <2> QED BY <1>1, <1>3, <2>1, <2>2, <2>5, <2>9, <2>10, WalkGoesOn
<1> QED BY <1>8, <1>9

LEMMA SweepBegins ==
    ASSUME MapInit
    PROVE  SweepInv
<1>1. /\ page \in [Address -> 0..2] /\ pc = "scan" /\ current = 1 /\ probe = Ranges[1][1]
      /\ walk = [dir |-> "down", edge |-> 0, low |-> 1, high |-> 0, best |-> 0] /\ lowEdge = 0
      /\ islands = {} /\ values = {} /\ refused = {} /\ unverified = {} /\ doubts = {}
      /\ unscanned = {} /\ reads = 0 /\ linkFailures = 0
  BY DEF MapInit, NoWalk
<1>2. 1 \in 1..Len(Ranges) /\ MaxReads \in Nat /\ MaxLinkFailures \in Nat
  BY RangeFacts
<1>3. /\ Ranges[1][1] \in Nat /\ Ranges[1][1] \in Int /\ Ranges[1][2] \in Int
  BY <1>2, RangeEnds
<1>4. MapTypeOK
  BY <1>1, <1>2, <1>3 DEF MapTypeOK
<1>5. ValuesTrue /\ WalkOK /\ BisectOK
      /\ IslandsOK(page, islands, values, doubts, reads, current, probe)
  BY <1>1 DEF ValuesTrue, WalkOK, BisectOK, IslandsOK
<1>6. Floor <= probe
  BY <1>1, <1>3 DEF Floor
<1>7. RangeSoFar(page, islands, doubts, unverified, Ranges[current], probe)
  <2> SUFFICES ASSUME NEW i \in Span(Ranges[1]),
                      NEW j, Met({}, i, j) \/ i + Stride <= Ranges[1][1]
               PROVE  FALSE
    BY <1>1 DEF RangeSoFar
  <2>1. ~Met({}, i, j)
    BY DEF Met, Walked
  <2>2. i \in Int /\ Ranges[1][1] <= i
    BY <1>3 DEF Span
  <2>3. Stride \in Nat /\ Stride >= 1
    BY RangeFacts
  <2> QED BY <1>3, <2>1, <2>2, <2>3
<1>8. Swept
  BY <1>1, <1>7 DEF Swept
<1> QED BY <1>1, <1>4, <1>5, <1>6, <1>8 DEF SweepInv

LEMMA SweepGoesOn ==
    ASSUME SweepInv, [MapNext]_mapVars
    PROVE  SweepInv'
<1>1. CASE NextRange
  BY <1>1, NextRangeKeeps
<1>2. CASE SkipCovered
  BY <1>2, SkipCoveredKeeps
<1>3. CASE ProbeOne
  BY <1>3, ProbeOneKeeps
<1>4. CASE WalkOn
  BY <1>4, WalkOnKeeps
<1>5. CASE WalkEnds
  BY <1>5, WalkEndsKeeps
<1>6. CASE Bisect
  BY <1>6, BisectKeeps
<1>7. CASE BisectEnds
  BY <1>7, BisectEndsKeeps
<1>8. CASE UNCHANGED mapVars
  <2>1. /\ page' = page /\ pc' = pc /\ current' = current /\ probe' = probe /\ walk' = walk
        /\ lowEdge' = lowEdge /\ islands' = islands /\ values' = values /\ refused' = refused
        /\ unverified' = unverified /\ doubts' = doubts /\ unscanned' = unscanned
        /\ reads' = reads /\ linkFailures' = linkFailures
    BY <1>8 DEF mapVars, notes
  <2>2. MapTypeOK' /\ ValuesTrue' /\ WalkOK'
    BY <2>1 DEF SweepInv, MapTypeOK, ValuesTrue, WalkOK, Floor, Limit
  <2>3. BisectOK' /\ Swept'
    BY <2>1 DEF SweepInv, BisectOK, Swept, Ahead, Floor, Limit
  <2>4. IslandsOK(page, islands, values, doubts, reads, current, probe)'
        /\ (pc' = "scan" => Floor' <= probe')
    BY <2>1 DEF SweepInv, Floor
  <2> QED BY <2>1, <2>2, <2>3, <2>4 DEF SweepInv
<1> QED BY <1>1, <1>2, <1>3, <1>4, <1>5, <1>6, <1>7, <1>8 DEF MapNext

-----------------------------------------------------------------------------
(* The map: what it returns.                                               *)

\* From a register to the next inside a block.
Joined(x) == \E c \in islands : {x, x + 1} \subseteq Span(c)

\* Joining blocks neither adds a register nor loses one.
LEMMA ReadableIsWalked ==
    ASSUME SweepInv
    PROVE  ReadableAddresses = Walked(islands)
<1> DEFINE heads == {b[1] : b \in {b \in islands : \A c \in islands : ~(c[1] < b[1] /\ b[1] <= c[2])}}
           reach(h) == {z \in Address : z >= h /\ \A x \in h..(z - 1) : Joined(x)}
<1>1. Readable = {<<h, Max(reach(h))>> : h \in heads}
  BY DEF Readable, Joined
<1>2. Address \subseteq Nat /\ IsFiniteSet(Address)
  BY RangeFacts
<1>3. ASSUME NEW b \in islands
      PROVE  /\ b[1] \in Nat /\ b[2] \in Nat /\ b[1] <= b[2] /\ Span(b) = b[1]..b[2]
             /\ Span(b) \subseteq Address
  <2>1. b \in Address \X Address /\ values \subseteq Address /\ current \in 1..Len(Ranges)
    BY SweepTypes DEF SweepInv, MapTypeOK
  <2>2. b[1] \in Nat /\ b[2] \in Nat
    BY <2>1, BlockEnds
  <2>3. Span(b) \subseteq values /\ b[1] <= b[2]
    BY DEF SweepInv, IslandsOK, IslandOf
  <2> QED BY <2>1, <2>2, <2>3 DEF Span
<1> HIDE DEF reach
<1>4. ASSUME NEW h \in Address
      PROVE  Max(reach(h)) \in reach(h) /\ \A z \in reach(h) : z <= Max(reach(h))
  <2>1. h \in reach(h)
    BY <1>2 DEF reach
  <2>2. reach(h) \subseteq Address
    BY DEF reach
  <2>3. reach(h) \in SUBSET Nat /\ IsFiniteSet(reach(h)) /\ reach(h) # {}
    BY <1>2, <2>1, <2>2, FS_Subset
  <2> QED BY <2>3, GreatestOf
<1>5. ASSUME NEW b \in islands PROVE b[1] \in Address
  BY <1>3
<1>6. ASSUME NEW y \in ReadableAddresses PROVE y \in Walked(islands)
  <2>1. PICK h \in heads : y \in Span(<<h, Max(reach(h))>>)
    BY <1>1 DEF ReadableAddresses
  <2>2. PICK b \in islands : b[1] = h
    OBVIOUS
  <2>3. h \in Address /\ h \in Nat
    BY <1>2, <1>5, <2>2
  <2>4. PICK top \in Nat : top = Max(reach(h))
    BY <1>2, <1>4, <2>3 DEF reach
  <2>5. y \in h..top
    BY <2>1, <2>4 DEF Span
  <2>6. \A x \in h..(top - 1) : Joined(x)
    BY <1>4, <2>3, <2>4 DEF reach
  <2>7. CASE y = h
    <3>1. y \in Span(b)
      BY <1>3, <2>2, <2>3, <2>7
    <3> QED BY <3>1 DEF Walked
  <2>8. CASE y # h
    <3>1. y - 1 \in h..(top - 1) /\ (y - 1) + 1 = y
      BY <2>3, <2>5, <2>8
    <3>2. PICK c \in islands : {y - 1, (y - 1) + 1} \subseteq Span(c)
      BY <2>6, <3>1 DEF Joined
    <3> QED BY <3>1, <3>2 DEF Walked
  <2> QED BY <2>7, <2>8
<1>7. ASSUME NEW y \in Walked(islands) PROVE y \in ReadableAddresses
  <2>1. PICK c \in islands : y \in Span(c)
    BY WalkedBlock
  <2>2. PICK c1 \in Nat, c2 \in Nat : c1 = c[1] /\ c2 = c[2]
    BY <1>3
  <2>3. Span(c) = c1..c2 /\ c1 <= c2 /\ y \in Address /\ y \in Nat /\ c1 <= y /\ y <= c2
    BY <1>2, <1>3, <2>1, <2>2
  <2> DEFINE starts == {n \in Nat : n <= y /\ \A x \in n..(y - 1) : Joined(x)}
  <2>4. c1 \in starts
    <3>1. ASSUME NEW x \in c1..(y - 1) PROVE Joined(x)
      <4>1. x \in c1..c2 /\ x + 1 \in c1..c2
        BY <2>3
      <4> QED BY <2>3, <4>1 DEF Joined
    <3> QED BY <2>3, <3>1
  <2> HIDE DEF starts
  <2>5. PICK h \in starts : \A n \in starts : h <= n
    <3>1. starts \in SUBSET Nat /\ starts # {}
      BY <2>4 DEF starts
    <3> QED BY <3>1, LeastNatural
  <2>6. h \in Nat /\ h <= y /\ \A x \in h..(y - 1) : Joined(x)
    BY <2>5 DEF starts
  <2>7. ASSUME NEW d \in islands, NEW d1 \in Nat, NEW d2 \in Nat, d1 = d[1], d2 = d[2],
               d1 <= h, h <= d2
        PROVE  d1 = h
    <3>1. ASSUME NEW x \in d1..(y - 1) PROVE Joined(x)
      <4>1. CASE x < h
        <5>1. x \in d1..d2 /\ x + 1 \in d1..d2
          BY <2>6, <2>7, <4>1
        <5> QED BY <1>3, <2>7, <5>1 DEF Joined
      <4>2. CASE x >= h
        BY <2>3, <2>6, <4>2
      <4> QED BY <2>6, <4>1, <4>2
    <3>2. d1 \in starts
      BY <2>3, <2>6, <2>7, <3>1 DEF starts
    <3>3. h <= d1
      BY <2>5, <3>2
    <3> QED BY <2>6, <2>7, <3>3
  <2>8. PICK b \in islands : b[1] = h
    <3>1. CASE h = y
      <4>1. c1 <= h /\ h <= c2
        BY <2>3, <3>1
      <4>2. c1 = h
        BY <2>2, <2>7, <4>1
      <4> QED BY <2>2, <4>2
    <3>2. CASE h # y
      <4>1. h \in h..(y - 1)
        BY <2>3, <2>6, <3>2
      <4>2. PICK d \in islands : {h, h + 1} \subseteq Span(d)
        BY <2>6, <4>1 DEF Joined
      <4>3. PICK d1 \in Nat, d2 \in Nat : d1 = d[1] /\ d2 = d[2]
        BY <1>3
      <4>4. Span(d) = d1..d2
        BY <1>3, <4>3
      <4>5. d1 <= h /\ h <= d2
        BY <2>6, <4>2, <4>4
      <4>6. d1 = h
        BY <2>7, <4>3, <4>5
      <4> QED BY <4>3, <4>6
    <3> QED BY <3>1, <3>2
  <2>9. h \in heads
    <3> SUFFICES ASSUME NEW d \in islands, d[1] < b[1], b[1] <= d[2] PROVE FALSE
      BY <2>8
    <3>1. PICK d1 \in Nat, d2 \in Nat : d1 = d[1] /\ d2 = d[2]
      BY <1>3
    <3>2. d1 < h /\ h <= d2
      BY <2>8, <3>1
    <3>3. d1 <= h
      BY <2>6, <3>1, <3>2
    <3>4. d1 = h
      BY <2>7, <3>1, <3>2, <3>3
    <3> QED BY <2>6, <3>2, <3>4
  <2>10. h \in Address
    BY <1>5, <2>8
  <2>11. y \in reach(h)
    BY <2>3, <2>6 DEF reach
  <2>12. PICK top \in Nat : top = Max(reach(h)) /\ y <= top
    BY <1>2, <1>4, <2>10, <2>11 DEF reach
  <2>13. y \in Span(<<h, top>>)
    BY <2>3, <2>6, <2>12 DEF Span
  <2>14. <<h, top>> \in Readable
    BY <1>1, <2>9, <2>12
  <2> QED BY <2>13, <2>14 DEF ReadableAddresses
<1> QED BY <1>6, <1>7

LEMMA MapIsTrue ==
    ASSUME SweepInv
    PROVE  ReadableIsProven
<1>1. ASSUME NEW a \in Walked(islands) PROVE a \in values
  <2>1. PICK b \in islands : a \in Span(b)
    BY WalkedBlock
  <2> QED BY <2>1 DEF SweepInv, IslandsOK
<1>2. \A a \in values : page[a] # NoPage
  BY DEF SweepInv, ValuesTrue
<1> QED BY <1>1, <1>2, ReadableIsWalked DEF ReadableIsProven

LEMMA MapIsComplete ==
    ASSUME SweepInv, Stride <= EdgeRead + 1, RangesNest, RangesApart \/ Stride <= 2
    PROVE  BlocksAreAccountedFor
<1> SUFFICES ASSUME pc = "done", ~Exhausted, NEW k \in 1..Len(Ranges), NEW s \in Stretches(Ranges[k]),
                    Cardinality(s) >= Stride \/ s \cap ReadableAddresses # {}
             PROVE  s \subseteq ReadableAddresses \union Unverified \/ s \cap unverified # {}
  BY DEF BlocksAreAccountedFor
<1>1. Uncut(reads) /\ current = Len(Ranges)
  <2>1. reads \in Nat /\ MaxReads \in Int
    BY SweepTypes, RangeFacts DEF SweepInv
  <2> QED BY <2>1 DEF SweepInv, Uncut, Exhausted
<1>2. RangeSoFar(page, islands, doubts, unverified, Ranges[k], Ranges[k][2] + 1)
  BY <1>1 DEF SweepInv, Swept
<1>3. PICK first \in Int, last \in Int : first = Ranges[k][1] /\ last = Ranges[k][2]
  BY RangeEnds
<1>4. PICK i \in Span(Ranges[k]), j \in Span(Ranges[k]) : s = i..j /\ s # {} /\ MapAnswers(s)
  BY DEF Stretches
<1>5. i \in Int /\ j \in Int /\ first <= i /\ j <= last /\ i <= j
  BY <1>3, <1>4 DEF Span
<1>6. OnePage(page, i, j)
  BY <1>4, <1>5, AnswersOnePage
<1>7. Stride \in Int
  BY RangeFacts
<1>8. Cardinality(s) = j - i + 1
  BY <1>4, <1>5, FS_Interval
<1>9. Reported(islands, doubts, unverified) \subseteq ReadableAddresses \union Unverified
  BY ReadableIsWalked DEF Reported, Unverified
<1>10. CASE Met(islands, i, j) \/ Cardinality(s) >= Stride
  <2>1. Met(islands, i, j) \/ (i + Stride <= j + 1 /\ i + Stride <= last + 1)
    BY <1>5, <1>7, <1>8, <1>10
  <2>2. SoFar(Reported(islands, doubts, unverified), unverified, i, j, last + 1)
    BY <1>2, <1>3, <1>5, <1>6, <2>1 DEF RangeSoFar
  <2>3. \A a \in i..j : a < last + 1
    BY <1>5
  <2> QED BY <1>4, <1>9, <2>2, <2>3 DEF SoFar
<1>11. CASE ~Met(islands, i, j) /\ ~(Cardinality(s) >= Stride)
  <2>1. PICK a \in s : a \in ReadableAddresses
    BY <1>11
  <2>2. Stride <= 2
    BY <1>4, <1>11, <2>1, ReadableIsWalked DEF Met
  <2>3. i = j
    BY <1>5, <1>7, <1>8, <1>11, <2>2
  <2>4. s = {a}
    BY <1>4, <1>5, <2>1, <2>3
  <2> QED BY <2>1, <2>4
<1> QED BY <1>10, <1>11

-----------------------------------------------------------------------------
(* The kiosk supervisor.  The page on the screen is the one the            *)
(* availability calls for because a round decides on the browser after its *)
(* probe and before it launches: the browser that a change of availability *)
(* would leave with the wrong page is gone by then.                        *)

\* The counter of failures counts the last probes, up to three.
FailuresHeard ==
    /\ failures >= 1 => heard[3] = FALSE
    /\ failures >= 2 => heard[2] = FALSE
    /\ failures >= 3 => heard[1] = FALSE

KioskInv ==
    /\ monitorUp \in BOOLEAN /\ online \in BOOLEAN
    /\ failures \in 0..3
    /\ heard \in BOOLEAN \X BOOLEAN \X BOOLEAN
    /\ FailuresHeard
    /\ ScreenMatches

\* At the start nothing is on the screen and nothing was probed.
LEMMA KioskInvInit == KioskInit => KioskInv
<1> SUFFICES ASSUME KioskInit PROVE KioskInv
  OBVIOUS
<1>1. monitorUp \in BOOLEAN /\ online \in BOOLEAN
  BY DEF KioskInit
<1>2. failures \in 0..3 /\ FailuresHeard
  BY DEF KioskInit, FailuresHeard
<1>3. heard \in BOOLEAN \X BOOLEAN \X BOOLEAN
  BY DEF KioskInit
<1>4. ScreenMatches
  BY DEF KioskInit, ScreenMatches
<1> QED BY <1>1, <1>2, <1>3, <1>4 DEF KioskInv

\* What Availability.update makes of a probe.
LEMMA UpdateCounts ==
    ASSUME KioskInv, NEW reachable \in BOOLEAN
    PROVE  /\ Update(reachable).online \in BOOLEAN
           /\ Update(reachable).failures \in 0..3
           /\ Update(reachable).failures <= failures + 1
           /\ reachable => Update(reachable).failures = 0
           /\ online /\ ~Update(reachable).online => failures >= 2 /\ ~reachable
<1> DEFINE streak == IF reachable THEN 0 ELSE IF failures = 3 THEN 3 ELSE failures + 1
<1>1. failures \in 0..3
  BY DEF KioskInv
<1>2. streak \in 0..3 /\ streak <= failures + 1
  BY <1>1
<1>3. streak < 3 \/ failures >= 2
  BY <1>1
<1>4. reachable => streak = 0
  OBVIOUS
<1>5. /\ Update(reachable).failures = streak
      /\ Update(reachable).online = IF reachable THEN TRUE ELSE online /\ streak < 3
  BY DEF Update
<1> HIDE DEF streak
<1>6. Update(reachable).online \in BOOLEAN
  BY <1>5
<1>7. online /\ ~Update(reachable).online => failures >= 2 /\ ~reachable
  BY <1>3, <1>5
<1> QED BY <1>2, <1>4, <1>5, <1>6, <1>7

\* What a round decides: the screen shows the right page or none, and a state
\* only changes with a probe.
LEMMA SupervisedMatches ==
    ASSUME KioskInv
    PROVE  /\ Supervised.online \in BOOLEAN
           /\ Supervised.browser = "dashboard" => Supervised.online
           /\ Supervised.browser = "waiting" => ~Supervised.online
           /\ probeIn = 0 => /\ Supervised.online = Update(monitorUp).online
                             /\ Supervised.failures = Update(monitorUp).failures
           /\ probeIn # 0 => Supervised.online = online /\ Supervised.failures = failures
<1> DEFINE probed == IF probeIn = 0 THEN Update(monitorUp)
                     ELSE [failures |-> failures, online |-> online]
<1>1. probed.online \in BOOLEAN
  BY UpdateCounts DEF KioskInv
<1>2. /\ Supervised.online = probed.online
      /\ Supervised.failures = probed.failures
  BY DEF Supervised
<1>3. Supervised.browser # "none" => Supervised.browser = browser /\ probed.online = online
  BY <1>1 DEF Supervised, Switches, KioskInv
<1>4. /\ Supervised.browser = "dashboard" => Supervised.online
      /\ Supervised.browser = "waiting" => ~Supervised.online
  BY <1>2, <1>3 DEF KioskInv, ScreenMatches
<1> QED BY <1>1, <1>2, <1>4

\* A round that ends with the right page, or none, keeps the invariant, and gives
\* the dashboard up only after three failed probes.
LEMMA SleepKeeps ==
    ASSUME KioskInv, NEW s, Sleep(s),
           s.online = Supervised.online, s.failures = Supervised.failures,
           s.browser = "dashboard" => s.online,
           s.browser = "waiting" => ~s.online
    PROVE  /\ KioskInv'
           /\ online /\ ~online' => heard' = <<FALSE, FALSE, FALSE>>
<1>1. /\ online' = Supervised.online /\ failures' = Supervised.failures
      /\ browser' = s.browser
      /\ heard' = IF probeIn = 0 THEN <<heard[2], heard[3], monitorUp>> ELSE heard
      /\ monitorUp' = monitorUp
  BY DEF Sleep
<1>2. ScreenMatches'
  BY <1>1 DEF ScreenMatches
<1>3. CASE probeIn = 0
  <2>1. /\ online' = Update(monitorUp).online
        /\ failures' = Update(monitorUp).failures
        /\ heard' = <<heard[2], heard[3], monitorUp>>
    BY <1>1, <1>3, SupervisedMatches
  <2>2. /\ online' \in BOOLEAN /\ failures' \in 0..3 /\ failures' <= failures + 1
        /\ monitorUp => failures' = 0
        /\ online /\ ~online' => failures >= 2 /\ ~monitorUp
    BY <2>1, UpdateCounts DEF KioskInv
  <2>3. FailuresHeard'
    BY <2>1, <2>2 DEF FailuresHeard, KioskInv
  <2>4. heard' \in BOOLEAN \X BOOLEAN \X BOOLEAN
    BY <2>1 DEF KioskInv
  <2>5. ASSUME online, ~online'
        PROVE  heard' = <<FALSE, FALSE, FALSE>>
    <3>1. failures >= 2 /\ ~monitorUp
      BY <2>2, <2>5
    <3>2. heard[2] = FALSE /\ heard[3] = FALSE
      BY <3>1 DEF FailuresHeard, KioskInv
    <3>3. monitorUp = FALSE
      BY <3>1 DEF KioskInv
    <3> QED BY <2>1, <3>2, <3>3
  <2> QED BY <1>1, <1>2, <2>2, <2>3, <2>4, <2>5 DEF KioskInv
<1>4. CASE probeIn # 0
  <2>1. online' = online /\ failures' = failures /\ heard' = heard
    BY <1>1, <1>4, SupervisedMatches
  <2>2. FailuresHeard'
    BY <2>1 DEF KioskInv, FailuresHeard
  <2>3. /\ monitorUp' \in BOOLEAN /\ online' \in BOOLEAN /\ failures' \in 0..3
        /\ heard' \in BOOLEAN \X BOOLEAN \X BOOLEAN
    BY <1>1, <2>1 DEF KioskInv
  <2> QED BY <1>2, <2>1, <2>2, <2>3 DEF KioskInv
<1> QED BY <1>3, <1>4

\* Every step of the supervisor and of the world around it.
LEMMA KioskStep ==
    ASSUME KioskInv, KioskNext
    PROVE  /\ KioskInv'
           /\ online /\ ~online' => heard' = <<FALSE, FALSE, FALSE>>
<1> USE DEF KioskInv, FailuresHeard, ScreenMatches, world, loop
<1>1. CASE MonitorFails
  BY <1>1 DEF MonitorFails
<1>2. CASE MonitorReturns
  BY <1>2 DEF MonitorReturns
<1>3. CASE BrowserExits
  BY <1>3 DEF BrowserExits
<1>4. CASE ManagerExits
  BY <1>4 DEF ManagerExits
<1>5. CASE Watch
  <2> USE <1>5
  <2> DEFINE s == IF Supervised.browser # "none" /\ age > Stable
                    THEN [Supervised EXCEPT !.backoff = 1] ELSE Supervised
  <2>1. Sleep(s)
    BY DEF Watch
  <2>2. s.online = Supervised.online /\ s.failures = Supervised.failures
          /\ s.browser = Supervised.browser
    BY DEF Supervised
  <2> HIDE DEF s
  <2> QED BY <2>1, <2>2, SupervisedMatches, SleepKeeps
<1>6. CASE Launch
  <2> USE <1>6
  <2> DEFINE s == [Supervised EXCEPT !.browser = Target(Supervised.online), !.age = 0]
  <2>1. Sleep(s)
    BY DEF Launch
  <2>2. s.online = Supervised.online /\ s.failures = Supervised.failures
          /\ s.browser = Target(Supervised.online)
    BY DEF Supervised
  <2> HIDE DEF s
  <2> QED BY <2>1, <2>2, SupervisedMatches, SleepKeeps DEF Target
<1>7. CASE LaunchFails
  <2> USE <1>7
  <2> DEFINE s == [Supervised EXCEPT !.launchIn = Supervised.backoff, !.backoff = Delay]
  <2>1. Sleep(s)
    BY DEF LaunchFails
  <2>2. s.online = Supervised.online /\ s.failures = Supervised.failures
          /\ s.browser = Supervised.browser
    BY DEF Supervised
  <2> HIDE DEF s
  <2> QED BY <2>1, <2>2, SupervisedMatches, SleepKeeps
<1>8. CASE ManagerFails
  BY <1>8 DEF ManagerFails
<1> QED BY <1>1, <1>2, <1>3, <1>4, <1>5, <1>6, <1>7, <1>8 DEF KioskNext

\* Steps beside the kiosk.
LEMMA KioskStutter ==
    ASSUME KioskInv, UNCHANGED kioskVars
    PROVE  KioskInv'
BY DEF kioskVars, world, loop, KioskInv, FailuresHeard, ScreenMatches

\* The invariant of all behaviours.
LEMMA KioskInvariant == KioskSpec => []KioskInv
<1>1. KioskInv /\ [KioskNext]_kioskVars => KioskInv'
  BY KioskStep, KioskStutter
<1> QED BY <1>1, KioskInvInit, PTL DEF KioskSpec

\* The waiting page never stays up once the monitor was reached, nor the dashboard
\* once it was given up, however long the refresh and however many faults (supervise,
\* kiosk.py:200).
THEOREM ScreenIsRight == KioskSpec => []ScreenMatches
<1>1. KioskInv => ScreenMatches
  BY DEF KioskInv
<1> QED BY <1>1, KioskInvariant, PTL

\* The dashboard is given up after three failed probes in a row and never before
\* (Availability.update, kiosk/README.md:74).
THEOREM PatienceIsThree == KioskSpec => GivenUpAfterThree
<1>1. KioskInv /\ [KioskNext]_kioskVars
        => [online /\ ~online' => heard' = <<FALSE, FALSE, FALSE>>]_kioskVars
  BY KioskStep
<1> QED BY <1>1, KioskInvariant, PTL DEF KioskSpec, GivenUpAfterThree

\* The types, and what they follow from.
KioskTypeInv ==
    /\ KioskTypeOK
    /\ refresh \in Nat /\ monitorUp \in BOOLEAN /\ manager \in BOOLEAN
    /\ exited \in BOOLEAN /\ online \in BOOLEAN
    /\ probeIn \in Nat /\ launchIn \in Nat /\ age \in Nat /\ backoff \in Nat

LEMMA OldestIs == ASSUME refresh \in Nat PROVE Oldest \in Nat /\ Oldest >= 31
BY DEF Oldest, Stable

LEMMA DelayIs == ASSUME backoff \in 1..MaxBackoff PROVE Delay \in 1..MaxBackoff
BY DEF Delay, Least, MaxBackoff

LEMMA KioskTypesBegin == ASSUME KioskInit PROVE KioskTypeInv
<1>1. refresh \in Nat /\ MaxFaults \in Nat
  BY KioskAssumption DEF KioskInit
<1>2. Oldest \in Nat
  BY <1>1, OldestIs
<1>3. /\ faults = 0 /\ failures = 0 /\ browser = "none" /\ exited = FALSE /\ manager = FALSE
      /\ online = FALSE /\ monitorUp \in BOOLEAN
      /\ probeIn = 0 /\ launchIn = 0 /\ age = Oldest /\ backoff = 1
  BY DEF KioskInit
<1>4. 0 \in 0..MaxFaults /\ 0 \in 0..Probe /\ 0 \in 0..MaxBackoff /\ 1 \in 1..MaxBackoff
      /\ Oldest \in 0..Oldest
  BY <1>1, <1>2 DEF Probe, MaxBackoff
<1>5. KioskTypeOK
  BY <1>3, <1>4 DEF KioskTypeOK
<1> QED BY <1>1, <1>2, <1>3, <1>5 DEF KioskTypeInv

\* What a round decides is of the types of the loop.
LEMMA SupervisedTypes ==
    ASSUME KioskTypeInv
    PROVE  /\ Supervised.failures \in 0..3 /\ Supervised.age = age
           /\ Supervised.browser \in {"none", browser}
           /\ Supervised.launchIn \in 0..MaxBackoff /\ Supervised.backoff \in 1..MaxBackoff
           /\ Supervised.online \in BOOLEAN
           /\ DOMAIN Supervised = {"online", "failures", "age", "browser", "launchIn", "backoff"}
<1>1. /\ failures \in 0..3 /\ monitorUp \in BOOLEAN /\ online \in BOOLEAN
      /\ launchIn \in 0..MaxBackoff /\ backoff \in 1..MaxBackoff
  BY DEF KioskTypeInv, KioskTypeOK
<1> DEFINE probed == IF probeIn = 0 THEN Update(monitorUp) ELSE [failures |-> failures, online |-> online]
           stopped == Switches(probed.online) \/ RefreshDue
           gone == ~stopped /\ Gone
<1>2. Supervised = [online |-> probed.online, failures |-> probed.failures, age |-> age,
                    browser |-> IF stopped \/ gone THEN "none" ELSE browser,
                    launchIn |-> IF stopped THEN 0 ELSE IF gone THEN backoff ELSE launchIn,
                    backoff |-> IF gone THEN Delay ELSE backoff]
  BY DEF Supervised
<1>3. probed.failures \in 0..3 /\ probed.online \in BOOLEAN
  <2> DEFINE streak == IF monitorUp THEN 0 ELSE IF failures = 3 THEN 3 ELSE failures + 1
  <2>1. streak \in 0..3
    BY <1>1
  <2>2. Update(monitorUp) = [failures |-> streak,
                             online |-> IF monitorUp THEN TRUE ELSE online /\ streak < 3]
    BY DEF Update
  <2> HIDE DEF streak
  <2>3. Update(monitorUp).failures \in 0..3 /\ Update(monitorUp).online \in BOOLEAN
    <3>1. Update(monitorUp).failures = streak
      BY <2>2
    <3>2. Update(monitorUp).online = IF monitorUp THEN TRUE ELSE online /\ streak < 3
      BY <2>2
    <3>3. Update(monitorUp).online \in BOOLEAN
      BY <1>1, <3>2
    <3> QED BY <2>1, <3>1, <3>3
  <2>4. CASE probeIn = 0
    BY <2>3, <2>4
  <2>5. CASE probeIn # 0
    BY <1>1, <2>5
  <2> QED BY <2>4, <2>5
<1>4. Delay \in 1..MaxBackoff
  BY <1>1, DelayIs
<1>5. backoff \in 0..MaxBackoff /\ 0 \in 0..MaxBackoff
  BY <1>1 DEF MaxBackoff
<1> HIDE DEF probed, stopped, gone
<1> QED BY <1>1, <1>2, <1>3, <1>4, <1>5

\* The types after a round that ends with s.
LEMMA SleepTypes ==
    ASSUME KioskTypeInv, NEW s, Sleep(s), s.failures \in 0..3, s.online \in BOOLEAN,
           s.browser \in {"none", "dashboard", "waiting"}, s.age \in 0..Oldest,
           s.launchIn \in 0..MaxBackoff, s.backoff \in 1..MaxBackoff,
           faults' \in 0..MaxFaults, exited' \in BOOLEAN, exited' => browser' # "none"
    PROVE  KioskTypeInv'
<1> DEFINE left(t, ticks) == IF t > ticks THEN t - ticks ELSE 0
<1>1. PICK ticks \in {1, 3} :
        /\ online' = s.online /\ failures' = s.failures
        /\ browser' = s.browser /\ backoff' = s.backoff
        /\ launchIn' = left(s.launchIn, ticks)
        /\ probeIn' = left(IF probeIn = 0 THEN Probe ELSE probeIn, ticks)
        /\ age' = Least(Oldest, s.age + ticks)
        /\ manager' = TRUE /\ refresh' = refresh /\ monitorUp' = monitorUp
  BY DEF Sleep
<1>2. refresh \in Nat /\ monitorUp \in BOOLEAN /\ probeIn \in 0..Probe
  BY DEF KioskTypeInv, KioskTypeOK
<1>3. Oldest \in Nat /\ Oldest' = Oldest
  BY <1>1, <1>2, OldestIs DEF Oldest
<1>4. launchIn' \in 0..MaxBackoff
  BY <1>1 DEF MaxBackoff
<1>5. probeIn' \in 0..Probe
  BY <1>1, <1>2 DEF Probe
<1>6. age' \in 0..Oldest
  <2>1. s.age + ticks \in Nat
    BY <1>3
  <2> QED BY <1>1, <1>3, <2>1 DEF Least
<1>7. /\ launchIn' \in Nat /\ probeIn' \in Nat /\ age' \in Nat /\ backoff' \in Nat
  BY <1>1, <1>3, <1>4, <1>5, <1>6
<1>8. KioskTypeOK'
  BY <1>1, <1>3, <1>4, <1>5, <1>6 DEF KioskTypeOK
<1> QED BY <1>1, <1>2, <1>7, <1>8 DEF KioskTypeInv

LEMMA KioskTypesStep ==
    ASSUME KioskTypeInv, [KioskNext]_kioskVars
    PROVE  KioskTypeInv'
<1>1. /\ refresh \in Nat /\ monitorUp \in BOOLEAN /\ manager \in BOOLEAN /\ exited \in BOOLEAN
      /\ online \in BOOLEAN /\ faults \in 0..MaxFaults /\ age \in 0..Oldest
      /\ browser \in {"none", "dashboard", "waiting"} /\ (exited => browser # "none")
      /\ failures \in 0..3 /\ probeIn \in 0..Probe /\ launchIn \in 0..MaxBackoff
      /\ backoff \in 1..MaxBackoff
  BY DEF KioskTypeInv, KioskTypeOK
<1>2. MaxFaults \in Nat /\ Oldest \in Nat
  BY <1>1, KioskAssumption, OldestIs
<1>3. Fault => faults' \in 0..MaxFaults
  BY <1>1, <1>2 DEF Fault
<1>4. /\ Supervised.failures \in 0..3 /\ Supervised.age = age /\ Supervised.online \in BOOLEAN
      /\ Supervised.browser \in {"none", "dashboard", "waiting"}
      /\ Supervised.launchIn \in 0..MaxBackoff /\ Supervised.backoff \in 1..MaxBackoff
      /\ DOMAIN Supervised = {"online", "failures", "age", "browser", "launchIn", "backoff"}
  BY <1>1, SupervisedTypes
<1>5. ASSUME MonitorFails \/ MonitorReturns \/ BrowserExits \/ ManagerExits
      PROVE  KioskTypeInv'
  <2>1. /\ refresh' = refresh /\ loop' = loop
        /\ monitorUp' \in BOOLEAN /\ manager' \in BOOLEAN /\ exited' \in BOOLEAN
        /\ (exited' => browser # "none") /\ faults' \in 0..MaxFaults
    <3>1. CASE MonitorFails
      BY <1>1, <1>3, <3>1 DEF MonitorFails
    <3>2. CASE MonitorReturns
      BY <1>1, <3>2 DEF MonitorReturns
    <3>3. CASE BrowserExits
      BY <1>1, <1>3, <3>3 DEF BrowserExits
    <3>4. CASE ManagerExits
      BY <1>1, <1>3, <3>4 DEF ManagerExits
    <3> QED BY <1>5, <3>1, <3>2, <3>3, <3>4
  <2>2. Oldest' = Oldest
    BY <2>1 DEF Oldest
  <2> QED BY <2>1, <2>2 DEF loop, KioskTypeInv, KioskTypeOK
<1>6. CASE Watch
  <2> DEFINE s == IF Supervised.browser # "none" /\ age > Stable
                    THEN [Supervised EXCEPT !.backoff = 1] ELSE Supervised
  <2>1. Sleep(s) /\ exited' = (exited /\ Supervised.browser # "none") /\ faults' = faults
    BY <1>6 DEF Watch
  <2>2. /\ s.failures = Supervised.failures /\ s.online = Supervised.online
        /\ s.browser = Supervised.browser /\ s.age = Supervised.age
        /\ s.launchIn = Supervised.launchIn /\ s.backoff \in {1, Supervised.backoff}
    BY <1>4
  <2> HIDE DEF s
  <2>3. s.backoff \in 1..MaxBackoff
    BY <1>4, <2>2 DEF MaxBackoff
  <2>4. browser' = s.browser
    BY <2>1 DEF Sleep
  <2>5. exited' \in BOOLEAN /\ (exited' => browser' # "none")
    BY <1>1, <2>1, <2>2, <2>4
  <2> QED BY <1>1, <1>4, <2>1, <2>2, <2>3, <2>5, SleepTypes
<1>7. CASE Launch
  <2> DEFINE s == [Supervised EXCEPT !.browser = Target(Supervised.online), !.age = 0]
  <2>1. Sleep(s) /\ exited' = FALSE /\ faults' = faults
    BY <1>7 DEF Launch
  <2>2. /\ s.failures = Supervised.failures /\ s.online = Supervised.online
        /\ s.browser = Target(Supervised.online) /\ s.age = 0
        /\ s.launchIn = Supervised.launchIn /\ s.backoff = Supervised.backoff
    BY <1>4
  <2> HIDE DEF s
  <2>3. Target(Supervised.online) \in {"none", "dashboard", "waiting"} /\ 0 \in 0..Oldest
    BY <1>2 DEF Target
  <2> QED BY <1>1, <1>4, <2>1, <2>2, <2>3, SleepTypes
<1>8. CASE LaunchFails
  <2> DEFINE s == [Supervised EXCEPT !.launchIn = Supervised.backoff, !.backoff = Delay]
  <2>1. Sleep(s) /\ exited' = FALSE /\ Fault
    BY <1>8 DEF LaunchFails
  <2>2. /\ s.failures = Supervised.failures /\ s.online = Supervised.online
        /\ s.browser = Supervised.browser /\ s.age = Supervised.age
        /\ s.launchIn = Supervised.backoff /\ s.backoff = Delay
    BY <1>4
  <2> HIDE DEF s
  <2>3. Delay \in 1..MaxBackoff /\ Supervised.backoff \in 0..MaxBackoff
    BY <1>1, <1>4, DelayIs DEF MaxBackoff
  <2> QED BY <1>1, <1>3, <1>4, <2>1, <2>2, <2>3, SleepTypes
<1>9. CASE ManagerFails
  <2>1. /\ UNCHANGED <<world, online, failures, browser, backoff, heard>> /\ Fault
        /\ probeIn' = IF probeIn > 3 THEN probeIn - 3 ELSE 0
        /\ launchIn' = IF launchIn > 3 THEN launchIn - 3 ELSE 0
        /\ age' = Least(Oldest, age + 3)
    BY <1>9 DEF ManagerFails
  <2>2. /\ refresh' = refresh /\ monitorUp' = monitorUp /\ manager' = manager /\ exited' = exited
        /\ online' = online /\ failures' = failures /\ browser' = browser /\ backoff' = backoff
    BY <2>1 DEF world
  <2>3. Oldest' = Oldest
    BY <2>2 DEF Oldest
  <2>4. probeIn' \in 0..Probe /\ launchIn' \in 0..MaxBackoff
    BY <1>1, <2>1 DEF Probe, MaxBackoff
  <2>5. age' \in 0..Oldest
    BY <1>1, <1>2, <2>1 DEF Least
  <2>6. probeIn' \in Nat /\ launchIn' \in Nat /\ age' \in Nat /\ backoff \in Nat
    BY <1>1, <1>2, <2>4, <2>5
  <2>7. KioskTypeOK'
    BY <1>1, <1>3, <2>1, <2>2, <2>3, <2>4, <2>5 DEF KioskTypeOK
  <2> QED BY <1>1, <2>2, <2>6, <2>7 DEF KioskTypeInv
<1>10. CASE UNCHANGED kioskVars
  BY <1>10 DEF kioskVars, world, loop, KioskTypeInv, KioskTypeOK, Oldest
<1> QED BY <1>5, <1>6, <1>7, <1>8, <1>9, <1>10 DEF KioskNext

-----------------------------------------------------------------------------
(* The snapshot: the chunks the ranges are cut into.                       *)

LEMMA Division ==
    ASSUME NEW a \in Nat, NEW n \in Nat, n >= 1
    PROVE  a \div n \in Nat /\ (a \div n) * n <= a /\ a < (a \div n) * n + n
OBVIOUS

LEMMA Multiples ==
    ASSUME NEW x \in Nat, NEW y \in Nat, NEW n \in Nat
    PROVE  /\ x * n \in Nat /\ (x + 1) * n = x * n + n
           /\ x <= y => x * n <= y * n
OBVIOUS

\* A sequence of sequences is flattened one sequence after another.
LEMMA FlattenIs ==
    ASSUME NEW S, NEW seqs \in Seq(Seq(S)), seqs # <<>>
    PROVE  \E whole \in [1..Len(seqs) -> Seq(S)] :
              /\ FlattenSeq(seqs) = whole[Len(seqs)] /\ whole[1] = seqs[1]
              /\ \A i \in 2..Len(seqs) : whole[i] = whole[i - 1] \o seqs[i]
<1> DEFINE Next1(h, i) == IF i = 1 THEN seqs[i] ELSE h[i - 1] \o seqs[i]
           Joins(h, n) == h = [i \in 1..n |-> Next1(h, i)]
           whole == CHOOSE h : Joins(h, Len(seqs))
           good == {n \in Nat : n + 1 <= Len(seqs) =>
                                   \E h \in [1..(n + 1) -> Seq(S)] : Joins(h, n + 1)}
<1>1. Len(seqs) \in Nat /\ Len(seqs) >= 1 /\ \A i \in 1..Len(seqs) : seqs[i] \in Seq(S)
  OBVIOUS
<1>2. FlattenSeq(seqs) = whole[Len(seqs)]
  BY <1>1 DEF FlattenSeq
<1>3. 0 \in good
  <2> DEFINE h == [i \in 1..1 |-> seqs[i]]
  <2>1. h \in [1..1 -> Seq(S)] /\ Joins(h, 1)
    BY <1>1
  <2> HIDE DEF h, Joins
  <2>2. \E k \in [1..(0 + 1) -> Seq(S)] : Joins(k, 0 + 1)
    BY <2>1
  <2> QED BY <2>2
<1>4. ASSUME NEW n \in Nat, n \in good PROVE n + 1 \in good
  <2> SUFFICES ASSUME n + 2 <= Len(seqs)
               PROVE  \E h \in [1..(n + 2) -> Seq(S)] : Joins(h, n + 2)
    <3> HIDE DEF Joins
    <3>1. (n + 1) + 1 = n + 2
      OBVIOUS
    <3> QED BY <3>1
  <2>1. PICK h \in [1..(n + 1) -> Seq(S)] : Joins(h, n + 1)
    <3> HIDE DEF Joins
    <3> QED BY <1>1, <1>4
  <2> DEFINE k == [i \in 1..(n + 2) |-> IF i = n + 2 THEN h[n + 1] \o seqs[n + 2] ELSE h[i]]
  <2>2. h[n + 1] \in Seq(S) /\ seqs[n + 2] \in Seq(S)
    BY <1>1
  <2>3. h[n + 1] \o seqs[n + 2] \in Seq(S)
    BY <2>2
  <2>4. k \in [1..(n + 2) -> Seq(S)]
    BY <2>3
  <2>5. ASSUME NEW i \in 1..(n + 2) PROVE k[i] = Next1(k, i)
    <3>1. CASE i = n + 2
      <4>1. n + 2 # 1 /\ (n + 2) - 1 = n + 1 /\ n + 1 \in 1..(n + 2) /\ n + 1 # n + 2
        OBVIOUS
      <4> QED BY <3>1, <4>1
    <3>2. CASE i = 1
      BY <2>1, <3>2
    <3>3. CASE i # n + 2 /\ i # 1
      <4>1. i - 1 \in 1..(n + 2) /\ i - 1 # n + 2 /\ i - 1 \in 1..(n + 1) /\ i \in 1..(n + 1)
        BY <3>3
      <4>2. k[i] = h[i] /\ k[i - 1] = h[i - 1]
        BY <3>3, <4>1
      <4>3. h[i] = h[i - 1] \o seqs[i]
        BY <2>1, <3>3, <4>1
      <4> QED BY <3>3, <4>2, <4>3
    <3> QED BY <3>1, <3>2, <3>3
  <2>6. k = [i \in 1..(n + 2) |-> k[i]]
    BY <2>4
  <2> HIDE DEF k
  <2>7. Joins(k, n + 2)
    <3> HIDE DEF Next1
    <3> QED BY <2>5, <2>6
  <2> HIDE DEF Joins
  <2> QED BY <2>4, <2>7
<1>5. \E h \in [1..Len(seqs) -> Seq(S)] : Joins(h, Len(seqs))
  <2> HIDE DEF good
  <2>0. Nat \subseteq good
    BY <1>3, <1>4, NaturalsFromZero
  <2>1. Len(seqs) - 1 \in good
    BY <1>1, <2>0
  <2> HIDE DEF Joins
  <2>2. (Len(seqs) - 1) + 1 = Len(seqs)
    BY <1>1
  <2> QED BY <1>1, <2>1, <2>2 DEF good
<1>6. Joins(whole, Len(seqs))
  <2> HIDE DEF Joins
  <2> QED BY <1>5
<1> HIDE DEF whole
<1>7. whole[1] = seqs[1] /\ \A i \in 2..Len(seqs) : whole[i] = whole[i - 1] \o seqs[i]
  <2>1. \A i \in 1..Len(seqs) : whole[i] = Next1(whole, i)
    BY <1>6
  <2>2. ASSUME NEW i \in 2..Len(seqs) PROVE whole[i] = whole[i - 1] \o seqs[i]
    <3>1. i \in 1..Len(seqs) /\ i # 1
      BY <1>1
    <3> QED BY <2>1, <3>1
  <2>3. 1 \in 1..Len(seqs)
    BY <1>1
  <2>4. whole[1] = seqs[1]
    BY <2>1, <2>3
  <2> HIDE DEF whole
  <2> QED BY <2>2, <2>4
<1>8. whole \in [1..Len(seqs) -> Seq(S)]
  <2> DEFINE typed == {n \in Nat : n + 1 <= Len(seqs) => whole[n + 1] \in Seq(S)}
  <2>1. 0 \in typed
    BY <1>1, <1>7
  <2>2. ASSUME NEW n \in Nat, n \in typed PROVE n + 1 \in typed
    <3> SUFFICES ASSUME n + 2 <= Len(seqs) PROVE whole[n + 2] \in Seq(S)
      OBVIOUS
    <3>1. whole[n + 1] \in Seq(S)
      BY <1>1, <2>2
    <3>2. n + 2 \in 2..Len(seqs) /\ (n + 2) - 1 = n + 1
      BY <1>1
    <3>3. whole[n + 2] = whole[(n + 2) - 1] \o seqs[n + 2]
      BY <1>7, <3>2
    <3>4. n + 2 \in 1..Len(seqs)
      BY <1>1
    <3>5. seqs[n + 2] \in Seq(S)
      BY <1>1, <3>4
    <3> QED BY <3>1, <3>2, <3>3, <3>5
  <2> HIDE DEF typed
  <2>3. Nat \subseteq typed
    BY <2>1, <2>2, NaturalsFromZero
  <2>4. ASSUME NEW i \in 1..Len(seqs) PROVE whole[i] \in Seq(S)
    <3>1. i - 1 \in Nat /\ (i - 1) + 1 = i /\ i <= Len(seqs)
      BY <1>1
    <3>2. i - 1 \in typed
      BY <2>3, <3>1
    <3> QED BY <3>1, <3>2 DEF typed
  <2>5. whole = [i \in 1..Len(seqs) |-> Next1(whole, i)]
    BY <1>6
  <2> HIDE DEF Next1
  <2>6. whole = [i \in 1..Len(seqs) |-> whole[i]]
    BY <2>5
  <2> QED BY <2>4, <2>6
<1> QED BY <1>2, <1>7, <1>8

\* The chunks from lo to hi start size apart.
LEMMA ChunkStarts ==
    ASSUME NEW lo \in Nat, NEW hi \in Nat, lo <= hi, NEW size \in Nat, size >= 1,
           NEW n, n = (hi - lo) \div size + 1
    PROVE  /\ n \in Nat /\ n >= 1
           /\ \A i \in 1..n : /\ lo + (i - 1) * size \in Nat
                              /\ lo <= lo + (i - 1) * size /\ lo + (i - 1) * size <= hi
           /\ \A i, j \in 1..n : i < j => lo + (i - 1) * size + size <= lo + (j - 1) * size
           /\ \A a \in lo..hi : \E i \in 1..n :
                lo + (i - 1) * size <= a /\ a <= lo + (i - 1) * size + size - 1
<1>1. hi - lo \in Nat
  OBVIOUS
<1>2. PICK q \in Nat : q = (hi - lo) \div size /\ q * size <= hi - lo /\ hi - lo < q * size + size
  BY <1>1, Division
<1>3. n = q + 1 /\ n \in Nat /\ n >= 1
  BY <1>2
<1>4. ASSUME NEW i \in 1..n
      PROVE  /\ lo + (i - 1) * size \in Nat
             /\ lo <= lo + (i - 1) * size /\ lo + (i - 1) * size <= hi
  <2>1. PICK k \in Nat : k = i - 1 /\ k <= q
    BY <1>3
  <2>2. k * size \in Nat /\ q * size \in Nat /\ k * size <= q * size
    BY <2>1, Multiples
  <2>3. \A x, y \in Nat : x <= y /\ y <= hi - lo => lo + x \in Nat /\ lo <= lo + x /\ lo + x <= hi
    OBVIOUS
  <2>4. lo + k * size \in Nat /\ lo <= lo + k * size /\ lo + k * size <= hi
    BY <1>2, <2>2, <2>3
  <2> QED BY <2>1, <2>4
<1>5. ASSUME NEW i \in 1..n, NEW j \in 1..n, i < j
      PROVE  lo + (i - 1) * size + size <= lo + (j - 1) * size
  <2>1. PICK k \in Nat, m \in Nat : k = i - 1 /\ m = j - 1 /\ k + 1 <= m
    BY <1>3, <1>5
  <2>2. k * size \in Nat /\ m * size \in Nat /\ (k + 1) * size = k * size + size
        /\ (k + 1) * size <= m * size
    BY <2>1, Multiples
  <2>3. \A x, y \in Nat : x + size <= y => lo + x + size <= lo + y
    OBVIOUS
  <2>4. lo + k * size + size <= lo + m * size
    BY <2>2, <2>3
  <2> QED BY <2>1, <2>4
<1>6. ASSUME NEW a \in lo..hi
      PROVE  \E i \in 1..n : lo + (i - 1) * size <= a /\ a <= lo + (i - 1) * size + size - 1
  <2>1. a - lo \in Nat /\ a - lo <= hi - lo
    OBVIOUS
  <2>2. PICK k \in Nat : k * size <= a - lo /\ a - lo < k * size + size
    BY <2>1, Division
  <2>3. k <= q
    <3> SUFFICES ASSUME q + 1 <= k PROVE FALSE
      OBVIOUS
    <3>1. q * size \in Nat /\ k * size \in Nat /\ (q + 1) * size = q * size + size
          /\ (q + 1) * size <= k * size
      BY Multiples
    <3>2. \A x, y \in Nat : x + size <= y /\ y <= a - lo => hi - lo >= x + size
      BY <2>1
    <3> QED BY <1>2, <2>2, <3>1, <3>2
  <2>4. k * size \in Nat
    BY Multiples
  <2>5. \A x \in Nat : x <= a - lo /\ a - lo < x + size => lo + x <= a /\ a <= lo + x + size - 1
    OBVIOUS
  <2>6. lo + k * size <= a /\ a <= lo + k * size + size - 1
    BY <2>2, <2>4, <2>5
  <2>7. k + 1 \in 1..n /\ (k + 1) - 1 = k
    BY <1>3, <2>3
  <2> QED BY <2>6, <2>7
<1> QED BY <1>3, <1>4, <1>5, <1>6

Chunks == {c \in Nat \X Nat : c[1] <= c[2]}

\* The registers of some chunks, and that no two share one.
Covered(chunks) == UNION {Registers(chunks[i]) : i \in 1..Len(chunks)}

ChunksApart(chunks) ==
    \A i, j \in 1..Len(chunks) : i # j => Registers(chunks[i]) \cap Registers(chunks[j]) = {}

\* A range is cut into chunks that have its registers and share none.
LEMMA RangeIsCut ==
    ASSUME NEW range \in Chunks
    PROVE  LET cut == SampleChunks(range) IN
           /\ cut \in Seq(Chunks) /\ cut # <<>>
           /\ Covered(cut) = Registers(range) /\ ChunksApart(cut)
<1> DEFINE size == SampleChunkSize
           first(i) == range[1] + (i - 1) * size
           last(i) == Min({first(i) + size - 1, range[2]})
           n == (range[2] - range[1]) \div size + 1
           cut == SampleChunks(range)
<1>1. /\ range[1] \in Nat /\ range[2] \in Nat /\ range[1] <= range[2]
      /\ size \in Nat /\ size >= 1
  BY SearchAssumption DEF Chunks
<1>2. /\ n \in Nat /\ n >= 1
      /\ \A i \in 1..n : first(i) \in Nat /\ range[1] <= first(i) /\ first(i) <= range[2]
      /\ \A i, j \in 1..n : i < j => first(i) + size <= first(j)
      /\ \A a \in range[1]..range[2] : \E i \in 1..n : first(i) <= a /\ a <= first(i) + size - 1
  BY <1>1, ChunkStarts
<1>3. cut = [i \in 1..n |-> <<first(i), last(i)>>]
  BY DEF SampleChunks
<1> HIDE DEF first, n, size, cut
<1>4. ASSUME NEW i \in 1..n
      PROVE  /\ last(i) \in Nat /\ first(i) <= last(i) /\ last(i) <= range[2]
             /\ last(i) = IF first(i) + size - 1 <= range[2] THEN first(i) + size - 1 ELSE range[2]
  <2>1. first(i) \in Nat /\ first(i) + size - 1 \in Nat /\ range[2] \in Int
        /\ first(i) <= first(i) + size - 1 /\ first(i) <= range[2]
    BY <1>1, <1>2
  <2>2. last(i) = IF first(i) + size - 1 <= range[2] THEN first(i) + size - 1 ELSE range[2]
    BY <2>1, LeastOfTwo
  <2> HIDE DEF last
  <2> QED BY <1>1, <2>1, <2>2
<1> HIDE DEF last
<1>5. cut \in Seq(Chunks) /\ cut # <<>> /\ Len(cut) = n
  <2>1. \A i \in 1..n : <<first(i), last(i)>> \in Chunks
    BY <1>2, <1>4 DEF Chunks
  <2>2. cut \in [1..n -> Chunks]
    BY <1>3, <2>1
  <2> QED BY <1>2, <2>2
<1>6. ASSUME NEW i \in 1..n PROVE Registers(cut[i]) = first(i)..last(i)
  BY <1>3 DEF Registers
<1>7. Covered(cut) = Registers(range)
  <2>1. ASSUME NEW i \in 1..n, NEW a \in first(i)..last(i) PROVE a \in range[1]..range[2]
    BY <1>1, <1>2, <1>4
  <2>2. ASSUME NEW a \in range[1]..range[2] PROVE \E i \in 1..n : a \in first(i)..last(i)
    <3>1. PICK i \in 1..n : first(i) <= a /\ a <= first(i) + size - 1
      BY <1>2
    <3>2. a \in Int /\ first(i) \in Int /\ last(i) \in Int /\ a <= range[2]
      BY <1>1, <1>2, <1>4
    <3>3. a <= last(i)
      BY <1>4, <3>1, <3>2
    <3> QED BY <3>1, <3>2, <3>3
  <2>3. Covered(cut) = UNION {Registers(cut[i]) : i \in 1..n}
    BY <1>5 DEF Covered
  <2>4. Registers(range) = range[1]..range[2]
    BY DEF Registers
  <2> HIDE DEF Registers
  <2>5. Covered(cut) \subseteq Registers(range)
    BY <1>6, <2>1, <2>3, <2>4
  <2>6. Registers(range) \subseteq Covered(cut)
    BY <1>6, <2>2, <2>3, <2>4
  <2> QED BY <2>5, <2>6
<1>8. ChunksApart(cut)
  <2>1. ASSUME NEW i \in 1..n, NEW j \in 1..n, i < j
        PROVE  (first(i)..last(i)) \cap (first(j)..last(j)) = {}
    <3>1. first(i) + size <= first(j)
      BY <1>2, <2>1
    <3>2. /\ first(i) \in Int /\ first(j) \in Int /\ last(i) \in Int /\ last(j) \in Int
          /\ size \in Int /\ last(i) <= first(i) + size - 1
      BY <1>1, <1>2, <1>4
    <3> QED BY <3>1, <3>2
  <2>2. ASSUME NEW i \in 1..n, NEW j \in 1..n, i # j
        PROVE  (first(i)..last(i)) \cap (first(j)..last(j)) = {}
    <3>1. i < j \/ j < i
      BY <1>2, <2>2
    <3> QED BY <2>1, <3>1
  <2> QED BY <1>5, <1>6, <2>2 DEF ChunksApart
<1> QED BY <1>5, <1>7, <1>8 DEF cut

\* One sequence of chunks after another.
LEMMA ChunksJoined ==
    ASSUME NEW s \in Seq(Chunks), NEW t \in Seq(Chunks)
    PROVE  /\ s \o t \in Seq(Chunks)
           /\ Covered(s \o t) = Covered(s) \cup Covered(t)
           /\ ChunksApart(s) /\ ChunksApart(t) /\ Covered(s) \cap Covered(t) = {}
                => ChunksApart(s \o t)
<1>1. /\ Len(s) \in Nat /\ Len(t) \in Nat /\ s \o t \in Seq(Chunks)
      /\ Len(s \o t) = Len(s) + Len(t)
      /\ \A i \in 1..Len(s) : (s \o t)[i] = s[i]
      /\ \A i \in 1..(Len(s) + Len(t)) : ~(i <= Len(s)) => (s \o t)[i] = t[i - Len(s)]
  OBVIOUS
<1> DEFINE st == s \o t
<1> HIDE DEF st
<1>2. ASSUME NEW i \in 1..Len(t) PROVE Len(s) + i \in 1..Len(st) /\ st[Len(s) + i] = t[i]
  <2>1. /\ Len(s) + i \in 1..(Len(s) + Len(t)) /\ ~(Len(s) + i <= Len(s))
        /\ (Len(s) + i) - Len(s) = i
    BY <1>1
  <2>2. st[Len(s) + i] = t[(Len(s) + i) - Len(s)]
    BY <1>1, <2>1 DEF st
  <2> QED BY <1>1, <2>1, <2>2 DEF st
<1>3. ASSUME NEW i \in 1..Len(st)
      PROVE  \/ i \in 1..Len(s) /\ st[i] = s[i]
             \/ i - Len(s) \in 1..Len(t) /\ st[i] = t[i - Len(s)]
  <2>1. Len(st) = Len(s) + Len(t)
    BY <1>1 DEF st
  <2>2. CASE i <= Len(s)
    <3>1. i \in 1..Len(s)
      BY <1>1, <2>1, <2>2
    <3> QED BY <1>1, <3>1 DEF st
  <2>3. CASE ~(i <= Len(s))
    <3>1. i - Len(s) \in 1..Len(t) /\ i \in 1..(Len(s) + Len(t))
      BY <1>1, <2>1, <2>3
    <3> QED BY <1>1, <2>3, <3>1 DEF st
  <2> QED BY <2>2, <2>3
<1>4. ASSUME NEW i \in 1..Len(s) PROVE i \in 1..Len(st) /\ st[i] = s[i]
  BY <1>1 DEF st
<1>5. Covered(st) = Covered(s) \cup Covered(t)
  <2>1. Covered(st) \subseteq Covered(s) \cup Covered(t)
    BY <1>3 DEF Covered
  <2>2. Covered(s) \subseteq Covered(st)
    BY <1>4 DEF Covered
  <2>3. Covered(t) \subseteq Covered(st)
    BY <1>2 DEF Covered
  <2> QED BY <2>1, <2>2, <2>3
<1>6. ASSUME ChunksApart(s), ChunksApart(t), Covered(s) \cap Covered(t) = {}
      PROVE  ChunksApart(st)
  <2> SUFFICES ASSUME NEW i \in 1..Len(st), NEW j \in 1..Len(st), i # j
               PROVE  Registers(st[i]) \cap Registers(st[j]) = {}
    BY DEF ChunksApart
  <2>1. \A k \in 1..Len(s) : Registers(s[k]) \subseteq Covered(s)
    BY DEF Covered
  <2>2. \A k \in 1..Len(t) : Registers(t[k]) \subseteq Covered(t)
    BY DEF Covered
  <2>3. CASE i \in 1..Len(s) /\ st[i] = s[i] /\ j \in 1..Len(s) /\ st[j] = s[j]
    BY <1>6, <2>3 DEF ChunksApart
  <2>4. CASE i - Len(s) \in 1..Len(t) /\ st[i] = t[i - Len(s)]
             /\ j - Len(s) \in 1..Len(t) /\ st[j] = t[j - Len(s)]
    <3>1. i - Len(s) # j - Len(s)
      BY <1>1
    <3> QED BY <1>6, <2>4, <3>1 DEF ChunksApart
  <2>5. CASE i \in 1..Len(s) /\ st[i] = s[i]
             /\ j - Len(s) \in 1..Len(t) /\ st[j] = t[j - Len(s)]
    BY <1>6, <2>1, <2>2, <2>5
  <2>6. CASE i - Len(s) \in 1..Len(t) /\ st[i] = t[i - Len(s)]
             /\ j \in 1..Len(s) /\ st[j] = s[j]
    BY <1>6, <2>1, <2>2, <2>6
  <2> QED BY <1>3, <2>3, <2>4, <2>5, <2>6
<1> QED BY <1>1, <1>5, <1>6 DEF st

\* The ranges to sample share no register.
SampledApart ==
    \A i, j \in 1..Len(SampledRanges) :
        i # j => Registers(SampledRanges[i]) \cap Registers(SampledRanges[j]) = {}

\* A sample starts with chunks that have every register of the ranges.
LEMMA AllChunksAre ==
    /\ AllChunks \in Seq(Chunks) /\ Covered(AllChunks) = SampledAddress
    /\ SampledApart => ChunksApart(AllChunks)
<1> DEFINE cuts == [i \in 1..Len(SampledRanges) |-> SampleChunks(SampledRanges[i])]
           upto(n) == UNION {Registers(SampledRanges[i]) : i \in 1..n}
<1>1. /\ Len(SampledRanges) \in Nat /\ Len(SampledRanges) >= 1
      /\ \A i \in 1..Len(SampledRanges) : SampledRanges[i] \in Chunks
  <2>1. SampledRanges # <<>>
    <3> SUFFICES ASSUME SampledRanges = <<>> PROVE FALSE
      OBVIOUS
    <3>1. SampledAddress = {}
      BY DEF SampledAddress
    <3> QED BY <3>1, SearchAssumption
  <2>2. \A i \in 1..Len(SampledRanges) : SampledRanges[i] \in Nat \X Nat
    BY SearchAssumption
  <2> QED BY <2>1, <2>2, SearchAssumption DEF Chunks
<1>2. \A i \in 1..Len(SampledRanges) :
        /\ cuts[i] \in Seq(Chunks) /\ ChunksApart(cuts[i])
        /\ Covered(cuts[i]) = Registers(SampledRanges[i])
  BY <1>1, RangeIsCut
<1>3. cuts \in Seq(Seq(Chunks)) /\ cuts # <<>> /\ Len(cuts) = Len(SampledRanges)
  <2>1. cuts \in [1..Len(SampledRanges) -> Seq(Chunks)]
    BY <1>2
  <2> HIDE DEF cuts
  <2> QED BY <1>1, <2>1
<1> HIDE DEF cuts
<1>4. PICK whole \in [1..Len(cuts) -> Seq(Chunks)] :
        /\ FlattenSeq(cuts) = whole[Len(cuts)] /\ whole[1] = cuts[1]
        /\ \A i \in 2..Len(cuts) : whole[i] = whole[i - 1] \o cuts[i]
  BY <1>3, FlattenIs
<1> DEFINE Good(n) == /\ Covered(whole[n]) = upto(n)
                      /\ SampledApart => ChunksApart(whole[n])
           good == {n \in Nat : n + 1 <= Len(cuts) => Good(n + 1)}
<1>5. 0 \in good
  <2>1. upto(1) = Registers(SampledRanges[1])
    OBVIOUS
  <2> HIDE DEF upto
  <2>2. Good(1)
    BY <1>1, <1>2, <1>4, <2>1
  <2> HIDE DEF Good
  <2> QED BY <2>2
<1>6. ASSUME NEW n \in Nat, n \in good PROVE n + 1 \in good
  <2> SUFFICES ASSUME n + 2 <= Len(cuts) PROVE Good(n + 2)
    <3> HIDE DEF Good
    <3> QED OBVIOUS
  <2>1. Good(n + 1)
    <3> HIDE DEF Good
    <3> QED BY <1>1, <1>3, <1>6
  <2>2. n + 2 \in 2..Len(cuts) /\ (n + 2) - 1 = n + 1 /\ n + 2 \in 1..Len(SampledRanges)
        /\ n + 1 \in 1..Len(cuts)
    BY <1>1, <1>3
  <2>3. whole[n + 2] = whole[(n + 2) - 1] \o cuts[n + 2] /\ whole[n + 1] \in Seq(Chunks)
    BY <1>4, <2>2
  <2>4. upto(n + 2) = upto(n + 1) \cup Registers(SampledRanges[n + 2])
    <3>1. 1..(n + 2) = (1..(n + 1)) \cup {n + 2}
      OBVIOUS
    <3> QED BY <3>1
  <2>5. SampledApart => upto(n + 1) \cap Registers(SampledRanges[n + 2]) = {}
    <3> SUFFICES ASSUME SampledApart, NEW i \in 1..(n + 1)
                 PROVE  Registers(SampledRanges[i]) \cap Registers(SampledRanges[n + 2]) = {}
      OBVIOUS
    <3>1. i \in 1..Len(SampledRanges) /\ i # n + 2
      BY <1>1, <2>2
    <3> QED BY <2>2, <3>1 DEF SampledApart
  <2> HIDE DEF upto
  <2>6. /\ cuts[n + 2] \in Seq(Chunks) /\ ChunksApart(cuts[n + 2])
        /\ Covered(cuts[n + 2]) = Registers(SampledRanges[n + 2])
    BY <1>2, <2>2
  <2>7. /\ Covered(whole[n + 2]) = Covered(whole[n + 1]) \cup Covered(cuts[n + 2])
        /\ ChunksApart(whole[n + 1]) /\ Covered(whole[n + 1]) \cap Covered(cuts[n + 2]) = {}
             => ChunksApart(whole[n + 2])
    BY <2>2, <2>3, <2>6, ChunksJoined
  <2>8. Covered(whole[n + 2]) = upto(n + 2)
    BY <2>1, <2>4, <2>6, <2>7
  <2>9. SampledApart => ChunksApart(whole[n + 2])
    BY <2>1, <2>5, <2>6, <2>7
  <2> QED BY <2>8, <2>9
<1> HIDE DEF good
<1>7. Nat \subseteq good
  BY <1>5, <1>6, NaturalsFromZero
<1>8. Good(Len(cuts))
  <2>1. Len(cuts) - 1 \in good
    BY <1>1, <1>3, <1>7
  <2>2. (Len(cuts) - 1) + 1 = Len(cuts)
    BY <1>1, <1>3
  <2> HIDE DEF Good
  <2> QED BY <1>1, <1>3, <2>1, <2>2 DEF good
<1>9. upto(Len(cuts)) = SampledAddress
  BY <1>3 DEF SampledAddress
<1>10. AllChunks = whole[Len(cuts)] /\ whole[Len(cuts)] \in Seq(Chunks)
  <2>1. AllChunks = FlattenSeq(cuts)
    BY DEF AllChunks, cuts
  <2> QED BY <1>1, <1>3, <1>4, <2>1
<1> QED BY <1>8, <1>9, <1>10

\* The chunk to be read, and those after it.
LEMMA FirstChunk ==
    ASSUME NEW s \in Seq(Chunks), s # <<>>
    PROVE  /\ Head(s) \in Chunks /\ Tail(s) \in Seq(Chunks)
           /\ Covered(s) = Registers(Head(s)) \cup Covered(Tail(s))
           /\ ChunksApart(s) => /\ ChunksApart(Tail(s))
                                /\ Registers(Head(s)) \cap Covered(Tail(s)) = {}
<1>1. /\ Len(s) \in Nat /\ Len(s) >= 1 /\ Head(s) \in Chunks /\ Tail(s) \in Seq(Chunks)
      /\ Len(Tail(s)) = Len(s) - 1 /\ Head(s) = s[1]
      /\ \A i \in 1..(Len(s) - 1) : Tail(s)[i] = s[i + 1]
  OBVIOUS
<1> DEFINE rest == Tail(s)
<1> HIDE DEF rest
<1>2. ASSUME NEW i \in 1..Len(rest)
      PROVE  i + 1 \in 1..Len(s) /\ i + 1 # 1 /\ rest[i] = s[i + 1]
  BY <1>1 DEF rest
<1>3. ASSUME NEW i \in 1..Len(s), i # 1 PROVE i - 1 \in 1..Len(rest) /\ rest[i - 1] = s[i]
  <2>1. i - 1 \in 1..Len(rest) /\ (i - 1) + 1 = i
    BY <1>1, <1>3 DEF rest
  <2>2. rest[i - 1] = s[(i - 1) + 1]
    BY <1>2, <2>1
  <2> QED BY <2>1, <2>2
<1>4. Covered(s) = Registers(s[1]) \cup Covered(rest)
  <2>1. 1 \in 1..Len(s)
    BY <1>1
  <2>2. Covered(rest) \subseteq Covered(s)
    BY <1>2 DEF Covered
  <2>3. Covered(s) \subseteq Registers(s[1]) \cup Covered(rest)
    BY <1>3 DEF Covered
  <2>4. Registers(s[1]) \subseteq Covered(s)
    BY <2>1 DEF Covered
  <2> QED BY <2>2, <2>3, <2>4
<1>5. ASSUME ChunksApart(s)
      PROVE  ChunksApart(rest) /\ Registers(s[1]) \cap Covered(rest) = {}
  <2>1. ASSUME NEW i \in 1..Len(rest), NEW j \in 1..Len(rest), i # j
        PROVE  Registers(rest[i]) \cap Registers(rest[j]) = {}
    <3>1. i + 1 # j + 1
      BY <2>1
    <3> QED BY <1>2, <1>5, <3>1 DEF ChunksApart
  <2>2. ASSUME NEW i \in 1..Len(rest) PROVE Registers(s[1]) \cap Registers(rest[i]) = {}
    <3>1. 1 \in 1..Len(s)
      BY <1>1
    <3> QED BY <1>2, <1>5, <3>1 DEF ChunksApart
  <2>3. ChunksApart(rest)
    BY <2>1 DEF ChunksApart
  <2>4. Registers(s[1]) \cap Covered(rest) = {}
    BY <2>2 DEF Covered
  <2> QED BY <2>3, <2>4
<1> QED BY <1>1, <1>4, <1>5 DEF rest

Halves(c) ==
    LET half == c[1] + (c[2] - c[1] + 1) \div 2 IN <<<<c[1], half - 1>>, <<half, c[2]>>>>

\* The halves of a chunk are chunks that have its registers and share none.
LEMMA ChunkHalves ==
    ASSUME NEW c \in Chunks, c[2] > c[1]
    PROVE  /\ Halves(c) \in Seq(Chunks) /\ Covered(Halves(c)) = Registers(c)
           /\ ChunksApart(Halves(c))
<1>1. PICK lo \in Nat, hi \in Nat : lo = c[1] /\ hi = c[2] /\ lo < hi
  BY DEF Chunks
<1>2. PICK half \in Nat : half = lo + (hi - lo + 1) \div 2 /\ lo < half /\ half <= hi
  <2>1. hi - lo + 1 \in Nat /\ hi - lo + 1 >= 2
    BY <1>1
  <2>2. PICK k \in Nat : k = (hi - lo + 1) \div 2 /\ 2 * k <= hi - lo + 1 /\ hi - lo + 1 < 2 * k + 2
    BY <2>1
  <2> QED BY <1>1, <2>1, <2>2
<1>3. Halves(c) = <<<<lo, half - 1>>, <<half, hi>>>>
  BY <1>1, <1>2 DEF Halves
<1>4. <<lo, half - 1>> \in Chunks /\ <<half, hi>> \in Chunks
  BY <1>2 DEF Chunks
<1>5. /\ Halves(c) \in Seq(Chunks) /\ Len(Halves(c)) = 2
      /\ Halves(c)[1] = <<lo, half - 1>> /\ Halves(c)[2] = <<half, hi>>
  BY <1>3, <1>4
<1>6. 1..2 = {1, 2}
  OBVIOUS
<1>7. /\ Registers(Halves(c)[1]) = lo..(half - 1) /\ Registers(Halves(c)[2]) = half..hi
      /\ Registers(c) = lo..hi
  BY <1>1, <1>5 DEF Registers
<1>8. Covered(Halves(c)) = (lo..(half - 1)) \cup (half..hi)
  BY <1>5, <1>6, <1>7 DEF Covered
<1>9. (lo..(half - 1)) \cup (half..hi) = lo..hi /\ (lo..(half - 1)) \cap (half..hi) = {}
  BY <1>2
<1>10. ChunksApart(Halves(c))
  <2>1. ASSUME NEW i \in 1..2, NEW j \in 1..2, i # j
        PROVE  Registers(Halves(c)[i]) \cap Registers(Halves(c)[j]) = {}
    <3>1. (i = 1 /\ j = 2) \/ (i = 2 /\ j = 1)
      BY <2>1
    <3>2. CASE i = 1 /\ j = 2
      BY <1>7, <1>9, <3>2
    <3>3. CASE i = 2 /\ j = 1
      BY <1>7, <1>9, <3>3
    <3> QED BY <3>1, <3>2, <3>3
  <2> QED BY <1>5, <2>1 DEF ChunksApart
<1> QED BY <1>5, <1>7, <1>8, <1>9, <1>10

-----------------------------------------------------------------------------
(* The snapshot: a sample that loses no chunk takes one course.            *)

\* What is left to read, how often a chunk may be split, and what was read.
Courses == Seq(Chunks) \X Nat \X SUBSET SampledAddress

\* One chunk tried that is not lost on the link.
Tried(x) ==
    LET c == Head(x[1]) IN
    IF SnapshotAnswers(Registers(c)) THEN <<Tail(x[1]), x[2], x[3] \cup Registers(c)>>
    ELSE IF c[2] > c[1] /\ x[2] > 0 THEN <<Halves(c) \o Tail(x[1]), x[2] - 1, x[3]>>
    ELSE <<Tail(x[1]), x[2], x[3]>>

\* A set that has every point from which it is entered.
Closed(K) == \A x \in Courses : x[1] # <<>> /\ Tried(x) \in K => x \in K

\* From x the course comes to e.
LeadsTo(x, e) == \A K \in SUBSET Courses : e \in K /\ Closed(K) => x \in K

LEMMA CourseGoesOn ==
    ASSUME NEW x \in Courses, NEW y \in Courses, y[1] # <<>>, Tried(y) \in Courses, LeadsTo(x, y)
    PROVE  LeadsTo(x, Tried(y))
<1> SUFFICES ASSUME NEW K \in SUBSET Courses, Tried(y) \in K, Closed(K) PROVE x \in K
  BY DEF LeadsTo
<1>1. y \in K
  BY DEF Closed
<1> QED BY <1>1 DEF LeadsTo

\* A course ends in one point only.
LEMMA CourseEnds ==
    ASSUME NEW x \in Courses, NEW e \in Courses, NEW f \in Courses,
           e[1] = <<>>, f[1] = <<>>, LeadsTo(x, e), LeadsTo(x, f)
    PROVE  e = f
<1> SUFFICES ASSUME e # f PROVE FALSE
  OBVIOUS
<1> DEFINE K == {y \in Courses : LeadsTo(y, e) /\ ~LeadsTo(y, f)}
<1>1. LeadsTo(e, e)
  BY DEF LeadsTo
<1>2. ~LeadsTo(e, f)
  <2> DEFINE others == Courses \ {e}
  <2>1. others \in SUBSET Courses /\ f \in others /\ e \notin others
    OBVIOUS
  <2>2. Closed(others)
    BY DEF Closed
  <2> HIDE DEF others
  <2> QED BY <2>1, <2>2 DEF LeadsTo
<1>3. ASSUME NEW y \in Courses, y[1] # <<>>, Tried(y) \in K PROVE y \in K
  <2>1. Tried(y) \in Courses /\ LeadsTo(Tried(y), e) /\ ~LeadsTo(Tried(y), f)
    BY <1>3
  <2>2. LeadsTo(y, e)
    <3> SUFFICES ASSUME NEW L \in SUBSET Courses, e \in L, Closed(L) PROVE y \in L
      BY DEF LeadsTo
    <3>1. Tried(y) \in L
      BY <2>1 DEF LeadsTo
    <3> QED BY <1>3, <3>1 DEF Closed
  <2>3. ASSUME LeadsTo(y, f) PROVE FALSE
    <3>1. PICK L \in SUBSET Courses : f \in L /\ Closed(L) /\ Tried(y) \notin L
      BY <2>1 DEF LeadsTo
    <3> DEFINE M == L \ {y}
    <3>2. M \in SUBSET Courses /\ f \in M /\ y \notin M
      BY <1>3, <3>1
    <3>3. Closed(M)
      BY <3>1 DEF Closed
    <3> HIDE DEF M
    <3> QED BY <2>3, <3>2, <3>3 DEF LeadsTo
  <2> QED BY <2>2, <2>3
<1>4. Closed(K)
  <2> HIDE DEF K
  <2> QED BY <1>3 DEF Closed
<1>5. e \in K /\ K \in SUBSET Courses
  BY <1>1, <1>2
<1>6. x \in K
  <2> HIDE DEF K
  <2> QED BY <1>4, <1>5 DEF LeadsTo
<1> QED BY <1>6

-----------------------------------------------------------------------------
(* The snapshot: its invariant.                                            *)

SampleSet == UNION {[D -> Value] : D \in SUBSET SampledAddress}

\* A register that does not move is in a sample, or a snapshot, as it is.
TrueTo(taken, dev, moving) == \A a \in DOMAIN taken \ moving : taken[a] = dev[a]

SnapTypes ==
    /\ device \in [SampledAddress \ Telemetry -> Value]
    /\ side \in {"before", "panel", "after", "compared"}
    /\ queue \in Seq(Chunks) /\ Covered(queue) \subseteq SampledAddress
    /\ splitsLeft \in 0..ExtraReads /\ got \in SampleSet
    /\ failed \in [refused : SUBSET SampledAddress, failed : SUBSET SampledAddress]
    /\ samples \in Seq(SampleSet) /\ Len(samples) < Samples
    /\ candidates \in SUBSET SampledAddress
    /\ lostChunks \in 0..MaxLostChunks /\ lostHere \in 0..lostChunks

\* What was taken is true of the inverter; on the panel only the setting changes.
SnapTruth ==
    /\ side \in {"panel", "compared"} => queue = <<>> /\ samples = <<>>
    /\ TrueTo(got, device, Telemetry)
    /\ \A i \in 1..Len(samples) : TrueTo(samples[i], device, Telemetry)
    /\ side # "before" => TrueTo(baseline.stable, device, Telemetry \cup {Setting})

Course == <<queue, splitsLeft, DOMAIN got>>
Begin == <<AllChunks, ExtraReads, {}>>

\* While this snapshot loses no chunk, this sample and those before it are of the one
\* course.
SnapCourse ==
    side \in {"before", "after"} /\ lostHere = 0 =>
        /\ LeadsTo(Begin, Course)
        /\ \A i \in 1..Len(samples) :
             \E left \in Nat : LeadsTo(Begin, <<<<>>, left, DOMAIN samples[i]>>)

\* EveryRegisterAccounted, of the parts it is about.
Accounted(given, denied, lost, chunks) ==
    /\ given \cup denied \cup lost \cup Covered(chunks) = SampledAddress
    /\ given \cap denied = {} /\ given \cap lost = {} /\ denied \cap lost = {}
    /\ (given \cup denied \cup lost) \cap Covered(chunks) = {}
    /\ ChunksApart(chunks)

SnapParts == SampledApart => Accounted(Given, failed.refused, failed.failed, queue)

SnapInv == SnapTypes /\ SnapTruth /\ SnapCourse /\ SnapParts /\ RefusalHidesNoNeighbour /\ SettingIsFound

LEMMA SamplesAre ==
    /\ <<>> \in SampleSet /\ DOMAIN <<>> = {}
    /\ \A s \in SampleSet : DOMAIN s \subseteq SampledAddress /\ \A a \in DOMAIN s : s[a] \in Value
<1>1. DOMAIN <<>> = {} /\ <<>> \in [{} -> Value]
  OBVIOUS
<1>2. <<>> \in SampleSet
  BY <1>1 DEF SampleSet
<1>3. ASSUME NEW s \in SampleSet
      PROVE  DOMAIN s \subseteq SampledAddress /\ \A a \in DOMAIN s : s[a] \in Value
  <2>1. PICK D \in SUBSET SampledAddress : s \in [D -> Value]
    BY DEF SampleSet
  <2> QED BY <2>1
<1> QED BY <1>1, <1>2, <1>3

\* What is stable in samples that are true of the inverter.
LEMMA ClassifyIs ==
    ASSUME NEW taken \in Seq(SampleSet), taken # <<>>, NEW dev,
           \A i \in 1..Len(taken) : TrueTo(taken[i], dev, Telemetry)
    PROVE  LET stable == Classify(taken).stable IN
           /\ DOMAIN stable \subseteq SampledAddress
           /\ TrueTo(stable, dev, Telemetry)
           /\ \A a \in SampledAddress \ Telemetry :
                dev[a] # Undefined /\ (\A i \in 1..Len(taken) : a \in DOMAIN taken[i])
                  => a \in DOMAIN stable
<1> DEFINE seen == UNION {DOMAIN s : s \in Range(taken)}
           complete == {a \in seen : \A s \in Range(taken) : a \in DOMAIN s}
           defined == {a \in complete : \A s \in Range(taken) : s[a] # Undefined}
           still == {a \in defined : \A s \in Range(taken) : s[a] = taken[1][a]}
           stable == Classify(taken).stable
<1>1. stable = [a \in still |-> taken[1][a]]
  BY DEF Classify
<1>2. /\ 1 \in 1..Len(taken) /\ Range(taken) = {taken[i] : i \in 1..Len(taken)}
      /\ \A i \in 1..Len(taken) : taken[i] \in SampleSet
  BY DEF Range
<1> HIDE DEF stable
<1>3. ASSUME NEW a \in still
      PROVE  a \in SampledAddress /\ a \in DOMAIN taken[1] /\ stable[a] = taken[1][a]
  BY <1>1, <1>2, SamplesAre
<1>4. TrueTo(stable, dev, Telemetry)
  <2> SUFFICES ASSUME NEW a \in still, a \notin Telemetry PROVE stable[a] = dev[a]
    BY <1>1 DEF TrueTo
  <2>1. TrueTo(taken[1], dev, Telemetry)
    BY <1>2
  <2> QED BY <1>3, <2>1 DEF TrueTo
<1>5. ASSUME NEW a \in SampledAddress \ Telemetry, dev[a] # Undefined,
             \A i \in 1..Len(taken) : a \in DOMAIN taken[i]
      PROVE  a \in still
  <2>1. \A s \in Range(taken) : a \in DOMAIN s /\ s[a] = dev[a]
    BY <1>2, <1>5 DEF TrueTo
  <2>2. taken[1] \in Range(taken)
    BY <1>2
  <2> QED BY <1>5, <2>1, <2>2
<1> QED BY <1>1, <1>3, <1>4, <1>5 DEF stable

\* A sample that has just been started.
LEMMA FreshSample ==
    /\ AllChunks \in Seq(Chunks) /\ Covered(AllChunks) = SampledAddress
    /\ ExtraReads \in 0..ExtraReads /\ <<>> \in SampleSet
    /\ NoSample \in [refused : SUBSET SampledAddress, failed : SUBSET SampledAddress]
    /\ \A dev : TrueTo(<<>>, dev, Telemetry)
    /\ <<AllChunks, ExtraReads, DOMAIN <<>>>> = Begin /\ LeadsTo(Begin, Begin)
    /\ SampledApart => Accounted(DOMAIN <<>>, {}, {}, AllChunks)
    /\ NoSample.refused = {} /\ NoSample.failed = {}
<1>1. AllChunks \in Seq(Chunks) /\ Covered(AllChunks) = SampledAddress
      /\ (SampledApart => ChunksApart(AllChunks))
  BY AllChunksAre
<1>2. ExtraReads \in 0..ExtraReads
  BY SearchAssumption
<1>3. <<>> \in SampleSet /\ DOMAIN <<>> = {}
  BY SamplesAre
<1>4. NoSample \in [refused : SUBSET SampledAddress, failed : SUBSET SampledAddress]
      /\ NoSample.refused = {} /\ NoSample.failed = {}
  BY DEF NoSample
<1>5. \A dev : TrueTo(<<>>, dev, Telemetry)
  BY <1>3 DEF TrueTo
<1>6. <<AllChunks, ExtraReads, DOMAIN <<>>>> = Begin /\ LeadsTo(Begin, Begin)
  BY <1>3 DEF Begin, LeadsTo
<1>7. SampledApart => Accounted(DOMAIN <<>>, {}, {}, AllChunks)
  BY <1>1, <1>3 DEF Accounted
<1> QED BY <1>1, <1>2, <1>3, <1>4, <1>5, <1>6, <1>7

LEMMA SnapBegins == ASSUME SnapshotInit PROVE SnapInv
<1>1. /\ device \in [SampledAddress \ Telemetry -> Value] /\ side = "before"
      /\ queue = AllChunks /\ splitsLeft = ExtraReads /\ got = <<>> /\ failed = NoSample
      /\ samples = <<>> /\ candidates = {} /\ lostChunks = 0 /\ lostHere = 0
  BY DEF SnapshotInit
<1>2. samples \in Seq(SampleSet) /\ Len(samples) = 0 /\ 0 < Samples
      /\ 0 \in 0..MaxLostChunks /\ 0 \in 0..0 /\ 1..0 = {}
  BY <1>1, SearchAssumption
<1>3. SnapTypes
  BY <1>1, <1>2, FreshSample DEF SnapTypes
<1>4. SnapTruth
  BY <1>1, <1>2, FreshSample DEF SnapTruth
<1>5. SnapCourse
  BY <1>1, <1>2, FreshSample DEF SnapCourse, Course
<1>6. SnapParts
  BY <1>1, FreshSample DEF SnapParts, Given
<1>7. RefusalHidesNoNeighbour /\ SettingIsFound
  BY <1>1, FreshSample DEF RefusalHidesNoNeighbour, SettingIsFound
<1> QED BY <1>3, <1>4, <1>5, <1>6, <1>7 DEF SnapInv

\* A chunk that is not lost takes the course on, and only it.
LEMMA ChunkTried ==
    ASSUME SnapTypes, ReadChunk \/ SplitChunk \/ GiveUpRefused
    PROVE  /\ Course \in Courses /\ queue # <<>> /\ Course' = Tried(Course)
           /\ Tried(Course) \in Courses
           /\ queue' \in Seq(Chunks) /\ Covered(queue') \subseteq SampledAddress
           /\ splitsLeft' \in 0..ExtraReads
           /\ UNCHANGED <<device, side, samples, baseline, candidates, lostChunks, lostHere>>
           /\ side \in {"before", "after"}
<1> DEFINE c == Head(queue)
<1>1. /\ queue \in Seq(Chunks) /\ queue # <<>> /\ Covered(queue) \subseteq SampledAddress
      /\ got \in SampleSet /\ splitsLeft \in 0..ExtraReads /\ ExtraReads \in Nat
  BY SearchAssumption DEF SnapTypes, ReadChunk, SplitChunk, GiveUpRefused, Sampling
<1>2. /\ c \in Chunks /\ Tail(queue) \in Seq(Chunks)
      /\ Covered(queue) = Registers(c) \cup Covered(Tail(queue))
  BY <1>1, FirstChunk
<1>3. DOMAIN got \subseteq SampledAddress /\ splitsLeft \in Nat
  BY <1>1, SamplesAre
<1>4. Course \in Courses /\ Course[1] = queue /\ Course[2] = splitsLeft /\ Course[3] = DOMAIN got
  BY <1>1, <1>3 DEF Course, Courses
<1>5. UNCHANGED <<device, side, samples, baseline, candidates, lostChunks, lostHere>>
      /\ side \in {"before", "after"}
  BY DEF ReadChunk, SplitChunk, GiveUpRefused, Sampling, losses
<1>6. CASE ReadChunk
  <2>1. SnapshotAnswers(Registers(c)) /\ queue' = Tail(queue) /\ splitsLeft' = splitsLeft
    BY <1>6 DEF ReadChunk
  <2>2. DOMAIN got' = DOMAIN got \cup Registers(c)
    BY <1>6 DEF ReadChunk
  <2>3. Course' = <<Tail(queue), splitsLeft, DOMAIN got \cup Registers(c)>>
    BY <2>1, <2>2 DEF Course
  <2>4. Tried(Course) = <<Tail(queue), splitsLeft, DOMAIN got \cup Registers(c)>>
    BY <1>4, <2>1 DEF Tried
  <2>5. <<Tail(queue), splitsLeft, DOMAIN got \cup Registers(c)>> \in Courses
    BY <1>1, <1>2, <1>3 DEF Courses
  <2> QED BY <1>1, <1>2, <1>4, <1>5, <2>1, <2>3, <2>4, <2>5
<1>7. CASE SplitChunk
  <2>1. /\ ~SnapshotAnswers(Registers(c)) /\ c[2] > c[1] /\ splitsLeft > 0
        /\ queue' = Halves(c) \o Tail(queue) /\ splitsLeft' = splitsLeft - 1 /\ got' = got
    BY <1>7 DEF SplitChunk, Halves
  <2>2. Halves(c) \in Seq(Chunks) /\ Covered(Halves(c)) = Registers(c)
    BY <1>2, <2>1, ChunkHalves
  <2>3. queue' \in Seq(Chunks) /\ Covered(queue') = Covered(queue)
    BY <1>2, <2>1, <2>2, ChunksJoined
  <2>4. splitsLeft' \in 0..ExtraReads /\ splitsLeft' \in Nat
    BY <1>1, <2>1
  <2>5. Course' = <<queue', splitsLeft', DOMAIN got>>
    BY <2>1 DEF Course
  <2>6. Tried(Course) = <<queue', splitsLeft', DOMAIN got>>
    BY <1>4, <2>1 DEF Tried
  <2>7. <<queue', splitsLeft', DOMAIN got>> \in Courses
    BY <1>3, <2>3, <2>4 DEF Courses
  <2> QED BY <1>1, <1>4, <1>5, <2>3, <2>4, <2>5, <2>6, <2>7
<1>8. CASE GiveUpRefused
  <2>1. /\ ~SnapshotAnswers(Registers(c)) /\ (c[2] = c[1] \/ splitsLeft = 0)
        /\ queue' = Tail(queue) /\ splitsLeft' = splitsLeft /\ got' = got
    BY <1>8 DEF GiveUpRefused
  <2>2. Course' = <<Tail(queue), splitsLeft, DOMAIN got>>
    BY <2>1 DEF Course
  <2>3. ~(c[2] > c[1] /\ splitsLeft > 0)
    BY <1>2, <2>1 DEF Chunks
  <2>4. Tried(Course) = <<Tail(queue), splitsLeft, DOMAIN got>>
    BY <1>4, <2>1, <2>3 DEF Tried
  <2>5. <<Tail(queue), splitsLeft, DOMAIN got>> \in Courses
    BY <1>2, <1>3 DEF Courses
  <2> QED BY <1>1, <1>2, <1>4, <1>5, <2>1, <2>2, <2>4, <2>5
<1> QED BY <1>6, <1>7, <1>8

LEMMA ReadChunkKeeps ==
    ASSUME SnapInv, ReadChunk
    PROVE  /\ got' \in SampleSet /\ TrueTo(got', device', Telemetry)
           /\ failed' = failed
           /\ SnapParts' /\ RefusalHidesNoNeighbour'
<1> DEFINE c == Head(queue)
           span == Registers(c)
<1>1. /\ SnapTypes /\ queue \in Seq(Chunks) /\ queue # <<>> /\ got \in SampleSet
      /\ TrueTo(got, device, Telemetry) /\ device \in [SampledAddress \ Telemetry -> Value]
      /\ Covered(queue) \subseteq SampledAddress
  BY DEF SnapInv, SnapTypes, SnapTruth, ReadChunk, Sampling
<1>2. /\ Tail(queue) \in Seq(Chunks) /\ Covered(queue) = span \cup Covered(Tail(queue))
      /\ ChunksApart(queue) => ChunksApart(Tail(queue)) /\ span \cap Covered(Tail(queue)) = {}
  BY <1>1, FirstChunk
<1>3. PICK moving \in [span \cap Telemetry -> Value] :
        got' = [a \in DOMAIN got \cup span |->
                  IF a \notin span THEN got[a] ELSE IF a \in Telemetry THEN moving[a] ELSE device[a]]
  BY DEF ReadChunk
<1>4. queue' = Tail(queue) /\ device' = device /\ failed' = failed /\ splitsLeft' = splitsLeft
  BY DEF ReadChunk
<1> HIDE DEF span, c
<1>5. DOMAIN got \subseteq SampledAddress /\ \A a \in DOMAIN got : got[a] \in Value
  BY <1>1, SamplesAre
<1>6. DOMAIN got' = DOMAIN got \cup span
  BY <1>3
<1>7. got' \in SampleSet
  <2>1. span \subseteq SampledAddress
    BY <1>1, <1>2
  <2>2. \A a \in DOMAIN got \cup span :
          (IF a \notin span THEN got[a] ELSE IF a \in Telemetry THEN moving[a] ELSE device[a]) \in Value
    BY <1>1, <1>5, <2>1
  <2>3. got' \in [DOMAIN got \cup span -> Value]
    BY <1>3, <2>2
  <2>4. DOMAIN got \cup span \in SUBSET SampledAddress
    BY <1>5, <2>1
  <2> QED BY <2>3, <2>4 DEF SampleSet
<1>8. TrueTo(got', device', Telemetry)
  <2>1. ASSUME NEW a \in DOMAIN got \cup span, a \notin Telemetry PROVE got'[a] = device[a]
    BY <1>1, <1>3, <2>1 DEF TrueTo
  <2> QED BY <1>4, <1>6, <2>1 DEF TrueTo
<1>9. SnapParts'
  <2> SUFFICES ASSUME SampledApart
               PROVE  Accounted(DOMAIN got', failed.refused, failed.failed, Tail(queue))
    BY <1>4 DEF SnapParts, Given
  <2>1. Accounted(DOMAIN got, failed.refused, failed.failed, queue)
    BY DEF SnapInv, SnapParts, Given
  <2> QED BY <1>2, <1>6, <2>1 DEF Accounted
<1>10. RefusalHidesNoNeighbour'
  BY <1>4 DEF SnapInv, RefusalHidesNoNeighbour
<1> QED BY <1>4, <1>7, <1>8, <1>9, <1>10

LEMMA SplitChunkKeeps ==
    ASSUME SnapInv, SplitChunk
    PROVE  /\ got' = got /\ failed' = failed
           /\ SnapParts' /\ RefusalHidesNoNeighbour'
<1> DEFINE c == Head(queue)
<1>1. /\ queue \in Seq(Chunks) /\ queue # <<>> /\ splitsLeft \in 0..ExtraReads /\ ExtraReads \in Nat
  BY SearchAssumption DEF SnapInv, SnapTypes, SplitChunk, Sampling
<1>2. /\ c \in Chunks /\ Tail(queue) \in Seq(Chunks)
      /\ Covered(queue) = Registers(c) \cup Covered(Tail(queue))
      /\ ChunksApart(queue) => ChunksApart(Tail(queue)) /\ Registers(c) \cap Covered(Tail(queue)) = {}
  BY <1>1, FirstChunk
<1>3. /\ c[2] > c[1] /\ splitsLeft > 0 /\ queue' = Halves(c) \o Tail(queue)
      /\ splitsLeft' = splitsLeft - 1 /\ got' = got /\ failed' = failed
  BY DEF SplitChunk, Halves
<1> HIDE DEF c
<1>4. /\ Halves(c) \in Seq(Chunks) /\ Covered(Halves(c)) = Registers(c) /\ ChunksApart(Halves(c))
  BY <1>2, <1>3, ChunkHalves
<1>5. /\ Covered(queue') = Covered(queue)
      /\ ChunksApart(queue) => ChunksApart(queue')
  BY <1>2, <1>3, <1>4, ChunksJoined
<1>6. SnapParts'
  <2> SUFFICES ASSUME SampledApart
               PROVE  Accounted(DOMAIN got, failed.refused, failed.failed, queue')
    BY <1>3 DEF SnapParts, Given
  <2>1. Accounted(DOMAIN got, failed.refused, failed.failed, queue)
    BY DEF SnapInv, SnapParts, Given
  <2> QED BY <1>5, <2>1 DEF Accounted
<1>7. RefusalHidesNoNeighbour'
  BY <1>3 DEF SnapInv, RefusalHidesNoNeighbour
<1> QED BY <1>3, <1>6, <1>7

LEMMA GiveUpRefusedKeeps ==
    ASSUME SnapInv, GiveUpRefused
    PROVE  /\ got' = got
           /\ failed' \in [refused : SUBSET SampledAddress, failed : SUBSET SampledAddress]
           /\ SnapParts' /\ RefusalHidesNoNeighbour'
<1> DEFINE c == Head(queue)
<1>1. /\ queue \in Seq(Chunks) /\ queue # <<>> /\ Covered(queue) \subseteq SampledAddress
      /\ failed \in [refused : SUBSET SampledAddress, failed : SUBSET SampledAddress]
      /\ splitsLeft \in 0..ExtraReads
  BY DEF SnapInv, SnapTypes, GiveUpRefused, Sampling
<1>2. /\ c \in Chunks /\ Tail(queue) \in Seq(Chunks)
      /\ Covered(queue) = Registers(c) \cup Covered(Tail(queue))
      /\ ChunksApart(queue) => ChunksApart(Tail(queue)) /\ Registers(c) \cap Covered(Tail(queue)) = {}
  BY <1>1, FirstChunk
<1>3. /\ ~SnapshotAnswers(Registers(c)) /\ (c[2] = c[1] \/ splitsLeft = 0)
      /\ queue' = Tail(queue) /\ got' = got /\ splitsLeft' = splitsLeft
      /\ failed' = [failed EXCEPT !.refused = @ \cup Registers(c)]
  BY DEF GiveUpRefused
<1> HIDE DEF c
<1>4. failed'.refused = failed.refused \cup Registers(c) /\ failed'.failed = failed.failed
  BY <1>1, <1>3
<1>5. failed' \in [refused : SUBSET SampledAddress, failed : SUBSET SampledAddress]
  BY <1>1, <1>2, <1>3
<1>6. SnapParts'
  <2> SUFFICES ASSUME SampledApart
               PROVE  Accounted(DOMAIN got, failed'.refused, failed'.failed, Tail(queue))
    BY <1>3 DEF SnapParts, Given
  <2>1. Accounted(DOMAIN got, failed.refused, failed.failed, queue)
    BY DEF SnapInv, SnapParts, Given
  <2> QED BY <1>2, <1>4, <2>1 DEF Accounted
<1>7. RefusalHidesNoNeighbour'
  <2> SUFFICES ASSUME splitsLeft > 0, NEW a \in failed'.refused PROVE Page[a] = 0
    BY <1>3 DEF RefusalHidesNoNeighbour
  <2>1. CASE a \in failed.refused
    BY <2>1 DEF SnapInv, RefusalHidesNoNeighbour
  <2>2. CASE a \in Registers(c)
    <3>1. c[1] \in Nat /\ c[2] = c[1]
      BY <1>1, <1>2, <1>3 DEF Chunks
    <3>2. Registers(c) = {a}
      BY <2>2, <3>1 DEF Registers
    <3>3. Page[a] # 0 => SnapshotAnswers({a})
      BY DEF SnapshotAnswers
    <3> QED BY <1>3, <3>2, <3>3
  <2> QED BY <1>4, <2>1, <2>2
<1> QED BY <1>3, <1>5, <1>6, <1>7

LEMMA TryKeeps ==
    ASSUME SnapInv, ReadChunk \/ SplitChunk \/ GiveUpRefused
    PROVE  SnapInv'
<1>1. /\ SnapTypes /\ SnapTruth /\ SnapCourse /\ SettingIsFound
  BY DEF SnapInv
<1>2. /\ Course \in Courses /\ queue # <<>> /\ Course' = Tried(Course) /\ Tried(Course) \in Courses
      /\ queue' \in Seq(Chunks) /\ Covered(queue') \subseteq SampledAddress
      /\ splitsLeft' \in 0..ExtraReads /\ side \in {"before", "after"}
  BY <1>1, ChunkTried
<1>3. /\ device' = device /\ side' = side /\ samples' = samples /\ baseline' = baseline
      /\ candidates' = candidates /\ lostChunks' = lostChunks /\ lostHere' = lostHere
  BY <1>1, ChunkTried
<1>4. /\ got' \in SampleSet /\ TrueTo(got', device', Telemetry) /\ SnapParts' /\ RefusalHidesNoNeighbour'
      /\ failed' \in [refused : SUBSET SampledAddress, failed : SUBSET SampledAddress]
  <2>1. /\ got \in SampleSet /\ TrueTo(got, device, Telemetry)
        /\ failed \in [refused : SUBSET SampledAddress, failed : SUBSET SampledAddress]
    BY <1>1 DEF SnapTypes, SnapTruth
  <2>2. CASE ReadChunk
    BY <2>1, <2>2, ReadChunkKeeps
  <2>3. CASE SplitChunk
    BY <1>3, <2>1, <2>3, SplitChunkKeeps
  <2>4. CASE GiveUpRefused
    BY <1>3, <2>1, <2>4, GiveUpRefusedKeeps
  <2> QED BY <2>2, <2>3, <2>4
<1>5. SnapTypes'
  BY <1>1, <1>2, <1>3, <1>4 DEF SnapTypes
<1>6. SnapTruth'
  BY <1>1, <1>2, <1>3, <1>4 DEF SnapTruth
<1>7. SnapCourse'
  <2> SUFFICES ASSUME side \in {"before", "after"}, lostHere = 0
               PROVE  /\ LeadsTo(Begin, Course')
                      /\ \A i \in 1..Len(samples) :
                           \E left \in Nat : LeadsTo(Begin, <<<<>>, left, DOMAIN samples[i]>>)
    BY <1>3 DEF SnapCourse
  <2>1. /\ LeadsTo(Begin, Course)
        /\ \A i \in 1..Len(samples) :
             \E left \in Nat : LeadsTo(Begin, <<<<>>, left, DOMAIN samples[i]>>)
    BY <1>1 DEF SnapCourse
  <2>2. Course[1] = queue /\ Begin \in Courses
    BY SearchAssumption, AllChunksAre DEF Course, Begin, Courses
  <2>3. LeadsTo(Begin, Tried(Course))
    BY <1>2, <2>1, <2>2, CourseGoesOn
  <2> QED BY <1>2, <2>1, <2>3
<1>8. SettingIsFound'
  BY <1>2, <1>3 DEF SettingIsFound
<1> QED BY <1>4, <1>5, <1>6, <1>7, <1>8 DEF SnapInv

LEMMA GiveUpLostKeeps == ASSUME SnapInv, GiveUpLost PROVE SnapInv'
<1> DEFINE c == Head(queue)
<1>1. /\ SnapTypes /\ SnapTruth /\ RefusalHidesNoNeighbour
      /\ queue \in Seq(Chunks) /\ queue # <<>> /\ Covered(queue) \subseteq SampledAddress
      /\ failed \in [refused : SUBSET SampledAddress, failed : SUBSET SampledAddress]
      /\ lostChunks \in 0..MaxLostChunks /\ lostHere \in 0..lostChunks /\ MaxLostChunks \in Nat
      /\ side \in {"before", "after"}
  BY SearchAssumption DEF SnapInv, SnapTypes, GiveUpLost, Sampling
<1>2. /\ c \in Chunks /\ Tail(queue) \in Seq(Chunks)
      /\ Covered(queue) = Registers(c) \cup Covered(Tail(queue))
      /\ ChunksApart(queue) => ChunksApart(Tail(queue)) /\ Registers(c) \cap Covered(Tail(queue)) = {}
  BY <1>1, FirstChunk
<1>3. /\ lostChunks < MaxLostChunks /\ lostChunks' = lostChunks + 1 /\ lostHere' = lostHere + 1
      /\ queue' = Tail(queue) /\ failed' = [failed EXCEPT !.failed = @ \cup Registers(c)]
      /\ device' = device /\ side' = side /\ splitsLeft' = splitsLeft /\ got' = got
      /\ samples' = samples /\ baseline' = baseline /\ candidates' = candidates
  BY DEF GiveUpLost
<1> HIDE DEF c
<1>4. failed'.refused = failed.refused /\ failed'.failed = failed.failed \cup Registers(c)
  BY <1>1, <1>3
<1>5. SnapTypes'
  <2>1. failed' \in [refused : SUBSET SampledAddress, failed : SUBSET SampledAddress]
    BY <1>1, <1>2, <1>3
  <2>2. lostChunks' \in 0..MaxLostChunks /\ lostHere' \in 0..lostChunks'
    BY <1>1, <1>3
  <2>3. queue' \in Seq(Chunks) /\ Covered(queue') \subseteq SampledAddress
    BY <1>1, <1>2, <1>3
  <2> QED BY <1>1, <1>3, <2>1, <2>2, <2>3 DEF SnapTypes
<1>6. SnapTruth'
  BY <1>1, <1>3 DEF SnapTruth
<1>7. SnapCourse'
  <2>1. lostHere' # 0
    BY <1>1, <1>3
  <2> QED BY <2>1 DEF SnapCourse
<1>8. SnapParts'
  <2> SUFFICES ASSUME SampledApart
               PROVE  Accounted(DOMAIN got, failed'.refused, failed'.failed, Tail(queue))
    BY <1>3 DEF SnapParts, Given
  <2>1. Accounted(DOMAIN got, failed.refused, failed.failed, queue)
    BY DEF SnapInv, SnapParts, Given
  <2> QED BY <1>2, <1>4, <2>1 DEF Accounted
<1>9. RefusalHidesNoNeighbour'
  BY <1>1, <1>3, <1>4 DEF RefusalHidesNoNeighbour
<1>10. SettingIsFound'
  BY <1>1, <1>3 DEF SettingIsFound
<1> QED BY <1>5, <1>6, <1>7, <1>8, <1>9, <1>10 DEF SnapInv

LEMMA UsePanelKeeps == ASSUME SnapInv, UsePanel PROVE SnapInv'
<1>1. /\ SnapTypes /\ SnapTruth /\ side = "panel" /\ samples = <<>>
  BY DEF SnapInv, SnapTruth, UsePanel
<1>2. PICK v \in Value : device' = [device EXCEPT ![Setting] = v]
  BY DEF UsePanel
<1>3. /\ side' = "after" /\ queue' = AllChunks /\ splitsLeft' = ExtraReads /\ got' = <<>>
      /\ failed' = NoSample /\ samples' = samples /\ baseline' = baseline
      /\ candidates' = candidates /\ lostChunks' = lostChunks /\ lostHere' = 0
  BY DEF UsePanel, StartSample
<1>4. 1..Len(samples) = {}
  BY <1>1
<1>5. SnapTypes'
  <2>1. device' \in [SampledAddress \ Telemetry -> Value]
    BY <1>1, <1>2 DEF SnapTypes
  <2>2. lostHere' \in 0..lostChunks'
    BY <1>1, <1>3, SearchAssumption DEF SnapTypes
  <2> QED BY <1>1, <1>3, <2>1, <2>2, FreshSample DEF SnapTypes
<1>6. SnapTruth'
  <2>1. TrueTo(baseline.stable, device, Telemetry \cup {Setting})
    BY <1>1 DEF SnapTruth
  <2>2. \A a : a # Setting => device'[a] = device[a]
    BY <1>1, <1>2 DEF SnapTypes
  <2>3. TrueTo(baseline.stable, device', Telemetry \cup {Setting})
    BY <2>1, <2>2 DEF TrueTo
  <2> QED BY <1>3, <1>4, <2>3, FreshSample DEF SnapTruth
<1>7. SnapCourse'
  BY <1>3, <1>4, FreshSample DEF SnapCourse, Course
<1>8. SnapParts'
  BY <1>3, FreshSample DEF SnapParts, Given
<1>9. RefusalHidesNoNeighbour' /\ SettingIsFound'
  BY <1>3, FreshSample DEF RefusalHidesNoNeighbour, SettingIsFound
<1> QED BY <1>5, <1>6, <1>7, <1>8, <1>9 DEF SnapInv

\* All samples of a side, the last among them.
LEMMA SamplesTaken ==
    ASSUME SnapInv, side \in {"before", "after"}, queue = <<>>
    PROVE  LET taken == Append(samples, got) IN
           /\ taken \in Seq(SampleSet) /\ taken # <<>> /\ Len(taken) = Len(samples) + 1
           /\ taken[Len(taken)] = got /\ Len(taken) \in 1..Len(taken)
           /\ \A i \in 1..Len(taken) : TrueTo(taken[i], device, Telemetry)
           /\ lostHere = 0 =>
                \A i \in 1..Len(taken) :
                   \E left \in Nat : LeadsTo(Begin, <<<<>>, left, DOMAIN taken[i]>>)
<1> DEFINE taken == Append(samples, got)
<1>1. /\ SnapTypes /\ SnapTruth /\ SnapCourse /\ samples \in Seq(SampleSet) /\ got \in SampleSet
      /\ splitsLeft \in 0..ExtraReads /\ ExtraReads \in Nat
  BY SearchAssumption DEF SnapInv, SnapTypes
<1>2. /\ taken \in Seq(SampleSet) /\ taken # <<>> /\ Len(taken) = Len(samples) + 1
      /\ taken[Len(taken)] = got /\ Len(taken) \in 1..Len(taken)
      /\ \A i \in 1..Len(samples) : taken[i] = samples[i]
  BY <1>1
<1> HIDE DEF taken
<1>3. ASSUME NEW i \in 1..Len(taken)
      PROVE  (i \in 1..Len(samples) /\ taken[i] = samples[i]) \/ taken[i] = got
  <2>1. Len(samples) \in Nat
    BY <1>1
  <2>2. i \in 1..Len(samples) \/ i = Len(taken)
    BY <1>2, <2>1
  <2> QED BY <1>2, <2>2
<1>4. \A i \in 1..Len(taken) : TrueTo(taken[i], device, Telemetry)
  BY <1>1, <1>3 DEF SnapTruth
<1>5. ASSUME lostHere = 0, NEW i \in 1..Len(taken)
      PROVE  \E left \in Nat : LeadsTo(Begin, <<<<>>, left, DOMAIN taken[i]>>)
  <2>1. LeadsTo(Begin, Course)
        /\ \A j \in 1..Len(samples) :
             \E left \in Nat : LeadsTo(Begin, <<<<>>, left, DOMAIN samples[j]>>)
    BY <1>1, <1>5 DEF SnapCourse
  <2>2. Course = <<<<>>, splitsLeft, DOMAIN got>> /\ splitsLeft \in Nat
    BY <1>1 DEF Course
  <2> QED BY <1>3, <2>1, <2>2
<1> QED BY <1>2, <1>4, <1>5 DEF taken

\* In a snapshot that loses no chunk all samples have the same registers.
LEMMA SamplesAlike ==
    ASSUME SnapInv, side \in {"before", "after"}, queue = <<>>, lostHere = 0,
           NEW i \in 1..Len(Append(samples, got))
    PROVE  DOMAIN (Append(samples, got)[i]) = DOMAIN got
<1> DEFINE taken == Append(samples, got)
<1>1. /\ taken \in Seq(SampleSet) /\ taken[Len(taken)] = got /\ Len(taken) \in 1..Len(taken)
      /\ \A j \in 1..Len(taken) : \E left \in Nat : LeadsTo(Begin, <<<<>>, left, DOMAIN taken[j]>>)
  BY SamplesTaken
<1> HIDE DEF taken
<1>2. PICK k \in Nat : LeadsTo(Begin, <<<<>>, k, DOMAIN taken[i]>>)
  BY <1>1 DEF taken
<1>3. PICK m \in Nat : LeadsTo(Begin, <<<<>>, m, DOMAIN got>>)
  BY <1>1
<1>4. taken[i] \in SampleSet /\ got \in SampleSet
  BY <1>1 DEF taken
<1>5. DOMAIN taken[i] \in SUBSET SampledAddress /\ DOMAIN got \in SUBSET SampledAddress
  BY <1>4, SamplesAre
<1> DEFINE e == <<<<>>, k, DOMAIN taken[i]>>
           f == <<<<>>, m, DOMAIN got>>
<1>6. <<>> \in Seq(Chunks) /\ Begin \in Courses
  BY SearchAssumption, AllChunksAre DEF Begin, Courses
<1>7. e \in Courses /\ f \in Courses /\ e[1] = <<>> /\ f[1] = <<>>
  BY <1>5, <1>6 DEF Courses
<1>8. LeadsTo(Begin, e) /\ LeadsTo(Begin, f)
  BY <1>2, <1>3
<1>9. e[3] = DOMAIN taken[i] /\ f[3] = DOMAIN got
  OBVIOUS
<1> HIDE DEF e, f
<1>10. e = f
  BY <1>6, <1>7, <1>8, CourseEnds
<1> QED BY <1>9, <1>10 DEF taken

LEMMA EndSampleKeeps == ASSUME SnapInv, EndSample PROVE SnapInv'
<1> DEFINE taken == Append(samples, got)
<1>1. /\ SnapTypes /\ SnapTruth /\ SnapCourse /\ SnapParts /\ RefusalHidesNoNeighbour
      /\ side \in {"before", "after"} /\ queue = <<>>
      /\ device' = device /\ lostChunks' = lostChunks /\ lostHere' = lostHere
  BY DEF SnapInv, EndSample, losses
<1>2. /\ taken \in Seq(SampleSet) /\ taken # <<>> /\ Len(taken) = Len(samples) + 1
      /\ \A i \in 1..Len(taken) : TrueTo(taken[i], device, Telemetry)
      /\ lostHere = 0 =>
           \A i \in 1..Len(taken) : \E left \in Nat : LeadsTo(Begin, <<<<>>, left, DOMAIN taken[i]>>)
  BY <1>1, SamplesTaken
<1>3. /\ Classify(taken).stable = Classify(taken).stable
      /\ DOMAIN Classify(taken).stable \subseteq SampledAddress
      /\ TrueTo(Classify(taken).stable, device, Telemetry)
      /\ \A a \in SampledAddress \ Telemetry :
           device[a] # Undefined /\ (\A i \in 1..Len(taken) : a \in DOMAIN taken[i])
             => a \in DOMAIN Classify(taken).stable
  BY <1>2, ClassifyIs
<1>4. lostHere = 0 => \A i \in 1..Len(taken) : DOMAIN taken[i] = DOMAIN got
  BY <1>1, SamplesAlike
<1> DEFINE stable == Classify(taken).stable
<1>5. CASE Len(taken) < Samples
  <2>1. /\ samples' = taken /\ side' = side /\ baseline' = baseline /\ candidates' = candidates
        /\ queue' = AllChunks /\ splitsLeft' = ExtraReads /\ got' = <<>> /\ failed' = NoSample
    BY <1>5 DEF EndSample, StartSample
  <2> HIDE DEF taken
  <2>2. SnapTypes'
    BY <1>1, <1>2, <1>5, <2>1, FreshSample DEF SnapTypes
  <2>3. SnapTruth'
    BY <1>1, <1>2, <2>1, FreshSample DEF SnapTruth
  <2>4. SnapCourse'
    BY <1>1, <1>2, <2>1, FreshSample DEF SnapCourse, Course
  <2>5. SnapParts'
    BY <2>1, FreshSample DEF SnapParts, Given
  <2>6. RefusalHidesNoNeighbour' /\ SettingIsFound'
    BY <1>1, <2>1, FreshSample DEF RefusalHidesNoNeighbour, SettingIsFound
  <2> QED BY <2>2, <2>3, <2>4, <2>5, <2>6 DEF SnapInv
<1>6. CASE ~(Len(taken) < Samples)
  <2>1. /\ samples' = <<>> /\ queue' = queue /\ splitsLeft' = splitsLeft /\ got' = got
        /\ failed' = failed
    BY <1>6 DEF EndSample, sampling
  <2>2. \/ side = "before" /\ side' = "panel" /\ baseline' = Classify(taken) /\ candidates' = candidates
        \/ /\ side = "after" /\ side' = "compared" /\ baseline' = baseline
           /\ candidates' = Compare(baseline, Classify(taken))
    BY <1>1, <1>6 DEF EndSample
  <2> HIDE DEF taken
  <2>3. Compare(baseline, Classify(taken)) = {a \in DOMAIN baseline.stable \cap DOMAIN stable :
                                                baseline.stable[a] # stable[a]}
    BY DEF Compare
  <2> HIDE DEF stable
  <2>4. DOMAIN stable \subseteq SampledAddress /\ TrueTo(stable, device, Telemetry)
    BY <1>3 DEF stable
  <2>5. SnapTypes'
    <3>1. candidates' \in SUBSET SampledAddress
      BY <1>1, <2>2, <2>3, <2>4 DEF SnapTypes
    <3>2. samples' \in Seq(SampleSet) /\ Len(samples') < Samples
      BY <2>1, SearchAssumption
    <3>3. side' \in {"before", "panel", "after", "compared"}
      BY <2>2
    <3> QED BY <1>1, <2>1, <3>1, <3>2, <3>3 DEF SnapTypes
  <2>6. SnapTruth'
    <3>1. TrueTo(baseline'.stable, device, Telemetry \cup {Setting})
      <4>1. CASE side = "before"
        BY <2>2, <2>4, <4>1 DEF TrueTo, stable
      <4>2. CASE side = "after"
        BY <1>1, <2>2, <4>2 DEF SnapTruth
      <4> QED BY <1>1, <4>1, <4>2
    <3>2. 1..Len(samples') = {}
      BY <2>1
    <3> QED BY <1>1, <2>1, <3>1, <3>2 DEF SnapTruth
  <2>7. SnapCourse'
    BY <2>2 DEF SnapCourse
  <2>8. SnapParts'
    BY <1>1, <2>1 DEF SnapParts, Given
  <2>9. RefusalHidesNoNeighbour'
    BY <1>1, <2>1 DEF RefusalHidesNoNeighbour
  <2>10. SettingIsFound'
    <3> SUFFICES ASSUME side = "after", baseline' = baseline,
                        candidates' = {a \in DOMAIN baseline.stable \cap DOMAIN stable :
                                         baseline.stable[a] # stable[a]}
                 PROVE  /\ candidates' \subseteq Telemetry \cup {Setting}
                        /\ Setting \in DOMAIN baseline.stable /\ Setting \in DOMAIN got
                           /\ device[Setting] # Undefined
                           /\ device[Setting] # baseline.stable[Setting] /\ lostHere = 0
                             => Setting \in candidates'
      BY <1>1, <2>1, <2>2, <2>3 DEF SettingIsFound, Given
    <3>1. TrueTo(baseline.stable, device, Telemetry \cup {Setting})
      BY <1>1 DEF SnapTruth
    <3>2. candidates' \subseteq Telemetry \cup {Setting}
      BY <2>4, <3>1 DEF TrueTo
    <3>3. ASSUME Setting \in DOMAIN baseline.stable, Setting \in DOMAIN got,
                 device[Setting] # Undefined, device[Setting] # baseline.stable[Setting],
                 lostHere = 0
          PROVE  Setting \in candidates'
      <4>1. Setting \in SampledAddress \ Telemetry
        BY SearchAssumption
      <4>2. Setting \in DOMAIN stable
        BY <1>3, <1>4, <3>3, <4>1 DEF stable
      <4>3. stable[Setting] = device[Setting]
        BY <2>4, <4>1, <4>2 DEF TrueTo
      <4> QED BY <3>3, <4>2, <4>3
    <3> QED BY <3>2, <3>3
  <2> QED BY <2>5, <2>6, <2>7, <2>8, <2>9, <2>10 DEF SnapInv
<1> QED BY <1>5, <1>6

LEMMA SnapGoesOn == ASSUME SnapInv, [SnapshotNext]_snapshotVars PROVE SnapInv'
<1>1. CASE ReadChunk \/ SplitChunk \/ GiveUpRefused
  BY <1>1, TryKeeps
<1>2. CASE GiveUpLost
  BY <1>2, GiveUpLostKeeps
<1>3. CASE EndSample
  BY <1>3, EndSampleKeeps
<1>4. CASE UsePanel
  BY <1>4, UsePanelKeeps
<1>5. CASE UNCHANGED snapshotVars
  BY <1>5 DEF snapshotVars, sampling, losses, SnapInv, SnapTypes, SnapTruth, SnapCourse, Course, SnapParts,
     Given, RefusalHidesNoNeighbour, SettingIsFound
<1> QED BY <1>1, <1>2, <1>3, <1>4, <1>5 DEF SnapshotNext

-----------------------------------------------------------------------------
(* The snapshot: what it promises.                                         *)

LEMMA QueueIsPending == ASSUME queue \in Seq(Chunks) PROVE Pending = Covered(queue)
<1>1. Range(queue) = {queue[i] : i \in 1..Len(queue)}
  BY DEF Range
<1> QED BY <1>1 DEF Pending, Covered

LEMMA SnapshotIsTyped == ASSUME SnapInv PROVE SnapshotTypeOK
<1>1. SnapTypes /\ Pending \subseteq SampledAddress
  BY QueueIsPending DEF SnapInv, SnapTypes
<1>2. Given \subseteq SampledAddress /\ \A a \in Given : got[a] \in Value
  BY <1>1, SamplesAre DEF SnapTypes, Given
<1> QED BY <1>1, <1>2 DEF SnapTypes, SnapshotTypeOK

LEMMA RegistersAccounted == ASSUME SnapInv, SampledApart PROVE EveryRegisterAccounted
<1> DEFINE parts == <<Given, failed.refused, failed.failed, Pending>>
<1>1. Accounted(Given, failed.refused, failed.failed, queue) /\ Pending = Covered(queue)
  BY QueueIsPending DEF SnapInv, SnapTypes, SnapParts
<1>2. 1..4 = {1, 2, 3, 4} /\ DOMAIN parts = 1..4
  OBVIOUS
<1>3. /\ parts[1] = Given /\ parts[2] = failed.refused /\ parts[3] = failed.failed
      /\ parts[4] = Pending
  OBVIOUS
<1> HIDE DEF parts
<1>4. Range(parts) = {Given, failed.refused, failed.failed, Pending}
  BY <1>2, <1>3 DEF Range
<1>5. UNION Range(parts) = SampledAddress
  BY <1>1, <1>4 DEF Accounted
<1>6. \A i, j \in 1..4 : i # j => parts[i] \cap parts[j] = {}
  BY <1>1, <1>2, <1>3 DEF Accounted
<1>7. \A i, j \in 1..Len(queue) : i # j => Registers(queue[i]) \cap Registers(queue[j]) = {}
  BY <1>1 DEF Accounted, ChunksApart
<1> QED BY <1>5, <1>6, <1>7 DEF EveryRegisterAccounted, parts

-----------------------------------------------------------------------------
(* The programs side by side.                                              *)

LEMMA ProgramIsEach ==
    /\ ProgramSpec => MapInit /\ [][MapNext]_mapVars
    /\ ProgramSpec => SnapshotInit /\ [][SnapshotNext]_snapshotVars
    /\ ProgramSpec => KioskInit /\ [][KioskNext]_kioskVars
<1>1. ProgramInit => MapInit /\ SnapshotInit /\ KioskInit
  BY DEF ProgramInit
<1>2. ASSUME [ProgramNext]_programVars
      PROVE  [MapNext]_mapVars /\ [SnapshotNext]_snapshotVars /\ [KioskNext]_kioskVars
  BY <1>2 DEF ProgramNext, RunMap, RunSnapshot, RunKiosk, programVars
<1>3. [ProgramNext]_programVars
        => [MapNext]_mapVars /\ [SnapshotNext]_snapshotVars /\ [KioskNext]_kioskVars
  BY <1>2
<1> QED BY <1>1, <1>3, PTL DEF ProgramSpec

LEMMA SweepInvariant == MapInit /\ [][MapNext]_mapVars => []SweepInv
BY SweepBegins, SweepGoesOn, PTL

\* Whatever registers the inverter answers for, whatever reads the link loses, and for
\* any ranges, stride and budget: a register called readable is on a page and the map
\* has its value; and unless the budget ends the sweep, every block at least a stride
\* wide, and every block the map has any of, is readable from end to end but for what
\* is called unverified (register_discovery.py:278).  A later range must lie apart from
\* an earlier one or within it, within it only with a stride of at most 2, and an edge
\* read must reach the next probe.
THEOREM MapTellsWhatIsThere ==
    ASSUME Stride <= EdgeRead + 1, RangesNest, RangesApart \/ Stride <= 2
    PROVE  ProgramSpec => []MapIsTrueAndComplete
<1>1. SweepInv => MapIsTrueAndComplete
  BY MapIsTrue, MapIsComplete DEF MapIsTrueAndComplete
<1> QED BY <1>1, SweepInvariant, ProgramIsEach, PTL

LEMMA SnapInvariant == SnapshotInit /\ [][SnapshotNext]_snapshotVars => []SnapInv
BY SnapBegins, SnapGoesOn, PTL

LEMMA KioskTypesInvariant == KioskInit /\ [][KioskNext]_kioskVars => []KioskTypeInv
BY KioskTypesBegin, KioskTypesStep, PTL

\* Whatever the ranges, the inverter and the link: while splits last no register hides
\* behind one the inverter refuses; a register that does not move is never a candidate,
\* and the setting, changed, stable before and read after without a loss, is one
\* (register_discovery.py:89, 526).
THEOREM SettingIsAmongCandidates ==
    ProgramSpec => [](RefusalHidesNoNeighbour /\ SettingIsFound)
<1>1. SnapInv => RefusalHidesNoNeighbour /\ SettingIsFound
  BY DEF SnapInv
<1> QED BY <1>1, SnapInvariant, ProgramIsEach, PTL

\* And of ranges that share no register none is dropped in silence or read twice: each
\* is read once, given up once or still queued (register_discovery.py:547).
THEOREM SnapshotsDropNothing ==
    ASSUME SampledApart
    PROVE  ProgramSpec => []SnapshotsFindTheSetting
<1>1. SnapInv => SnapshotsFindTheSetting
  BY RegistersAccounted DEF SnapInv, SnapshotsFindTheSetting
<1> QED BY <1>1, SnapInvariant, ProgramIsEach, PTL

\* All three programs keep to the types of their state: the budget of reads and of
\* splits is never overdrawn, nothing outside the ranges is read, and the times of the
\* supervisor stay within their bounds.
THEOREM ProgramsAreTyped == ProgramSpec => []ProgramTypeOK
<1>1. SweepInv => MapTypeOK
  BY DEF SweepInv
<1>2. SnapInv => SnapshotTypeOK
  BY SnapshotIsTyped
<1>3. KioskTypeInv => KioskTypeOK
  BY DEF KioskTypeInv
<1>4. MapTypeOK /\ SnapshotTypeOK /\ KioskTypeOK => ProgramTypeOK
  BY DEF ProgramTypeOK
<1> QED BY <1>1, <1>2, <1>3, <1>4, SweepInvariant, SnapInvariant, KioskTypesInvariant,
           ProgramIsEach, PTL
=============================================================================
