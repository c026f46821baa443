------------------------- MODULE EnergyRollupsProofs -------------------------
(***************************************************************************)
(* The tables the store derives from the inverter's readings say what the  *)
(* readings say: for any readings at any times, and any order of inserts,  *)
(* failures, retention, purges and backfills.                              *)
(***************************************************************************)
EXTENDS EnergyRollups, FoldTheorems

Meters == Nat \cup {Missing}
Readings == [meter : Meters, power : Meters]

\* What the table of peaks holds of the days it has.
PeakFits(f) == \A d \in DOMAIN f : f[d] \in Times /\ Day(f[d]) = d /\ Lit(f[d])

\* What the table of daily counters holds of the days it has.
DailyFits(f) ==
    \A d \in DOMAIN f : f[d].at \in Times /\ UtcDay(f[d].at) = d /\ f[d].kwh \in Nat

-----------------------------------------------------------------------------
(* Folds over readings.                                                    *)

\* A fold over readings, in terms of one without the last of them.
TimesEnd(op(_, _), base, R) ==
    IF R = {} THEN base ELSE op(FoldTimes(op, base, R \ {Max(R)}), Max(R))

\* Readings are finitely many naturals, and the latest of them is one of them.
LEMMA Finite ==
    ASSUME NEW R \in SUBSET Times
    PROVE  /\ R \in SUBSET Nat /\ IsFiniteSet(R) /\ Picks(Max, R)
           /\ R # {} => Max(R) \in R /\ \A t \in R : t <= Max(R)
<1>1. R \in SUBSET Nat /\ IsFiniteSet(R)
  BY TimesAssumption, FS_Subset
<1> QED BY <1>1, MaxPicks, GreatestOf

\* The fold over readings ends with the latest.
LEMMA TimesStep ==
    ASSUME NEW op(_, _), NEW base, NEW R \in SUBSET Times
    PROVE  FoldTimes(op, base, R) = TimesEnd(op, base, R)
<1> DEFINE flipped(t, acc) == op(acc, t)
           same(t) == t
<1>1. MapThenFoldSet(flipped, base, same, Max, R) = FoldEnd(flipped, base, same, Max, R)
  <2> HIDE DEF flipped, same
  <2> QED BY Finite, FoldStep
<1>2. FoldEnd(flipped, base, same, Max, R) = TimesEnd(op, base, R)
  BY DEF FoldEnd, TimesEnd, FoldTimes
<1>3. FoldTimes(op, base, R) = MapThenFoldSet(flipped, base, same, Max, R)
  BY DEF FoldTimes
<1> HIDE DEF flipped, same
<1> QED BY <1>1, <1>2, <1>3

\* Induction over the readings of R, from the first to the last.
LEMMA TimesInduction ==
    ASSUME NEW R \in SUBSET Times, NEW good, {} \in good,
           \A S \in SUBSET R : S # {} /\ S \ {Max(S)} \in good => S \in good
    PROVE  SUBSET R \subseteq good
<1>1. Grows(Max, R, good)
  BY DEF Grows
<1> QED BY <1>1, Finite, FoldInduction

-----------------------------------------------------------------------------
(* Peaks.                                                                  *)

\* The table has a peak at least as strong as the reading at t.
PeakReaches(f, t) ==
    Day(t) \in DOMAIN f /\ sample[t].power <= sample[f[Day(t)]].power

\* One reading: it is covered from then on, and what was covered stays so.
LEMMA OnePeak ==
    ASSUME sample \in [Times -> Readings], NEW f, PeakFits(f), NEW t \in Times
    PROVE  /\ PeakFits(RaisePeak(f, t))
           /\ Lit(t) => PeakReaches(RaisePeak(f, t), t)
           /\ \A u \in Times : PeakReaches(f, u) => PeakReaches(RaisePeak(f, t), u)
<1>1. \A u \in Times : sample[u].power \in Int
  BY DEF Readings, Meters, Missing
<1>2. CASE RaisePeak(f, t) = f /\ (Lit(t) => PeakReaches(f, t))
  BY <1>2
<1>3. CASE /\ RaisePeak(f, t) = With(f, Day(t), t) /\ Lit(t)
           /\ Day(t) \in DOMAIN f => sample[t].power > sample[f[Day(t)]].power
  <2> DEFINE g == RaisePeak(f, t)
  <2>1. /\ DOMAIN g = {Day(t)} \cup DOMAIN f
        /\ \A z \in {Day(t)} \cup DOMAIN f : g[z] = IF z = Day(t) THEN t ELSE f[z]
    BY <1>3 DEF With
  <2> HIDE DEF g
  <2>2. PeakFits(g)
    BY <1>3, <2>1 DEF PeakFits
  <2>3. PeakReaches(g, t)
    BY <1>1, <2>1 DEF PeakReaches
  <2>4. ASSUME NEW u \in Times, PeakReaches(f, u) PROVE PeakReaches(g, u)
    <3>1. CASE Day(u) = Day(t)
      <4>1. g[Day(u)] = t /\ Day(u) \in DOMAIN g
        BY <2>1, <3>1
      <4>2. f[Day(u)] \in Times /\ sample[u].power <= sample[f[Day(u)]].power
        BY <2>4 DEF PeakFits, PeakReaches
      <4>3. sample[f[Day(u)]].power < sample[t].power
        BY <1>1, <1>3, <2>4, <3>1, <4>2 DEF PeakReaches
      <4> QED BY <1>1, <4>1, <4>2, <4>3 DEF PeakReaches
    <3>2. CASE Day(u) # Day(t)
      BY <2>1, <2>4, <3>2 DEF PeakReaches
    <3> QED BY <3>1, <3>2
  <2> QED BY <2>2, <2>3, <2>4 DEF g
<1>4. /\ RaisePeak(f, t) = f /\ (Lit(t) => PeakReaches(f, t))
      \/ /\ RaisePeak(f, t) = With(f, Day(t), t) /\ Lit(t)
         /\ Day(t) \in DOMAIN f => sample[t].power > sample[f[Day(t)]].power
  <2>1. Day(t) \in DOMAIN f => f[Day(t)] \in Times
    BY DEF PeakFits
  <2> QED BY <1>1, <2>1 DEF RaisePeak, PeakReaches
<1> QED BY <1>2, <1>3, <1>4

\* A sequence of readings: the same.
LEMMA Peaks ==
    ASSUME sample \in [Times -> Readings], NEW f, PeakFits(f), NEW R \in SUBSET Times
    PROVE  /\ PeakFits(FoldTimes(RaisePeak, f, R))
           /\ \A t \in R : Lit(t) => PeakReaches(FoldTimes(RaisePeak, f, R), t)
           /\ \A u \in Times : PeakReaches(f, u) => PeakReaches(FoldTimes(RaisePeak, f, R), u)
<1> DEFINE Good(S) == LET g == FoldTimes(RaisePeak, f, S)
                      IN  /\ PeakFits(g)
                          /\ \A t \in S : Lit(t) => PeakReaches(g, t)
                          /\ \A u \in Times : PeakReaches(f, u) => PeakReaches(g, u)
           good == {S \in SUBSET R : Good(S)}
<1>1. {} \in good
  <2>1. FoldTimes(RaisePeak, f, {}) = TimesEnd(RaisePeak, f, {})
    BY TimesStep
  <2>2. FoldTimes(RaisePeak, f, {}) = f
    BY <2>1 DEF TimesEnd
  <2> QED BY <2>2
<1>2. ASSUME NEW S \in SUBSET R, S # {}, S \ {Max(S)} \in good PROVE S \in good
  <2> DEFINE h == FoldTimes(RaisePeak, f, S \ {Max(S)})
             g == FoldTimes(RaisePeak, f, S)
  <2>1. g = TimesEnd(RaisePeak, f, S)
    BY TimesStep
  <2>2. g = RaisePeak(h, Max(S)) /\ Max(S) \in S /\ Max(S) \in Times
    BY <1>2, <2>1, Finite DEF TimesEnd
  <2>3. /\ PeakFits(h)
        /\ \A t \in S \ {Max(S)} : Lit(t) => PeakReaches(h, t)
        /\ \A u \in Times : PeakReaches(f, u) => PeakReaches(h, u)
    BY <1>2
  <2> HIDE DEF g, h
  <2>4. /\ PeakFits(g)
        /\ Lit(Max(S)) => PeakReaches(g, Max(S))
        /\ \A u \in Times : PeakReaches(h, u) => PeakReaches(g, u)
    BY <2>2, <2>3, OnePeak
  <2>5. Good(S)
    BY <2>2, <2>3, <2>4 DEF g
  <2> QED BY <2>5
<1> HIDE DEF good
<1>3. R \in good
  BY <1>1, <1>2, TimesInduction
<1> QED BY <1>3 DEF good

\* A set of readings that is not empty has a strongest.
LEMMA StrongestOf ==
    ASSUME sample \in [Times -> Readings], NEW R \in SUBSET Times, R # {}
    PROVE  /\ Strongest(R) \in R
           /\ \A u \in R : sample[u].power <= sample[Strongest(R)].power
<1> DEFINE Tops(t, S) == \A u \in S : \/ sample[u].power < sample[t].power
                                      \/ sample[u].power = sample[t].power /\ t <= u
           good == {S \in SUBSET R : S # {} => \E t \in S : Tops(t, S)}
<1>1. \A u \in R : sample[u].power \in Int /\ u \in Nat
  BY TimesAssumption DEF Readings, Meters, Missing
<1>2. ASSUME NEW S \in SUBSET R, S # {}, S \ {Max(S)} \in good PROVE S \in good
  <2> DEFINE last == Max(S)
  <2>1. last \in S /\ \A u \in S : u <= last
    BY <1>2, Finite
  <2> HIDE DEF last
  <2>2. CASE S = {last}
    <3>1. Tops(last, S)
      BY <1>1, <2>2
    <3> QED BY <2>1, <3>1
  <2>3. CASE S # {last}
    <3>1. PICK t \in S \ {last} : Tops(t, S \ {last})
      BY <1>2, <2>1, <2>3 DEF last
    <3>2. CASE sample[last].power <= sample[t].power
      <4>1. Tops(t, S)
        BY <1>1, <2>1, <3>1, <3>2
      <4> QED BY <4>1
    <3>3. CASE ~(sample[last].power <= sample[t].power)
      <4>1. Tops(last, S)
        <5> SUFFICES ASSUME NEW u \in S, u # last PROVE sample[u].power < sample[last].power
          BY <1>1, <2>1
        <5>1. sample[u].power <= sample[t].power
          BY <1>1, <3>1
        <5> QED BY <1>1, <2>1, <3>1, <3>3, <5>1
      <4> QED BY <2>1, <4>1
    <3> QED BY <3>2, <3>3
  <2> QED BY <2>2, <2>3
<1>3. {} \in good
  OBVIOUS
<1> HIDE DEF good
<1>4. R \in good
  BY <1>2, <1>3, TimesInduction
<1>5. \E t \in R : Tops(t, R)
  BY <1>4 DEF good
<1>6. Strongest(R) \in R /\ Tops(Strongest(R), R)
  BY <1>5 DEF Strongest
<1> QED BY <1>1, <1>6

-----------------------------------------------------------------------------
(* Daily counters.                                                         *)

\* The table has a counter at least as high and as late as the reading at t.
DailyReaches(f, t) ==
    /\ UtcDay(t) \in DOMAIN f
    /\ sample[t].meter <= f[UtcDay(t)].kwh /\ t <= f[UtcDay(t)].at

\* One reading: it is covered from then on, and what was covered stays so.
LEMMA OneDaily ==
    ASSUME sample \in [Times -> Readings], NEW f, DailyFits(f), NEW t \in Times
    PROVE  /\ DailyFits(RaiseDaily(f, t))
           /\ Rated(t) => DailyReaches(RaiseDaily(f, t), t)
           /\ \A u \in Times : DailyReaches(f, u) => DailyReaches(RaiseDaily(f, t), u)
<1> DEFINE g == RaiseDaily(f, t)
           d == UtcDay(t)
<1>1. /\ \A u \in Times : u \in Nat /\ sample[u].meter \in Int
      /\ Rated(t) => sample[t].meter \in Nat
  BY TimesAssumption DEF Readings, Meters, Missing, Rated
<1>2. CASE ~Rated(t)
  BY <1>2 DEF RaiseDaily
<1>3. CASE Rated(t)
  <2>1. /\ DOMAIN g = {d} \cup DOMAIN f
        /\ \A z \in DOMAIN f : z # d => g[z] = f[z]
        /\ d \notin DOMAIN f => g[d] = [at |-> t, kwh |-> sample[t].meter]
        /\ d \in DOMAIN f =>
             g[d] = [at |-> IF f[d].at < t THEN t ELSE f[d].at,
                     kwh |-> IF f[d].kwh < sample[t].meter THEN sample[t].meter ELSE f[d].kwh]
    BY <1>3 DEF RaiseDaily, With
  <2>2. d \in DOMAIN f => f[d].at \in Times /\ UtcDay(f[d].at) = d /\ f[d].kwh \in Nat
    BY DEF DailyFits
  <2>3. UtcDay(t) = d
    OBVIOUS
  <2> HIDE DEF g, d
  <2>4. /\ d \in DOMAIN g
        /\ g[d].at \in Times /\ UtcDay(g[d].at) = d /\ g[d].kwh \in Nat
        /\ sample[t].meter <= g[d].kwh /\ t <= g[d].at
        /\ d \in DOMAIN f => f[d].kwh <= g[d].kwh /\ f[d].at <= g[d].at
    <3>1. CASE d \notin DOMAIN f
      BY <1>1, <1>3, <2>1, <2>3, <3>1
    <3>2. CASE d \in DOMAIN f
      <4>1. f[d].at \in Nat /\ f[d].kwh \in Nat /\ t \in Nat /\ sample[t].meter \in Nat
        BY <1>1, <1>3, <2>2, <3>2
      <4>2. /\ g[d].at = (IF f[d].at < t THEN t ELSE f[d].at)
            /\ g[d].kwh = (IF f[d].kwh < sample[t].meter THEN sample[t].meter ELSE f[d].kwh)
        BY <2>1, <3>2
      <4> QED BY <2>1, <2>2, <2>3, <3>2, <4>1, <4>2
    <3> QED BY <3>1, <3>2
  <2>5. DailyFits(g)
    BY <2>1, <2>4 DEF DailyFits
  <2>6. DailyReaches(g, t)
    BY <2>3, <2>4 DEF DailyReaches
  <2>7. ASSUME NEW u \in Times, DailyReaches(f, u) PROVE DailyReaches(g, u)
    <3>1. CASE UtcDay(u) = d
      <4>1. sample[u].meter <= f[d].kwh /\ u <= f[d].at /\ d \in DOMAIN f
        BY <2>7, <3>1 DEF DailyReaches
      <4>2. f[d].kwh \in Int /\ f[d].at \in Int /\ g[d].kwh \in Int /\ g[d].at \in Int
        BY <1>1, <2>2, <2>4, <4>1
      <4>3. sample[u].meter <= g[d].kwh /\ u <= g[d].at
        BY <1>1, <2>4, <4>1, <4>2
      <4> QED BY <2>4, <3>1, <4>3 DEF DailyReaches
    <3>2. CASE UtcDay(u) # d
      BY <2>1, <2>7, <3>2 DEF DailyReaches
    <3> QED BY <3>1, <3>2
  <2> QED BY <2>5, <2>6, <2>7 DEF g
<1> QED BY <1>2, <1>3

\* A sequence of readings: the same.
LEMMA Dailies ==
    ASSUME sample \in [Times -> Readings], NEW f, DailyFits(f), NEW R \in SUBSET Times
    PROVE  /\ DailyFits(FoldTimes(RaiseDaily, f, R))
           /\ \A t \in R : Rated(t) => DailyReaches(FoldTimes(RaiseDaily, f, R), t)
           /\ \A u \in Times : DailyReaches(f, u) => DailyReaches(FoldTimes(RaiseDaily, f, R), u)
<1> DEFINE Good(S) == LET g == FoldTimes(RaiseDaily, f, S)
                      IN  /\ DailyFits(g)
                          /\ \A t \in S : Rated(t) => DailyReaches(g, t)
                          /\ \A u \in Times : DailyReaches(f, u) => DailyReaches(g, u)
           good == {S \in SUBSET R : Good(S)}
<1>1. {} \in good
  <2>1. FoldTimes(RaiseDaily, f, {}) = TimesEnd(RaiseDaily, f, {})
    BY TimesStep
  <2>2. FoldTimes(RaiseDaily, f, {}) = f
    BY <2>1 DEF TimesEnd
  <2> QED BY <2>2
<1>2. ASSUME NEW S \in SUBSET R, S # {}, S \ {Max(S)} \in good PROVE S \in good
  <2> DEFINE h == FoldTimes(RaiseDaily, f, S \ {Max(S)})
             g == FoldTimes(RaiseDaily, f, S)
  <2>1. g = TimesEnd(RaiseDaily, f, S)
    BY TimesStep
  <2>2. g = RaiseDaily(h, Max(S)) /\ Max(S) \in S /\ Max(S) \in Times
    BY <1>2, <2>1, Finite DEF TimesEnd
  <2>3. /\ DailyFits(h)
        /\ \A t \in S \ {Max(S)} : Rated(t) => DailyReaches(h, t)
        /\ \A u \in Times : DailyReaches(f, u) => DailyReaches(h, u)
    BY <1>2
  <2> HIDE DEF g, h
  <2>4. /\ DailyFits(g)
        /\ Rated(Max(S)) => DailyReaches(g, Max(S))
        /\ \A u \in Times : DailyReaches(h, u) => DailyReaches(g, u)
    BY <2>2, <2>3, OneDaily
  <2>5. Good(S)
    BY <2>2, <2>3, <2>4 DEF g
  <2> QED BY <2>5
<1> HIDE DEF good
<1>3. R \in good
  BY <1>1, <1>2, TimesInduction
<1> QED BY <1>3 DEF good
-----------------------------------------------------------------------------
(* The split of a day.                                                     *)

\* What Credit carries from one reading to the next.
Accounts == [last : Meters, split : [TOU_PERIODS -> Nat]]

Opening(seed) == [last |-> seed, split |-> NoEnergy]

\* A reading counts from what was last measured against, and is measured against
\* from then on unless it is a glitch.
LEMMA OneCredit ==
    ASSUME sample \in [Times -> Readings], NEW acc \in Accounts, NEW t \in Times
    PROVE  /\ Credit(acc, t) \in Accounts
           /\ Rated(t) => /\ sample[t].meter \in Nat
                          /\ Period[t] \in TOU_PERIODS
                          /\ CounterRise(acc.last, sample[t].meter) \in Nat
                          /\ Credit(acc, t).last = Baseline(acc.last, sample[t].meter)
                          /\ Credit(acc, t).split =
                               [acc.split EXCEPT ![Period[t]] =
                                   @ + CounterRise(acc.last, sample[t].meter)]
<1>1. CASE ~Rated(t)
  BY <1>1 DEF Credit
<1>2. CASE Rated(t)
  <2> DEFINE m == sample[t].meter
  <2>1. m \in Nat /\ acc.last \in Nat \cup {-1}
    BY <1>2 DEF Readings, Meters, Missing, Rated, Accounts
  <2>2. Period[t] \in TOU_PERIODS
    BY DEF Period, PeriodFor, TOU_PERIODS
  <2> HIDE DEF m
  <2>3. CounterRise(acc.last, m) \in Nat /\ Baseline(acc.last, m) \in Meters
    BY <2>1 DEF CounterRise, Baseline, IsCounterReset, Meters, Missing
  <2>4. /\ Credit(acc, t).last = Baseline(acc.last, m)
        /\ Credit(acc, t).split = [acc.split EXCEPT ![Period[t]] = @ + CounterRise(acc.last, m)]
        /\ Credit(acc, t) = [last |-> Credit(acc, t).last, split |-> Credit(acc, t).split]
    BY <1>2 DEF Credit, m
  <2>5. acc.split \in [TOU_PERIODS -> Nat]
    BY DEF Accounts
  <2>6. [acc.split EXCEPT ![Period[t]] = @ + CounterRise(acc.last, m)] \in [TOU_PERIODS -> Nat]
    BY <2>2, <2>3, <2>5
  <2>7. Credit(acc, t) \in Accounts
    BY <2>3, <2>4, <2>6 DEF Accounts
  <2> QED BY <2>1, <2>2, <2>3, <2>4, <2>7 DEF m
<1> QED BY <1>1, <1>2

\* A reading without a counter is passed over.
LEMMA NoCredit == ASSUME NEW acc, NEW t, ~Rated(t) PROVE Credit(acc, t) = acc
BY DEF Credit

\* What a fold of Credit is without the last reading.
LEMMA CreditStep ==
    ASSUME NEW base, NEW R \in SUBSET Times
    PROVE  /\ R = {} => FoldTimes(Credit, base, R) = base
           /\ R # {} => /\ Max(R) \in R /\ \A t \in R : t <= Max(R)
                        /\ FoldTimes(Credit, base, R) =
                             Credit(FoldTimes(Credit, base, R \ {Max(R)}), Max(R))
<1>1. FoldTimes(Credit, base, R) = TimesEnd(Credit, base, R)
  BY TimesStep
<1> QED BY <1>1, Finite DEF TimesEnd

\* The accounts keep their type over a sequence of readings.
LEMMA Credits ==
    ASSUME sample \in [Times -> Readings], NEW base \in Accounts, NEW R \in SUBSET Times
    PROVE  FoldTimes(Credit, base, R) \in Accounts
<1> DEFINE good == {S \in SUBSET R : FoldTimes(Credit, base, S) \in Accounts}
<1>1. {} \in good
  BY CreditStep
<1>2. ASSUME NEW S \in SUBSET R, S # {}, S \ {Max(S)} \in good PROVE S \in good
  <2>1. FoldTimes(Credit, base, S) = Credit(FoldTimes(Credit, base, S \ {Max(S)}), Max(S))
        /\ Max(S) \in Times
    BY <1>2, CreditStep
  <2>2. FoldTimes(Credit, base, S \ {Max(S)}) \in Accounts
    BY <1>2
  <2> QED BY <2>1, <2>2, OneCredit
<1> HIDE DEF good
<1>3. R \in good
  BY <1>1, <1>2, TimesInduction
<1> QED BY <1>3 DEF good

LEMMA OpeningType ==
    ASSUME NEW seed \in Meters PROVE Opening(seed) \in Accounts
<1>1. NoEnergy \in [TOU_PERIODS -> Nat]
  BY DEF NoEnergy
<1> QED BY <1>1 DEF Opening, Accounts

\* A split is energy per period.
LEMMA SplitType ==
    ASSUME sample \in [Times -> Readings], NEW seed \in Meters, NEW R \in SUBSET Times
    PROVE  Split(R, seed) \in [TOU_PERIODS -> Nat]
<1>1. FoldTimes(Credit, Opening(seed), R) \in Accounts
  BY OpeningType, Credits
<1> QED BY <1>1 DEF Split, Opening, Accounts

\* The readings a split counts.
RatedOf(R) == {t \in R : Rated(t)}

\* A reading without a counter changes nothing.
LEMMA OnlyRated ==
    ASSUME NEW base, NEW R \in SUBSET Times
    PROVE  FoldTimes(Credit, base, R) = FoldTimes(Credit, base, RatedOf(R))
<1> DEFINE Same(S) == FoldTimes(Credit, base, S) = FoldTimes(Credit, base, RatedOf(S))
           good == {S \in SUBSET R : Same(S)}
<1>1. {} \in good
  <2>1. RatedOf({}) = {}
    BY DEF RatedOf
  <2> QED BY <2>1
<1>2. ASSUME NEW S \in SUBSET R, S # {}, S \ {Max(S)} \in good PROVE S \in good
  <2> DEFINE t == Max(S)
             less == S \ {t}
  <2>1. /\ t \in S /\ \A u \in S : u <= t /\ u \in Nat
        /\ FoldTimes(Credit, base, S) = Credit(FoldTimes(Credit, base, less), t)
    BY <1>2, CreditStep, TimesAssumption
  <2>2. FoldTimes(Credit, base, less) = FoldTimes(Credit, base, RatedOf(less))
    BY <1>2
  <2>3. less = S \ {t} /\ less \in SUBSET R
    OBVIOUS
  <2> HIDE DEF t, less
  <2>4. CASE ~Rated(t)
    <3>1. RatedOf(S) = RatedOf(less)
      BY <2>3, <2>4 DEF RatedOf
    <3>2. FoldTimes(Credit, base, S) = FoldTimes(Credit, base, less)
      BY <2>1, <2>4, NoCredit
    <3> QED BY <2>2, <3>1, <3>2
  <2>5. CASE Rated(t)
    <3>1. RatedOf(S) \in SUBSET Times /\ t \in RatedOf(S) /\ RatedOf(S) \ {t} = RatedOf(less)
      BY <2>1, <2>3, <2>5 DEF RatedOf
    <3>2. Max(RatedOf(S)) \in RatedOf(S) /\ \A u \in RatedOf(S) : u <= Max(RatedOf(S))
      BY <3>1, CreditStep
    <3>3. Max(RatedOf(S)) = t
      <4>1. Max(RatedOf(S)) \in S /\ t <= Max(RatedOf(S))
        BY <3>1, <3>2 DEF RatedOf
      <4> QED BY <2>1, <4>1
    <3>4. FoldTimes(Credit, base, RatedOf(S)) = Credit(FoldTimes(Credit, base, RatedOf(less)), t)
      <4>1. FoldTimes(Credit, base, RatedOf(S)) =
              Credit(FoldTimes(Credit, base, RatedOf(S) \ {Max(RatedOf(S))}), Max(RatedOf(S)))
        BY <3>1, CreditStep
      <4> QED BY <3>1, <3>3, <4>1
    <3> QED BY <2>1, <2>2, <3>4
  <2> QED BY <2>4, <2>5
<1> HIDE DEF good
<1>3. R \in good
  BY <1>1, <1>2, TimesInduction
<1> QED BY <1>3 DEF good

\* Sets with the same rated readings have the same split.
LEMMA SameSplit ==
    ASSUME NEW R \in SUBSET Times, NEW Q \in SUBSET Times, RatedOf(R) = RatedOf(Q), NEW seed
    PROVE  Split(R, seed) = Split(Q, seed)
BY OnlyRated DEF Split

\* A day is measured against one of its seeds.
LEMMA SeedIs ==
    ASSUME sample \in [Times -> Readings], NEW R \in SUBSET Times, NEW d
    PROVE  Seed(R, d) \in Seeds(d) /\ Seeds(d) \subseteq Meters
<1>1. Seeds(d) \subseteq Meters
  BY DEF Seeds, Lookback, Readings, Meters
<1>2. Lookback(R, d) # {} => Max(Lookback(R, d)) \in Lookback(Times, d)
  <2>1. Lookback(R, d) \in SUBSET Times /\ Lookback(R, d) \subseteq Lookback(Times, d)
    BY DEF Lookback
  <2> QED BY <2>1, Finite
<1>3. Seed(R, d) \in Seeds(d)
  BY <1>2 DEF Seed, Seeds
<1> QED BY <1>1, <1>3
-----------------------------------------------------------------------------
(* What the periods of a day sum to.                                       *)

\* The sum over some of the periods.
SumOver(split, S) == FoldFunctionOnSet(Plus, 0, split, S)

\* The total of a split is a sum over finitely many periods.
LEMMA FinitePeriods == IsFiniteSet(TOU_PERIODS)
<1>1. IsFiniteSet({"on_peak"})
  BY FS_Singleton
<1>2. IsFiniteSet({"on_peak"} \cup {"off_peak"})
  BY <1>1, FS_AddElement
<1>3. IsFiniteSet(({"on_peak"} \cup {"off_peak"}) \cup {"super_off_peak"})
  BY <1>2, FS_AddElement
<1>4. TOU_PERIODS = ({"on_peak"} \cup {"off_peak"}) \cup {"super_off_peak"}
  BY DEF TOU_PERIODS
<1> QED BY <1>3, <1>4

\* The total, one period at a time.
LEMMA SumStep ==
    ASSUME NEW split, NEW S \in SUBSET TOU_PERIODS
    PROVE  /\ S = {} => SumOver(split, S) = 0
           /\ S # {} => LET p == CHOOSE x \in S : TRUE
                        IN  SumOver(split, S) = split[p] + SumOver(split, S \ {p})
<1>1. IsFiniteSet(S)
  BY FinitePeriods, FS_Subset
<1>2. SumOver(split, S) = OnSetEnd(Plus, 0, split, S)
  BY <1>1, FunctionFoldStep DEF SumOver
<1>3. S = {} => OnSetEnd(Plus, 0, split, S) = 0
  BY DEF OnSetEnd
<1>4. S # {} => LET p == CHOOSE x \in S : TRUE
                IN  OnSetEnd(Plus, 0, split, S) = Plus(split[p], SumOver(split, S \ {p}))
  BY DEF OnSetEnd, SumOver
<1>5. S # {} => LET p == CHOOSE x \in S : TRUE
                IN  SumOver(split, S) = Plus(split[p], SumOver(split, S \ {p}))
  BY <1>2, <1>4
<1>6. S = {} => SumOver(split, S) = 0
  BY <1>2, <1>3
<1> QED BY <1>5, <1>6 DEF Plus

\* Induction over the periods.
LEMMA PeriodInduction ==
    ASSUME NEW good, {} \in good,
           \A S \in SUBSET TOU_PERIODS :
               S # {} /\ S \ {CHOOSE x \in S : TRUE} \in good => S \in good
    PROVE  TOU_PERIODS \in good
<1> DEFINE any(s) == CHOOSE x \in s : TRUE
<1>1. Picks(any, TOU_PERIODS)
  BY DEF Picks
<1>2. Grows(any, TOU_PERIODS, good)
  BY DEF Grows
<1> HIDE DEF any
<1>3. SUBSET TOU_PERIODS \subseteq good
  BY <1>1, <1>2, FinitePeriods, FoldInduction
<1> QED BY <1>3

\* The sum of a day without energy, and what energy in one period adds to it.
LEMMA TotalAdds ==
    ASSUME NEW split \in [TOU_PERIODS -> Nat], NEW p \in TOU_PERIODS, NEW k \in Nat
    PROVE  /\ Total(split) \in Nat /\ Total(NoEnergy) = 0
           /\ Total([split EXCEPT ![p] = @ + k]) = Total(split) + k
<1> DEFINE more == [split EXCEPT ![p] = @ + k]
           good == {S \in SUBSET TOU_PERIODS :
                        /\ SumOver(split, S) \in Nat /\ SumOver(NoEnergy, S) = 0
                        /\ SumOver(more, S) = SumOver(split, S) + IF p \in S THEN k ELSE 0}
<1>1. {} \in good
  <2>1. SumOver(split, {}) = 0 /\ SumOver(NoEnergy, {}) = 0 /\ SumOver(more, {}) = 0
    <3> HIDE DEF more
    <3> QED BY SumStep
  <2> HIDE DEF more
  <2> QED BY <2>1
<1>2. ASSUME NEW S \in SUBSET TOU_PERIODS, S # {}, S \ {CHOOSE x \in S : TRUE} \in good
      PROVE  S \in good
  <2> DEFINE q == CHOOSE x \in S : TRUE
             less == S \ {q}
  <2>1. q \in S /\ q \in TOU_PERIODS
    BY <1>2
  <2>2. /\ SumOver(split, S) = split[q] + SumOver(split, less)
        /\ SumOver(NoEnergy, S) = NoEnergy[q] + SumOver(NoEnergy, less)
        /\ SumOver(more, S) = more[q] + SumOver(more, less)
    <3> HIDE DEF more
    <3> QED BY <1>2, SumStep
  <2>3. /\ SumOver(split, less) \in Nat /\ SumOver(NoEnergy, less) = 0
        /\ SumOver(more, less) = SumOver(split, less) + IF p \in less THEN k ELSE 0
    BY <1>2
  <2>4. less = S \ {q}
    OBVIOUS
  <2>5. /\ split[q] \in Nat /\ NoEnergy[q] = 0
        /\ more[q] = split[q] + IF q = p THEN k ELSE 0
    <3> HIDE DEF q
    <3> QED BY <2>1 DEF NoEnergy
  <2> HIDE DEF q, less, more
  <2>6. p \in S <=> (p \in less \/ p = q)
    BY <2>1, <2>4
  <2>7. SumOver(more, S) = SumOver(split, S) + IF p \in S THEN k ELSE 0
    <3>1. CASE p = q
      BY <2>2, <2>3, <2>4, <2>5, <2>6, <3>1
    <3>2. CASE p # q
      BY <2>2, <2>3, <2>5, <2>6, <3>2
    <3> QED BY <3>1, <3>2
  <2>8. SumOver(split, S) \in Nat /\ SumOver(NoEnergy, S) = 0
    BY <2>2, <2>3, <2>5
  <2> QED BY <2>7, <2>8 DEF more
<1> HIDE DEF good
<1>3. TOU_PERIODS \in good
  BY <1>1, <1>2, PeriodInduction
<1> QED BY <1>3 DEF good, SumOver, Total
-----------------------------------------------------------------------------
(* What the counter says of a day.                                         *)

Start(seed) == IF seed = Missing THEN 0 ELSE seed

\* The levels the counter was seen at.
Levels(R, seed) == {sample[t].meter : t \in RatedOf(R)} \cup {Start(seed)}

\* After the readings S of a day: what has been credited so far brings the counter
\* from where it started to the highest level seen, and this is what the next
\* reading is measured against.
CreditedSoFar(S, seed) ==
    LET acc == FoldTimes(Credit, Opening(seed), S)
        top == Start(seed) + Total(acc.split)
    IN  /\ top \in Levels(S, seed) /\ \A m \in Levels(S, seed) : m <= top
        /\ acc.last = Missing => seed = Missing /\ RatedOf(S) = {}
        /\ acc.last # Missing => acc.last = top

\* One more reading of a day in which the counter does not restart.
LEMMA CreditedOnce ==
    ASSUME sample \in [Times -> Readings], NEW seed \in Meters,
           NEW S \in SUBSET Times, S # {}, NeverRestarts(S, seed),
           CreditedSoFar(S \ {Max(S)}, seed)
    PROVE  CreditedSoFar(S, seed)
<1> DEFINE t == Max(S)
           less == S \ {t}
           acc == FoldTimes(Credit, Opening(seed), less)
           new == FoldTimes(Credit, Opening(seed), S)
           top == Start(seed) + Total(acc.split)
           m == sample[t].meter
<1>1. /\ t \in S /\ \A u \in S : u <= t /\ u \in Nat
      /\ new = Credit(acc, t)
  BY CreditStep, TimesAssumption
<1>2. acc \in Accounts
  BY OpeningType, Credits
<1>3. /\ top \in Levels(less, seed) /\ \A x \in Levels(less, seed) : x <= top
      /\ acc.last = Missing => seed = Missing /\ RatedOf(less) = {}
      /\ acc.last # Missing => acc.last = top
  BY DEF CreditedSoFar
<1>4. Start(seed) \in Nat /\ Total(acc.split) \in Nat
  <2>1. acc.split \in [TOU_PERIODS -> Nat] /\ "on_peak" \in TOU_PERIODS
    BY <1>2 DEF Accounts, TOU_PERIODS
  <2> HIDE DEF acc
  <2>2. Total(acc.split) \in Nat
    BY <2>1, TotalAdds
  <2> QED BY <2>2 DEF Start, Meters, Missing
<1>5. top \in Nat
  BY <1>4
<1>6. less = S \ {t} /\ top = Start(seed) + Total(acc.split) /\ m = sample[t].meter
  OBVIOUS
<1> HIDE DEF t, less, acc, top, m
<1>7. CASE ~Rated(t)
  <2>1. new = acc
    BY <1>1, <1>7, NoCredit
  <2>2. RatedOf(S) = RatedOf(less)
    BY <1>1, <1>6, <1>7 DEF RatedOf
  <2>3. Levels(S, seed) = Levels(less, seed)
    BY <2>2 DEF Levels
  <2> QED BY <1>3, <1>6, <2>1, <2>2, <2>3 DEF CreditedSoFar, acc, t
<1>8. CASE Rated(t)
  <2> DEFINE rise == CounterRise(acc.last, m)
  <2>1. /\ m \in Nat /\ Period[t] \in TOU_PERIODS /\ rise \in Nat
        /\ new \in Accounts
        /\ new.last = Baseline(acc.last, m)
        /\ new.split = [acc.split EXCEPT ![Period[t]] = @ + rise]
    BY <1>1, <1>2, <1>6, <1>8, OneCredit
  <2> HIDE DEF rise, new
  <2>2. Total(new.split) = Total(acc.split) + rise
    <3>1. acc.split \in [TOU_PERIODS -> Nat]
      BY <1>2 DEF Accounts
    <3> QED BY <2>1, <3>1, TotalAdds
  <2>3. RatedOf(S) = RatedOf(less) \cup {t}
    BY <1>1, <1>6, <1>8 DEF RatedOf
  <2>4. Levels(S, seed) = Levels(less, seed) \cup {m}
    BY <1>6, <2>3 DEF Levels
  <2>5. \A x \in Levels(less, seed) : x \in Nat
    <3>1. less \subseteq Times
      BY <1>6
    <3> QED BY <1>4, <3>1 DEF Levels, RatedOf, Rated, Readings, Meters
  <2>6. ~(2 * m < top)
    <3>1. CASE top = Start(seed) /\ seed = Missing
      BY <2>1, <3>1 DEF Start
    <3>2. CASE top = Start(seed) /\ seed # Missing
      <4>1. 2 * m >= seed
        BY <1>1, <1>6, <1>8, <3>2 DEF NeverRestarts
      <4>2. top = seed
        BY <3>2 DEF Start
      <4> QED BY <1>5, <2>1, <4>1, <4>2
    <3>3. CASE top # Start(seed)
      <4>1. PICK u \in RatedOf(less) : top = sample[u].meter
        BY <1>3, <3>3 DEF Levels
      <4>2. u \in S /\ u < t
        BY <1>1, <1>6, <4>1 DEF RatedOf
      <4>3. 2 * m >= top
        BY <1>1, <1>6, <1>8, <4>1, <4>2 DEF NeverRestarts
      <4> QED BY <1>5, <2>1, <4>3
    <3> QED BY <3>1, <3>2, <3>3
  <2>7. /\ new.last = (IF m >= top THEN m ELSE top)
        /\ rise = (IF m >= top THEN m - top ELSE 0)
    <3>1. CASE acc.last = Missing
      <4>1. top = 0
        BY <1>3, <3>1 DEF Levels, Start
      <4>2. new.last = m /\ rise = m
        BY <2>1, <3>1 DEF Baseline, CounterRise, rise
      <4> QED BY <2>1, <4>1, <4>2
    <3>2. CASE acc.last # Missing
      <4>1. acc.last = top
        BY <1>3, <3>2
      <4> QED BY <1>5, <2>1, <2>6, <3>2, <4>1 DEF Baseline, CounterRise, IsCounterReset, rise
    <3> QED BY <3>1, <3>2
  <2>8. Start(seed) + Total(new.split) = new.last
    BY <1>4, <1>5, <1>6, <2>1, <2>2, <2>7
  <2>9. /\ new.last \in Levels(S, seed) /\ new.last # Missing
        /\ \A x \in Levels(S, seed) : x <= new.last
    <3>1. CASE m >= top
      BY <1>3, <1>5, <2>1, <2>4, <2>5, <2>7, <3>1 DEF Missing
    <3>2. CASE ~(m >= top)
      BY <1>3, <1>5, <2>1, <2>4, <2>5, <2>7, <3>2 DEF Missing
    <3> QED BY <3>1, <3>2
  <2> QED BY <2>8, <2>9 DEF CreditedSoFar, new
<1> QED BY <1>7, <1>8

\* While the counter does not restart, the periods of a day sum to what it rose.
LEMMA SplitIsTheRise ==
    ASSUME sample \in [Times -> Readings], NEW seed \in Meters,
           NEW R \in SUBSET Times, NeverRestarts(R, seed)
    PROVE  Total(Split(R, seed)) = CounterTotal(R, seed)
<1> DEFINE good == {S \in SUBSET R : CreditedSoFar(S, seed)}
           acc == FoldTimes(Credit, Opening(seed), R)
<1>1. {} \in good
  <2>1. FoldTimes(Credit, Opening(seed), {}) = Opening(seed)
    BY CreditStep
  <2>2. Total(NoEnergy) = 0
    <3>1. NoEnergy \in [TOU_PERIODS -> Nat] /\ "on_peak" \in TOU_PERIODS
      BY DEF NoEnergy, TOU_PERIODS
    <3> QED BY <3>1, TotalAdds
  <2>3. RatedOf({}) = {} /\ Start(seed) \in Nat
    BY DEF RatedOf, Start, Meters, Missing
  <2>4. Levels({}, seed) = {Start(seed)}
    BY <2>3 DEF Levels
  <2>5. seed # Missing => Start(seed) = seed
    BY DEF Start
  <2>6. CreditedSoFar({}, seed)
    BY <2>1, <2>2, <2>3, <2>4, <2>5 DEF CreditedSoFar, Opening
  <2> QED BY <2>6
<1>2. ASSUME NEW S \in SUBSET R, S # {}, S \ {Max(S)} \in good PROVE S \in good
  <2>1. NeverRestarts(S, seed)
    BY DEF NeverRestarts
  <2>2. CreditedSoFar(S \ {Max(S)}, seed)
    BY <1>2
  <2>3. CreditedSoFar(S, seed)
    BY <1>2, <2>1, <2>2, CreditedOnce
  <2> QED BY <2>3
<1> HIDE DEF good
<1>3. R \in good
  BY <1>1, <1>2, TimesInduction
<1>4. LET top == Start(seed) + Total(acc.split)
      IN  top \in Levels(R, seed) /\ \A m \in Levels(R, seed) : m <= top
  BY <1>3 DEF good, CreditedSoFar
<1>5. Split(R, seed) = acc.split
  BY DEF Split, Opening
<1>6. acc.split \in [TOU_PERIODS -> Nat] /\ "on_peak" \in TOU_PERIODS
  BY OpeningType, Credits DEF Accounts, TOU_PERIODS
<1> HIDE DEF acc
<1>7. Total(acc.split) \in Nat
  BY <1>6, TotalAdds
<1>8. Start(seed) \in Nat
  BY DEF Start, Meters, Missing
<1>9. CounterTotal(R, seed) = Max(Levels(R, seed)) - Start(seed)
  BY DEF CounterTotal, Levels, RatedOf, Start
<1>10. Max(Levels(R, seed)) = Start(seed) + Total(acc.split)
  <2> DEFINE top == Start(seed) + Total(acc.split)
  <2>1. \A m \in Levels(R, seed) : m \in Nat
    BY <1>8 DEF Levels, RatedOf, Rated, Readings, Meters
  <2>2. top \in Levels(R, seed) /\ \A m \in Levels(R, seed) : m <= top
    BY <1>4
  <2> HIDE DEF top
  <2>3. top \in Levels(R, seed) /\ \A m \in Levels(R, seed) : top >= m
    BY <2>1, <2>2
  <2>4. Max(Levels(R, seed)) \in Levels(R, seed)
        /\ \A m \in Levels(R, seed) : Max(Levels(R, seed)) >= m
    BY <2>3 DEF Max
  <2>5. Max(Levels(R, seed)) = top
    BY <2>1, <2>3, <2>4
  <2> QED BY <2>5 DEF top
<1> QED BY <1>5, <1>7, <1>8, <1>9, <1>10
-----------------------------------------------------------------------------
(* The inductive invariant.  Each part is stated of tables given as        *)
(* arguments, so that it can be said of those a step leaves behind.        *)

\* Credit and Split, with the readings as an argument.
CreditOf(readings, acc, t) ==
    IF readings[t].meter = Missing THEN acc
    ELSE [last |-> Baseline(acc.last, readings[t].meter),
          split |-> [acc.split EXCEPT ![Period[t]] =
                        @ + CounterRise(acc.last, readings[t].meter)]]

SplitOf(readings, R, seed) ==
    FoldTimes(LAMBDA acc, t : CreditOf(readings, acc, t), Opening(seed), R).split

\* The split with the readings as an argument is the split.
LEMMA SplitIsOf ==
    ASSUME NEW seed, NEW R \in SUBSET Times
    PROVE  Split(R, seed) = SplitOf(sample, R, seed)
<1> DEFINE credit(acc, t) == CreditOf(sample, acc, t)
           Same(S) == FoldTimes(Credit, Opening(seed), S) = FoldTimes(credit, Opening(seed), S)
           good == {S \in SUBSET R : Same(S)}
<1>1. ASSUME NEW acc, NEW t PROVE Credit(acc, t) = credit(acc, t)
  BY DEF Credit, CreditOf, Rated
<1>2. ASSUME NEW S \in SUBSET R
      PROVE  /\ FoldTimes(Credit, Opening(seed), S) = TimesEnd(Credit, Opening(seed), S)
             /\ FoldTimes(credit, Opening(seed), S) = TimesEnd(credit, Opening(seed), S)
  <2> HIDE DEF credit
  <2> QED BY TimesStep
<1>3. ASSUME NEW S \in SUBSET R
      PROVE  /\ S = {} => /\ FoldTimes(Credit, Opening(seed), S) = Opening(seed)
                          /\ FoldTimes(credit, Opening(seed), S) = Opening(seed)
             /\ S # {} =>
                  /\ FoldTimes(Credit, Opening(seed), S)
                       = Credit(FoldTimes(Credit, Opening(seed), S \ {Max(S)}), Max(S))
                  /\ FoldTimes(credit, Opening(seed), S)
                       = credit(FoldTimes(credit, Opening(seed), S \ {Max(S)}), Max(S))
  <2> HIDE DEF credit
  <2> QED BY <1>2 DEF TimesEnd
<1> HIDE DEF credit
<1>4. {} \in good
  BY <1>3
<1>5. ASSUME NEW S \in SUBSET R, S # {}, S \ {Max(S)} \in good PROVE S \in good
  <2>1. FoldTimes(Credit, Opening(seed), S \ {Max(S)})
          = FoldTimes(credit, Opening(seed), S \ {Max(S)})
    BY <1>5
  <2>2. FoldTimes(Credit, Opening(seed), S) = FoldTimes(credit, Opening(seed), S)
    BY <1>1, <1>3, <1>5, <2>1
  <2> QED BY <2>2
<1> HIDE DEF good
<1>6. R \in good
  BY <1>4, <1>5, TimesInduction
<1>7. SplitOf(sample, R, seed) = FoldTimes(credit, Opening(seed), R).split
  BY DEF SplitOf, credit
<1> QED BY <1>6, <1>7 DEF good, Split, Opening

RollType(f, R) ==
    /\ DOMAIN f \subseteq RowDays(R)
    /\ \A d \in DOMAIN f : f[d] \in [TOU_PERIODS -> Nat]

\* A roll-up is the split of the day's rows, unless readings with a counter wait
\* to be inserted again.  A reading without one makes no difference, so it may
\* wait for ever: an insert rebuilds no day it has no counter for.
Exact(f, R, P) ==
    \A d \in DOMAIN f : RatedOf(InDay(P, d)) = {} =>
        \E seed \in Seeds(d) : f[d] = SplitOf(sample, InDay(R, d), seed)

PeaksCover(f, R, P, Q) ==
    \A t \in R \ P : Lit(t) /\ Day(t) \notin Q => PeakReaches(f, t)

DailyCover(f, R, P) == \A t \in R \ P : Rated(t) => DailyReaches(f, t)

RollupInv ==
    /\ sample \in Samples
    /\ rows \in SUBSET Times /\ pending \in SUBSET rows /\ partial \in SUBSET Days
    /\ RollType(tou, rows) /\ PeakFits(peaks) /\ DailyFits(daily)
    /\ Exact(tou, rows, pending)
    /\ PeaksCover(peaks, rows, pending, partial)
    /\ DailyCover(daily, rows, pending)

\* A day's roll-up that a step leaves as it is; Q and P are the new rows and pending.
RollKept(g, d, Q, P) ==
    /\ d \in DOMAIN tou /\ g[d] = tou[d] /\ d \in RowDays(Q)
    /\ RatedOf(InDay(P, d)) = {} =>
         /\ RatedOf(InDay(pending, d)) = {}
         /\ RatedOf(InDay(Q, d)) = RatedOf(InDay(rows, d))

\* One that it rebuilds.
RollRebuilt(g, d, Q) == d \in RowDays(Q) /\ g[d] = Split(InDay(Q, d), Seed(Q, d))

\* A step that keeps or rebuilds each roll-up leaves them exact.
LEMMA RollsAreExact ==
    ASSUME RollupInv, NEW Q \in SUBSET Times, NEW P, NEW g,
           \A d \in DOMAIN g : RollKept(g, d, Q, P) \/ RollRebuilt(g, d, Q)
    PROVE  RollType(g, Q) /\ Exact(g, Q, P)
<1>1. sample \in [Times -> Readings] /\ rows \in SUBSET Times
  BY SamplesAssumption DEF RollupInv, Readings, Meters
<1>2. ASSUME NEW d PROVE InDay(Q, d) \in SUBSET Times /\ InDay(rows, d) \in SUBSET Times
  BY <1>1 DEF InDay
<1>3. ASSUME NEW d \in DOMAIN g, RollRebuilt(g, d, Q)
      PROVE  /\ d \in RowDays(Q) /\ g[d] \in [TOU_PERIODS -> Nat]
             /\ \E seed \in Seeds(d) : g[d] = SplitOf(sample, InDay(Q, d), seed)
  <2>1. Seed(Q, d) \in Seeds(d) /\ Seed(Q, d) \in Meters
    BY <1>1, SeedIs
  <2>2. g[d] = Split(InDay(Q, d), Seed(Q, d)) /\ d \in RowDays(Q)
    BY <1>3 DEF RollRebuilt
  <2>3. g[d] \in [TOU_PERIODS -> Nat]
    BY <1>1, <1>2, <2>1, <2>2, SplitType
  <2>4. g[d] = SplitOf(sample, InDay(Q, d), Seed(Q, d))
    BY <1>2, <2>2, SplitIsOf
  <2> QED BY <2>1, <2>2, <2>3, <2>4
<1>4. ASSUME NEW d \in DOMAIN g, RollKept(g, d, Q, P)
      PROVE  /\ d \in RowDays(Q) /\ g[d] \in [TOU_PERIODS -> Nat]
             /\ RatedOf(InDay(P, d)) = {} =>
                  \E seed \in Seeds(d) : g[d] = SplitOf(sample, InDay(Q, d), seed)
  <2>1. d \in DOMAIN tou /\ g[d] = tou[d] /\ d \in RowDays(Q)
    BY <1>4 DEF RollKept
  <2>2. g[d] \in [TOU_PERIODS -> Nat]
    BY <2>1 DEF RollupInv, RollType
  <2>3. ASSUME RatedOf(InDay(P, d)) = {}
        PROVE  \E seed \in Seeds(d) : g[d] = SplitOf(sample, InDay(Q, d), seed)
    <3>1. /\ RatedOf(InDay(pending, d)) = {}
          /\ RatedOf(InDay(Q, d)) = RatedOf(InDay(rows, d))
      BY <1>4, <2>3 DEF RollKept
    <3>2. PICK seed \in Seeds(d) : tou[d] = SplitOf(sample, InDay(rows, d), seed)
      BY <2>1, <3>1 DEF RollupInv, Exact
    <3>3. Split(InDay(Q, d), seed) = Split(InDay(rows, d), seed)
      BY <1>2, <3>1, SameSplit
    <3>4. /\ Split(InDay(Q, d), seed) = SplitOf(sample, InDay(Q, d), seed)
          /\ Split(InDay(rows, d), seed) = SplitOf(sample, InDay(rows, d), seed)
      BY <1>2, SplitIsOf
    <3> QED BY <2>1, <3>2, <3>3, <3>4
  <2> QED BY <2>1, <2>2, <2>3
<1> QED BY <1>3, <1>4 DEF RollType, Exact

\* The invariant implies what the runs check.
LEMMA InvSaysSo ==
    ASSUME RollupInv PROVE TypeOK /\ RollupIsTheCounter /\ MaximaCover
<1>1. sample \in [Times -> Readings] /\ rows \in SUBSET Times
  BY SamplesAssumption DEF RollupInv, Readings, Meters
<1>2. TypeOK
  BY DEF RollupInv, TypeOK, RollType, PeakFits, DailyFits
<1>3. ASSUME NEW d \in DOMAIN tou, InDay(pending, d) = {}
      PROVE  /\ InDay(rows, d) \in SUBSET Times
             /\ \E seed \in Seeds(d) : seed \in Meters /\ tou[d] = Split(InDay(rows, d), seed)
  <2>1. RatedOf(InDay(pending, d)) = {}
    BY <1>3 DEF RatedOf
  <2>2. PICK seed \in Seeds(d) : tou[d] = SplitOf(sample, InDay(rows, d), seed)
    BY <2>1 DEF RollupInv, Exact
  <2>3. InDay(rows, d) \in SUBSET Times
    BY <1>1 DEF InDay
  <2>4. seed \in Meters
    BY <1>1, SeedIs
  <2> QED BY <2>2, <2>3, <2>4, SplitIsOf
<1>4. RollupExact
  BY <1>3 DEF RollupExact
<1>5. DayTotalIsCounter
  <2> SUFFICES ASSUME NEW d \in DOMAIN tou, InDay(pending, d) = {},
                      \A seed \in Seeds(d) : NeverRestarts(InDay(rows, d), seed)
               PROVE  \E seed \in Seeds(d) : Total(tou[d]) = CounterTotal(InDay(rows, d), seed)
    BY DEF DayTotalIsCounter
  <2>1. PICK seed \in Seeds(d) : seed \in Meters /\ tou[d] = Split(InDay(rows, d), seed)
    BY <1>3
  <2>2. Total(tou[d]) = CounterTotal(InDay(rows, d), seed)
    BY <1>1, <1>3, <2>1, SplitIsTheRise
  <2> QED BY <2>2
<1>6. MaximaCover
  BY DEF RollupInv, PeaksCover, DailyCover, PeakReaches, DailyReaches,
         MaximaCover, PeakCovers, DailyCovers
<1> QED BY <1>2, <1>4, <1>5, <1>6 DEF RollupIsTheCounter

-----------------------------------------------------------------------------
(* The steps.                                                              *)

\* Days of readings.
LEMMA DaysOf ==
    ASSUME NEW R \in SUBSET Times
    PROVE  /\ RowDays(R) \in SUBSET Days /\ RowDays(R) \in SUBSET Nat
           /\ \A D \in SUBSET RowDays(R) : D # {} => Max(D) \in D
<1>1. RowDays(R) \in SUBSET Days
  BY DEF RowDays, Days
<1>2. \A t \in R : t \in Nat
  BY TimesAssumption
<1>3. \A t \in Nat : Day(t) \in Nat /\ Day(t) <= t
  BY DEF Day
<1>4. RowDays(R) \in SUBSET Nat
  BY <1>2, <1>3 DEF RowDays
<1>5. ASSUME NEW D \in SUBSET RowDays(R), D # {} PROVE Max(D) \in D
  <2>1. R # {} /\ D \in SUBSET Nat
    BY <1>4, <1>5 DEF RowDays
  <2>2. Max(R) \in Nat /\ \A t \in R : t <= Max(R)
    BY <1>2, <2>1, Finite
  <2>3. D \subseteq 0..Max(R)
    BY <1>2, <1>3, <2>2 DEF RowDays
  <2>4. IsFiniteSet(D)
    <3>1. IsFiniteSet(0..Max(R))
      BY <2>2, FS_Interval
    <3> QED BY <2>3, <3>1, FS_Subset
  <2> QED BY <1>5, <2>1, <2>4, GreatestOf
<1> QED BY <1>1, <1>4, <1>5

\* What a recomputation of some days leaves: those rebuilt, the others as they were.
KeepsOrRebuilds(g, f, days, R) ==
    \A d \in DOMAIN g : IF d \in days THEN RollRebuilt(g, d, R)
                        ELSE d \in DOMAIN f /\ g[d] = f[d]

LEMMA Recomputed ==
    ASSUME NEW f, NEW days, NEW R
    PROVE  KeepsOrRebuilds(RecomputeTou(f, days, R), f, days, R)
BY DEF RecomputeTou, RollRebuilt, KeepsOrRebuilds

\* The invariant of the next state, from that of the tables it is made of.
LEMMA NextInv ==
    ASSUME RollupInv, sample' = sample,
           rows' \in SUBSET Times, pending' \in SUBSET rows', partial' \in SUBSET Days,
           RollType(tou', rows'), PeakFits(peaks'), DailyFits(daily'),
           Exact(tou', rows', pending'),
           PeaksCover(peaks', rows', pending', partial'),
           DailyCover(daily', rows', pending')
    PROVE  RollupInv'
<1>1. RollType(tou, rows)'
  BY DEF RollType, RowDays
<1>2. PeakFits(peaks)' /\ DailyFits(daily)'
  BY DEF PeakFits, DailyFits, Lit
<1>3. Exact(tou, rows, pending)'
  BY DEF Exact, InDay, RatedOf, Rated, Seeds, Lookback
<1>4. PeaksCover(peaks, rows, pending, partial)'
  BY DEF PeaksCover, PeakReaches, Lit
<1>5. DailyCover(daily, rows, pending)'
  BY DEF DailyCover, DailyReaches, Rated
<1> QED BY <1>1, <1>2, <1>3, <1>4, <1>5 DEF RollupInv

\* A day that keeps its roll-up, when a step adds rows and no reading of the day
\* with a counter that is not left pending.
LEMMA KeptByInsert ==
    ASSUME RollupInv, NEW S \in SUBSET Times, NEW P, NEW g, NEW d \in DOMAIN tou, g[d] = tou[d],
           RatedOf(InDay(P, d)) = {} =>
               /\ RatedOf(InDay(pending, d)) = {}
               /\ RatedOf(InDay(S, d)) \subseteq rows
    PROVE  RollKept(g, d, rows \cup S, P)
<1>1. d \in RowDays(rows \cup S)
  <2>1. d \in RowDays(rows)
    BY DEF RollupInv, RollType
  <2> QED BY <2>1 DEF RowDays
<1>2. RatedOf(InDay(S, d)) \subseteq rows =>
        RatedOf(InDay(rows \cup S, d)) = RatedOf(InDay(rows, d))
  BY DEF RatedOf, InDay
<1> QED BY <1>1, <1>2 DEF RollKept

\* The types that the steps need of the invariant.
LEMMA InvTypes ==
    ASSUME RollupInv
    PROVE  /\ sample \in [Times -> Readings]
           /\ rows \in SUBSET Times /\ pending \in SUBSET rows /\ partial \in SUBSET Days
           /\ PeakFits(peaks) /\ DailyFits(daily)
BY SamplesAssumption DEF RollupInv, Readings, Meters

LEMMA InitInv == Init => RollupInv
<1> SUFFICES ASSUME Init PROVE RollupInv
  OBVIOUS
<1>1. /\ sample \in Samples /\ sample \in [Times -> Readings]
      /\ rows \in SUBSET Times /\ pending = {} /\ tou = Empty
  BY SamplesAssumption DEF Init, Readings, Meters
<1>2. DOMAIN Empty = {}
  BY DEF Empty
<1>3. PeakFits(Empty) /\ DailyFits(Empty)
  BY <1>2 DEF PeakFits, DailyFits
<1>4. DailyFits(daily) /\ DailyCover(daily, rows, pending)
  <2>1. daily = FoldTimes(RaiseDaily, Empty, rows)
    BY DEF Init
  <2>2. DailyFits(daily) /\ \A t \in rows : Rated(t) => DailyReaches(daily, t)
    BY <1>1, <1>3, <2>1, Dailies
  <2> QED BY <2>2 DEF DailyCover
<1>5. /\ partial \in SUBSET Days /\ PeakFits(peaks)
      /\ PeaksCover(peaks, rows, pending, partial)
  <2>1. CASE peaks = FoldTimes(RaisePeak, Empty, rows) /\ partial = {}
    <3>1. PeakFits(peaks) /\ \A t \in rows : Lit(t) => PeakReaches(peaks, t)
      BY <1>1, <1>3, <2>1, Peaks
    <3> QED BY <2>1, <3>1 DEF PeaksCover
  <2>2. CASE peaks = Empty /\ partial = RowDays({t \in rows : Lit(t)})
    <3>1. \A t \in rows : Lit(t) => Day(t) \in partial
      BY <2>2 DEF RowDays
    <3>2. partial \in SUBSET Days
      BY <1>1, <2>2 DEF RowDays, Days
    <3> QED BY <1>3, <2>2, <3>1, <3>2 DEF PeaksCover
  <2> QED BY <2>1, <2>2 DEF Init
<1>6. RollType(tou, rows) /\ Exact(tou, rows, pending)
  BY <1>1, <1>2 DEF RollType, Exact
<1> QED BY <1>1, <1>4, <1>5, <1>6 DEF RollupInv

\* The tables of maxima after an insert, which may have failed on the way.
LEMMA MaximaAfterInsert ==
    ASSUME RollupInv, NEW S \in SUBSET Times, NEW done \in SUBSET S, NEW P,
           \A t \in (rows \cup S) \ P : t \in rows \ pending \/ t \in done
    PROVE  LET f == FoldTimes(RaisePeak, peaks, done)
               g == FoldTimes(RaiseDaily, daily, done)
           IN  /\ PeakFits(f) /\ PeaksCover(f, rows \cup S, P, partial)
               /\ DailyFits(g) /\ DailyCover(g, rows \cup S, P)
<1> DEFINE f == FoldTimes(RaisePeak, peaks, done)
           g == FoldTimes(RaiseDaily, daily, done)
<1>1. /\ PeakFits(f) /\ \A t \in done : Lit(t) => PeakReaches(f, t)
      /\ \A u \in Times : PeakReaches(peaks, u) => PeakReaches(f, u)
  BY InvTypes, Peaks
<1>2. /\ DailyFits(g) /\ \A t \in done : Rated(t) => DailyReaches(g, t)
      /\ \A u \in Times : DailyReaches(daily, u) => DailyReaches(g, u)
  BY InvTypes, Dailies
<1> HIDE DEF f, g
<1>3. PeaksCover(f, rows \cup S, P, partial)
  BY <1>1, InvTypes DEF PeaksCover, RollupInv
<1>4. DailyCover(g, rows \cup S, P)
  BY <1>2, InvTypes DEF DailyCover, RollupInv
<1> QED BY <1>1, <1>2, <1>3, <1>4 DEF f, g

\* An insert rebuilds the days it has counters for, and adds to the others only
\* readings that make no difference to a split.
LEMMA InsertKeepsInv ==
    ASSUME RollupInv, NEW S \in SUBSET Times, InsertSnapshots(S) PROVE RollupInv'
<1>1. /\ rows' = rows \cup S /\ pending' = pending \ S
      /\ partial' = partial /\ sample' = sample
      /\ peaks' = FoldTimes(RaisePeak, peaks, S)
      /\ daily' = FoldTimes(RaiseDaily, daily, S)
      /\ tou' = RecomputeTou(tou, TouDaysFor(S), rows')
  BY DEF InsertSnapshots
<1>2. rows' \in SUBSET Times /\ pending' \in SUBSET rows' /\ partial' \in SUBSET Days
  BY <1>1, InvTypes
<1>3. /\ PeakFits(peaks') /\ PeaksCover(peaks', rows', pending', partial')
      /\ DailyFits(daily') /\ DailyCover(daily', rows', pending')
  <2>1. \A t \in (rows \cup S) \ pending' : t \in rows \ pending \/ t \in S
    BY <1>1
  <2> QED BY <1>1, <2>1, MaximaAfterInsert
<1>4. \A d \in DOMAIN tou' : RollKept(tou', d, rows', pending') \/ RollRebuilt(tou', d, rows')
  <2> DEFINE days == TouDaysFor(S)
             f == RecomputeTou(tou, days, rows')
  <2>1. KeepsOrRebuilds(f, tou, days, rows')
    <3> HIDE DEF days
    <3> QED BY Recomputed
  <2>2. tou' = f
    BY <1>1
  <2> HIDE DEF f
  <2> SUFFICES ASSUME NEW d \in DOMAIN tou', d \notin days
               PROVE  RollKept(tou', d, rows', pending')
    BY <2>1, <2>2 DEF KeepsOrRebuilds
  <2>3. d \in DOMAIN tou /\ tou'[d] = tou[d]
    BY <2>1, <2>2 DEF KeepsOrRebuilds
  <2>4. RatedOf(InDay(S, d)) = {}
    BY DEF RatedOf, InDay, TouDaysFor
  <2>5. RatedOf(InDay(pending', d)) = {} => RatedOf(InDay(pending, d)) = {}
    BY <1>1, <2>4 DEF RatedOf, InDay
  <2> QED BY <1>1, <2>3, <2>4, <2>5, KeptByInsert
<1>5. RollType(tou', rows') /\ Exact(tou', rows', pending')
  BY <1>2, <1>4, RollsAreExact
<1> QED BY <1>1, <1>2, <1>3, <1>5, NextInv

\* A roll-up survives a failure as it was: what the failure added is pending.
LEMMA KeptByFailure ==
    ASSUME RollupInv, NEW S \in SUBSET Times, NEW g, NEW d \in DOMAIN tou, g[d] = tou[d]
    PROVE  RollKept(g, d, rows \cup S, pending \cup (S \ rows))
<1> DEFINE P == pending \cup (S \ rows)
<1>1. RatedOf(InDay(P, d)) = {} =>
        RatedOf(InDay(pending, d)) = {} /\ RatedOf(InDay(S, d)) \subseteq rows
  BY DEF RatedOf, InDay
<1> HIDE DEF P
<1>2. RollKept(g, d, rows \cup S, P)
  BY <1>1, KeptByInsert
<1> QED BY <1>2 DEF P

\* A failed insert touches no roll-up; what it added is pending.
LEMMA FailureKeepsInv ==
    ASSUME RollupInv, NEW S \in SUBSET Times, NEW torn, InsertFails(S, torn)
    PROVE  RollupInv'
<1> DEFINE done == IF torn THEN S \ {Max(S)} ELSE S
<1>1. /\ rows' = rows \cup S /\ pending' = pending \cup (S \ rows)
      /\ partial' = partial /\ sample' = sample /\ tou' = tou
      /\ peaks' = FoldTimes(RaisePeak, peaks, done)
      /\ daily' = FoldTimes(RaiseDaily, daily, done)
  BY DEF InsertFails
<1>2. done \in SUBSET S
  OBVIOUS
<1> HIDE DEF done
<1>3. rows' \in SUBSET Times /\ pending' \in SUBSET rows' /\ partial' \in SUBSET Days
  BY <1>1, InvTypes
<1>4. /\ PeakFits(peaks') /\ PeaksCover(peaks', rows', pending', partial')
      /\ DailyFits(daily') /\ DailyCover(daily', rows', pending')
  <2>1. \A t \in (rows \cup S) \ pending' : t \in rows \ pending \/ t \in done
    BY <1>1
  <2> QED BY <1>1, <1>2, <2>1, MaximaAfterInsert
<1>5. \A d \in DOMAIN tou' : RollKept(tou', d, rows', pending')
  BY <1>1, KeptByFailure
<1>6. RollType(tou', rows') /\ Exact(tou', rows', pending')
  BY <1>3, <1>5, RollsAreExact
<1> QED BY <1>1, <1>3, <1>4, <1>6, NextInv

\* A failed roll-up leaves days rebuilt, as they were, or without one.
LEMMA RollupFailureKeepsInv ==
    ASSUME RollupInv, NEW S \in SUBSET Times, NEW d, NEW deleted, RollupFails(S, d, deleted)
    PROVE  RollupInv'
<1> DEFINE earlier == {x \in TouDaysFor(S) : x < d}
           f == RecomputeTou(tou, earlier, rows')
<1>1. /\ rows' = rows \cup S /\ pending' = pending \cup (S \ rows)
      /\ partial' = partial /\ sample' = sample /\ tou' = Without(f, deleted)
      /\ peaks' = FoldTimes(RaisePeak, peaks, S)
      /\ daily' = FoldTimes(RaiseDaily, daily, S)
  BY DEF RollupFails
<1>2. KeepsOrRebuilds(f, tou, earlier, rows')
  <2> HIDE DEF earlier
  <2> QED BY Recomputed
<1> HIDE DEF earlier, f
<1>3. rows' \in SUBSET Times /\ pending' \in SUBSET rows' /\ partial' \in SUBSET Days
  BY <1>1, InvTypes
<1>4. /\ PeakFits(peaks') /\ PeaksCover(peaks', rows', pending', partial')
      /\ DailyFits(daily') /\ DailyCover(daily', rows', pending')
  <2>1. \A t \in (rows \cup S) \ pending' : t \in rows \ pending \/ t \in S
    BY <1>1
  <2> QED BY <1>1, <2>1, MaximaAfterInsert
<1>5. ASSUME NEW e \in DOMAIN tou'
      PROVE  RollKept(tou', e, rows', pending') \/ RollRebuilt(tou', e, rows')
  <2>1. e \in DOMAIN f /\ tou'[e] = f[e]
    BY <1>1 DEF Without
  <2>2. CASE e \in earlier
    <3>1. RollRebuilt(f, e, rows')
      BY <1>2, <2>1, <2>2 DEF KeepsOrRebuilds
    <3> QED BY <2>1, <3>1 DEF RollRebuilt
  <2>3. CASE e \notin earlier
    BY <1>1, <1>2, <2>1, <2>3, KeptByFailure DEF KeepsOrRebuilds
  <2> QED BY <2>2, <2>3
<1>6. RollType(tou', rows') /\ Exact(tou', rows', pending')
  BY <1>3, <1>5, RollsAreExact
<1> QED BY <1>1, <1>3, <1>4, <1>6, NextInv

\* Hours come in days.
LEMMA HoursOfDays ==
    /\ \A t \in Nat : Day(t) \in Nat /\ 24 * Day(t) <= t
    /\ \A t \in Nat : UtcDay(t) \in Nat
    /\ \A c, t \in Nat : c <= t => UtcDay(c) <= UtcDay(t)
<1>1. UtcShift \in Nat
  BY ClockAssumption
<1> QED BY <1>1 DEF Day, UtcDay

\* Retention keeps a roll-up only of days it takes no reading of, a counter of
\* every day it leaves a reading of, and a peak unless it took the peak's reading.
LEMMA PruneKeepsInv ==
    ASSUME RollupInv, NEW cutoff \in Cutoffs, PruneOlder(cutoff) PROVE RollupInv'
<1> DEFINE gone == {d \in DOMAIN peaks : peaks[d] < cutoff}
           left == {t \in rows : t >= cutoff}
<1>1. /\ rows' = left /\ pending' = pending \cap left /\ sample' = sample
      /\ partial' = (partial \cup gone) \cap RowDays({t \in left : Lit(t)})
      /\ peaks' = Without(peaks, gone) /\ daily' = Without(daily, CountedBefore(cutoff))
      /\ tou' = Without(tou, RolledBefore(cutoff))
  BY DEF PruneOlder
<1>2. cutoff \in Nat /\ \A t \in Times : t \in Nat
  BY TimesAssumption
<1>3. left \in SUBSET rows /\ \A t \in left : t >= cutoff
  OBVIOUS
<1>4. /\ rows' \in SUBSET Times /\ pending' \in SUBSET rows' /\ partial' \in SUBSET Days
  <2>1. RowDays({t \in left : Lit(t)}) \in SUBSET Days
    BY InvTypes DEF RowDays, Days
  <2> QED BY <1>1, <2>1, InvTypes
<1>5. PeakFits(peaks') /\ DailyFits(daily')
  BY <1>1, InvTypes DEF PeakFits, DailyFits, Without
<1>6. PeaksCover(peaks', rows', pending', partial')
  <2> SUFFICES ASSUME NEW t \in rows', t \notin pending', Lit(t), Day(t) \notin partial'
               PROVE  PeakReaches(peaks', t)
    BY DEF PeaksCover
  <2>1. Day(t) \in RowDays({u \in left : Lit(u)})
    BY <1>1 DEF RowDays
  <2>2. Day(t) \notin partial /\ Day(t) \notin gone
    BY <1>1, <2>1
  <2>3. PeakReaches(peaks, t)
    BY <1>1, <2>2 DEF RollupInv, PeaksCover
  <2> QED BY <1>1, <2>2, <2>3 DEF PeakReaches, Without
<1>7. DailyCover(daily', rows', pending')
  <2> SUFFICES ASSUME NEW t \in rows', t \notin pending', Rated(t)
               PROVE  DailyReaches(daily', t)
    BY DEF DailyCover
  <2>1. DailyReaches(daily, t)
    BY <1>1 DEF RollupInv, DailyCover
  <2>2. t \in Nat /\ cutoff <= t
    BY <1>1, <1>2, InvTypes
  <2>3. UtcDay(t) \notin CountedBefore(cutoff)
    BY <1>2, <2>2, HoursOfDays DEF CountedBefore
  <2> QED BY <1>1, <2>1, <2>3 DEF DailyReaches, Without
<1>8. ASSUME NEW d \in DOMAIN tou' PROVE RollKept(tou', d, rows', pending')
  <2>1. d \in DOMAIN tou /\ tou'[d] = tou[d] /\ ~(24 * d < cutoff)
    BY <1>1 DEF Without, RolledBefore
  <2>2. \A t \in rows : Day(t) = d => t \in left
    <3> SUFFICES ASSUME NEW t \in rows, Day(t) = d PROVE t >= cutoff
      OBVIOUS
    <3>1. t \in Nat /\ d \in Nat /\ 24 * d <= t
      BY <1>2, InvTypes, HoursOfDays
    <3> QED BY <1>2, <2>1, <3>1
  <2>3. d \in RowDays(rows)
    BY <2>1 DEF RollupInv, RollType
  <2>4. d \in RowDays(rows')
    BY <1>1, <2>2, <2>3 DEF RowDays
  <2>5. InDay(rows', d) = InDay(rows, d) /\ InDay(pending', d) = InDay(pending, d)
    BY <1>1, <1>3, <2>2, InvTypes DEF InDay
  <2> QED BY <2>1, <2>4, <2>5 DEF RollKept
<1>9. RollType(tou', rows') /\ Exact(tou', rows', pending')
  BY <1>4, <1>8, RollsAreExact
<1> QED BY <1>1, <1>4, <1>5, <1>6, <1>7, <1>9, NextInv

LEMMA PurgeKeepsInv == ASSUME RollupInv, PurgeAll PROVE RollupInv'
<1>1. /\ rows' = {} /\ tou' = Empty /\ peaks' = Empty /\ daily' = Empty
      /\ pending' = {} /\ partial' = {} /\ sample' = sample
  BY DEF PurgeAll
<1>2. DOMAIN Empty = {}
  BY DEF Empty
<1>3. /\ RollType(tou', rows') /\ Exact(tou', rows', pending')
      /\ PeakFits(peaks') /\ DailyFits(daily')
      /\ PeaksCover(peaks', rows', pending', partial') /\ DailyCover(daily', rows', pending')
  BY <1>1, <1>2 DEF RollType, Exact, PeakFits, DailyFits, PeaksCover, DailyCover
<1> QED BY <1>1, <1>3, NextInv

LEMMA BackfillTouKeepsInv == ASSUME RollupInv, BackfillTou PROVE RollupInv'
<1> DEFINE days == {Max(UnrolledDays)}
           f == RecomputeTou(tou, days, rows)
<1>1. UNCHANGED <<sample, rows, peaks, daily, pending, partial>> /\ tou' = f
  BY DEF BackfillTou
<1> HIDE DEF days
<1>2. KeepsOrRebuilds(f, tou, days, rows)
  BY Recomputed
<1> HIDE DEF f
<1>3. \A d \in DOMAIN f : RollKept(f, d, rows, pending) \/ RollRebuilt(f, d, rows)
  BY <1>2 DEF KeepsOrRebuilds, RollKept, RollupInv, RollType
<1>4. RollType(f, rows) /\ Exact(f, rows, pending)
  BY <1>3, InvTypes, RollsAreExact
<1>5. PeaksCover(peaks, rows, pending, partial) /\ DailyCover(daily, rows, pending)
  BY DEF RollupInv
<1> QED BY <1>1, <1>4, <1>5, InvTypes, NextInv

\* A backfilled peak is the strongest of all readings of the day.
LEMMA BackfillPeaksKeepsInv == ASSUME RollupInv, BackfillPeaks PROVE RollupInv'
<1> DEFINE day == Max(DaysWithoutPeak)
           R == {t \in InDay(rows, day) : Lit(t)}
           f == With(peaks, day, Strongest(R))
<1>1. /\ UNCHANGED <<sample, rows, tou, daily, pending>>
      /\ peaks' = f /\ partial' = partial \ {day} /\ DaysWithoutPeak # {}
  BY DEF BackfillPeaks
<1>2. day \in RowDays({t \in rows : Lit(t)})
  <2>1. {t \in rows : Lit(t)} \in SUBSET Times
    BY InvTypes
  <2>2. DaysWithoutPeak \in SUBSET RowDays({t \in rows : Lit(t)})
    BY DEF DaysWithoutPeak
  <2> QED BY <1>1, <2>1, <2>2, DaysOf
<1> HIDE DEF day
<1>3. R \in SUBSET Times /\ R # {}
  BY <1>2, InvTypes DEF RowDays, InDay
<1>4. /\ Strongest(R) \in R
      /\ \A u \in R : sample[u].power <= sample[Strongest(R)].power
  BY <1>3, InvTypes, StrongestOf
<1>5. Strongest(R) \in Times /\ Day(Strongest(R)) = day /\ Lit(Strongest(R))
  BY <1>3, <1>4 DEF InDay
<1>6. /\ DOMAIN f = DOMAIN peaks \cup {day} /\ f[day] = Strongest(R)
      /\ \A d \in DOMAIN peaks : d # day => f[d] = peaks[d]
  BY DEF With
<1> HIDE DEF f
<1>7. PeakFits(f)
  BY <1>5, <1>6, InvTypes DEF PeakFits
<1>8. PeaksCover(f, rows, pending, partial')
  <2> SUFFICES ASSUME NEW t \in rows \ pending, Lit(t), Day(t) \notin partial'
               PROVE  PeakReaches(f, t)
    BY DEF PeaksCover
  <2>1. CASE Day(t) = day
    BY <1>4, <1>6, <2>1 DEF PeakReaches, InDay
  <2>2. CASE Day(t) # day
    <3>1. PeakReaches(peaks, t)
      BY <1>1, <2>2 DEF RollupInv, PeaksCover
    <3> QED BY <1>6, <2>2, <3>1 DEF PeakReaches
  <2> QED BY <2>1, <2>2
<1>9. /\ RollType(tou, rows) /\ Exact(tou, rows, pending) /\ DailyCover(daily, rows, pending)
  BY DEF RollupInv
<1>10. partial' \in SUBSET Days
  BY <1>1, InvTypes
<1> QED BY <1>1, <1>7, <1>8, <1>9, <1>10, InvTypes, NextInv

LEMMA StepInv == ASSUME RollupInv, [Next]_vars PROVE RollupInv'
<1>1. ASSUME NEW S \in Pages, InsertSnapshots(S) PROVE RollupInv'
  BY <1>1, InsertKeepsInv DEF Pages
<1>2. ASSUME NEW S \in Pages, NEW torn \in BOOLEAN, InsertFails(S, torn) PROVE RollupInv'
  BY <1>2, FailureKeepsInv DEF Pages
<1>3. CASE RollupRaises
  BY <1>3, RollupFailureKeepsInv DEF RollupRaises, Pages
<1>4. ASSUME NEW cutoff \in Cutoffs, PruneOlder(cutoff) PROVE RollupInv'
  BY <1>4, PruneKeepsInv
<1>5. CASE PurgeAll
  BY <1>5, PurgeKeepsInv
<1>6. CASE BackfillTou
  BY <1>6, BackfillTouKeepsInv
<1>7. CASE BackfillPeaks
  BY <1>7, BackfillPeaksKeepsInv
<1>8. CASE UNCHANGED vars
  <2>1. /\ UNCHANGED <<sample, rows, tou, peaks, daily, pending, partial>>
    BY <1>8 DEF vars
  <2>2. /\ RollType(tou, rows) /\ Exact(tou, rows, pending) /\ DailyCover(daily, rows, pending)
        /\ PeaksCover(peaks, rows, pending, partial)
    BY DEF RollupInv
  <2> QED BY <2>1, <2>2, InvTypes, NextInv
<1> QED BY <1>1, <1>2, <1>3, <1>4, <1>5, <1>6, <1>7, <1>8 DEF Next

LEMMA AlwaysInv == Spec => []RollupInv
BY InitInv, StepInv, PTL DEF Spec

-----------------------------------------------------------------------------
(* What holds of every archive.                                            *)

\* The tables keep their shape: a roll-up is of a day with readings, a peak is a
\* lit reading of its day, and a failed insert leaves nothing but rows behind
\* (insert_snapshots, prune_older_than_days, purge_all).
THEOREM RollupTypesCorrect == Spec => []TypeOK
BY AlwaysInv, InvSaysSo, PTL

\* Whatever is inserted live, replayed or repeated, fails half-way, is pruned, purged
\* or backfilled: a day's roll-up is the split of the readings stored of it, and sums
\* to what the counter rose unless the counter restarted (_recompute_tou_day_locked).
THEOREM RollupsAreTheCounter == Spec => []RollupIsTheCounter
BY AlwaysInv, InvSaysSo, PTL

\* In every such history a day's peak and a UTC day's counter are at least what each
\* reading stored of the day says (_upsert_solar_peak_locked,
\* _upsert_daily_energy_locked, prune_older_than_days, backfill_solar_peaks).
THEOREM MaximaAreCovered == Spec => []MaximaCover
BY AlwaysInv, InvSaysSo, PTL

-----------------------------------------------------------------------------
(* The days without on-peak hours, which the splits are made by (Tariff).  *)

\* The day a leap year has more.
Leap(year) == IF (year % 4 = 0 /\ year % 100 # 0) \/ year % 400 = 0 THEN 1 ELSE 0

\* The days of a year that holidays hang on, from its first.
LEMMA DaysOfYear ==
    ASSUME NEW year \in Nat \ {0}
    PROVE  LET first == Ordinal(year, 1, 1)
           IN /\ first \in Int
              /\ Leap(year) \in 0..1
              /\ Ordinal(year, 5, 1) = first + 120 + Leap(year)
              /\ Ordinal(year, 6, 1) = first + 151 + Leap(year)
              /\ Ordinal(year, 7, 4) = first + 184 + Leap(year)
              /\ Ordinal(year, 9, 1) = first + 243 + Leap(year)
              /\ Ordinal(year, 11, 1) = first + 304 + Leap(year)
              /\ Ordinal(year, 12, 25) = first + 358 + Leap(year)
  BY SMTT(30) DEF Ordinal, Leap

\* A year has 365 days or 366, and the next one begins after its last.
LEMMA YearsFollow ==
    ASSUME NEW year \in Nat \ {0}
    PROVE  Ordinal(year + 1, 1, 1) = Ordinal(year, 1, 1) + 365 + Leap(year)
<1>1. year \div 4 = (year - 1) \div 4 + IF year % 4 = 0 THEN 1 ELSE 0
  BY SMTT(30)
<1>2. year \div 100 = (year - 1) \div 100 + IF year % 100 = 0 THEN 1 ELSE 0
  BY SMTT(30)
<1>3. year \div 400 = (year - 1) \div 400 + IF year % 400 = 0 THEN 1 ELSE 0
  BY SMTT(30)
<1>4. (year % 400 = 0 => year % 100 = 0) /\ (year % 100 = 0 => year % 4 = 0)
  BY SMTT(30)
<1> QED BY <1>1, <1>2, <1>3, <1>4, SMTT(30) DEF Ordinal, Leap

\* Years do not overlap.
LEMMA LaterYears ==
    ASSUME NEW year \in Nat \ {0}, NEW later \in Nat \ {0}, year < later
    PROVE  Ordinal(year + 1, 1, 1) <= Ordinal(later, 1, 1)
  BY SMTT(30) DEF Ordinal

\* The holidays of fixed date, as month and day.
FixedHolidays == {<<1, 1>>, <<7, 4>>, <<12, 25>>}

CalendarYear(year) == Ordinal(year, 1, 1)..(Ordinal(year + 1, 1, 1) - 1)

\* A holiday is observed at most a day away, from Monday to Friday.
LEMMA ObservedNear ==
    ASSUME NEW day \in Int
    PROVE  /\ Observed(day) \in {day - 1, day, day + 1} /\ Weekday(Observed(day)) \in 0..4
           /\ Observed(day) = day - 1 => Weekday(Observed(day)) = 4
  BY SMTT(30) DEF Observed, Weekday

\* The holidays that are given by weekday lie in their months.
LEMMA HolidaysWithin ==
    ASSUME NEW year \in Nat \ {0}
    PROVE  LET first == Ordinal(year, 1, 1)
           IN /\ LastWeekdayOf(year, 5, 0) \in (first + 144)..(first + 151)
              /\ NthWeekdayOf(year, 9, 0, 1) \in (first + 243)..(first + 250)
              /\ NthWeekdayOf(year, 11, 3, 4) \in (first + 325)..(first + 332)
<1>1. PICK first \in Int, leap \in 0..1 :
        /\ first = Ordinal(year, 1, 1) /\ leap = Leap(year)
        /\ Ordinal(year, 6, 1) = first + 151 + leap
        /\ Ordinal(year, 9, 1) = first + 243 + leap
        /\ Ordinal(year, 11, 1) = first + 304 + leap
  BY DaysOfYear
<1>2. \E a \in Int : a = first + 150 + leap /\ LastWeekdayOf(year, 5, 0) = a - ((Weekday(a) - 0) % 7)
  <2>1. /\ 5 # 12 /\ 5 + 1 = 6
        /\ Ordinal(year, 6, 1) - 1 = first + 150 + leap /\ first + 150 + leap \in Int
    BY <1>1
  <2>2. LastWeekdayOf(year, 5, 0)
          = (Ordinal(year, 6, 1) - 1) - ((Weekday(Ordinal(year, 6, 1) - 1) - 0) % 7)
    BY <2>1, Zenon DEF LastWeekdayOf
  <2> QED BY <2>1, <2>2, Zenon
<1>3. NthWeekdayOf(year, 9, 0, 1) = first + 243 + leap + ((0 - Weekday(first + 243 + leap)) % 7) + 7 * (1 - 1)
  BY <1>1 DEF NthWeekdayOf
<1>4. NthWeekdayOf(year, 11, 3, 4) = first + 304 + leap + ((3 - Weekday(first + 304 + leap)) % 7) + 7 * (4 - 1)
  BY <1>1 DEF NthWeekdayOf
<1>5. \A a \in Int : Weekday(a) \in Int
  BY DEF Weekday
<1>6. \A a \in Int : a % 7 \in 0..6
  OBVIOUS
<1> QED BY <1>1, <1>2, <1>3, <1>4, <1>5, <1>6, SMTT(30)

\* A holiday of fixed date is off-peak on the day on which it is observed exactly if
\* that day is of its own year, and New Year's Day on a Saturday is the only one of
\* which it is not (is_off_peak_day, observed_holidays).
THEOREM HolidaysAreOffPeak ==
    ASSUME NEW year \in Nat \ {0}, NEW today \in CalendarYear(year),
           NEW y \in Nat \ {0}, NEW h \in FixedHolidays, today = Observed(Ordinal(y, h[1], h[2]))
    PROVE  /\ y = year \/ (y = year + 1 /\ h = <<1, 1>> /\ Weekday(Ordinal(y, 1, 1)) = 5)
           /\ (y = year) <=> \A hour \in 0..23 : PeriodFor(today, year, hour) # "on_peak"
<1> DEFINE first == Ordinal(year, 1, 1)
           own == Ordinal(y, h[1], h[2])
<1>1. /\ first \in Int /\ Leap(year) \in 0..1 /\ Ordinal(year + 1, 1, 1) = first + 365 + Leap(year)
      /\ Ordinal(y, 1, 1) \in Int /\ Leap(y) \in 0..1
      /\ Ordinal(y + 1, 1, 1) = Ordinal(y, 1, 1) + 365 + Leap(y)
  BY DaysOfYear, YearsFollow
<1>2. today \in Int /\ first <= today /\ today < first + 365 + Leap(year)
  BY <1>1 DEF CalendarYear
<1>3. /\ own \in Int /\ Ordinal(y, 1, 1) <= own /\ own <= Ordinal(y, 1, 1) + 359
      /\ h = <<1, 1>> \/ own >= Ordinal(y, 1, 1) + 184
      /\ h = <<1, 1>> => own = Ordinal(y, 1, 1)
  <2>1. CASE h = <<1, 1>>
    BY <1>1, <2>1
  <2>2. CASE h = <<7, 4>>
    BY <1>1, <2>2, DaysOfYear
  <2>3. CASE h = <<12, 25>>
    BY <1>1, <2>3, DaysOfYear
  <2> QED BY <2>1, <2>2, <2>3 DEF FixedHolidays
<1>4. today \in {own - 1, own, own + 1} /\ Weekday(today) \in 0..4
  BY <1>3, ObservedNear
<1>5. y = year \/ (y = year + 1 /\ h = <<1, 1>> /\ today = Ordinal(y, 1, 1) - 1)
  <2>1. ~(y < year)
    <3>1. y < year => Ordinal(y + 1, 1, 1) <= first
      BY LaterYears
    <3> QED BY <1>1, <1>2, <1>3, <1>4, <3>1
  <2>2. ~(y > year + 1)
    <3>1. y > year + 1 => Ordinal((year + 1) + 1, 1, 1) <= Ordinal(y, 1, 1)
      BY LaterYears
    <3>2. PICK second \in Int, third \in Int :
            /\ second = Ordinal(year + 1, 1, 1) /\ third = Ordinal((year + 1) + 1, 1, 1)
            /\ third >= second + 365
      <4>1. /\ Ordinal(year + 1, 1, 1) \in Int /\ Leap(year + 1) \in 0..1
            /\ Ordinal((year + 1) + 1, 1, 1) = Ordinal(year + 1, 1, 1) + 365 + Leap(year + 1)
        <5>1. year + 1 \in Nat \ {0}
          OBVIOUS
        <5> QED BY <5>1, DaysOfYear, YearsFollow
      <4> QED BY <4>1
    <3> QED BY <1>1, <1>2, <1>3, <1>4, <3>1, <3>2
  <2>3. y = year + 1 => h = <<1, 1>> /\ today = Ordinal(y, 1, 1) - 1
    BY <1>1, <1>2, <1>3, <1>4
  <2> QED BY <2>1, <2>2, <2>3
<1>6. ASSUME y # year PROVE Weekday(Ordinal(y, 1, 1)) = 5
  <2>1. today = own - 1 /\ today = Observed(own)
    BY <1>3, <1>5, <1>6
  <2> QED BY <1>3, <1>5, <1>6, <2>1, SMTT(30) DEF Observed
<1>7. ASSUME y = year, NEW hour \in 0..23 PROVE PeriodFor(today, year, hour) # "on_peak"
  <2>1. today \in ObservedHolidays(year)
    BY <1>7 DEF FixedHolidays, ObservedHolidays
  <2> QED BY <2>1 DEF PeriodFor, IsOffPeakDay
<1>8. ASSUME y # year PROVE PeriodFor(today, year, 8) = "on_peak"
  <2>1. today = first + 364 + Leap(year)
    BY <1>1, <1>5, <1>8
  <2>2. /\ Observed(first) <= first + 1
        /\ Observed(Ordinal(year, 7, 4)) <= first + 186
        /\ Observed(Ordinal(year, 12, 25)) <= first + 359 + Leap(year)
    BY <1>1, DaysOfYear, ObservedNear
  <2>3. today \notin ObservedHolidays(year)
    BY <1>1, <2>1, <2>2, HolidaysWithin DEF ObservedHolidays
  <2>4. ~(Weekday(today) >= 5)
    BY <1>4
  <2> QED BY <2>3, <2>4 DEF PeriodFor, IsOffPeakDay, ON_PEAK_WINDOWS
<1> QED BY <1>5, <1>6, <1>7, <1>8
=============================================================================
