---------------------------- MODULE RegisterMap ----------------------------
(***************************************************************************)
(* The sweep that finds which holding registers an inverter answers for    *)
(* (register_discovery.py, map_readable_blocks): it probes one register    *)
(* every Stride addresses and walks each hit down and up to the edges of   *)
(* its block, halving the span whenever a read is refused.                 *)
(*                                                                         *)
(* The inverter is a function from addresses to pages: a read is answered  *)
(* when every address in it lies on one page.  A read may also be lost on  *)
(* the link, which says nothing about the addresses.  The sweep runs alone *)
(* against a device that does not change, so one whole _MapRun.read, its   *)
(* retries included, is one step.                                          *)
(***************************************************************************)
EXTENDS Integers, FiniteSets, FiniteSetsExt, Sequences

CONSTANTS
    Ranges,           \* the ranges to sweep, a sequence of <<first, last>>
    Stride,           \* addresses from one probe to the next
    EdgeRead,         \* registers asked for at once while walking
    MaxReads,         \* the read budget
    MapRetries,       \* further attempts after a read lost on the link
    MaxLinkFailures   \* bound: reads the link may lose in one behaviour

Span(range) == range[1]..range[2]
Address == UNION {Span(Ranges[i]) : i \in 1..Len(Ranges)}

\* Address 0 of the page function's range means "illegal data address".
NoPage == 0

\* parse_ranges and the checks of map_readable_blocks.
ASSUME SweepAssumption ==
    /\ Ranges \in Seq(Nat \X Nat) /\ Ranges # <<>>
    /\ \A i \in 1..Len(Ranges) : Ranges[i][1] <= Ranges[i][2]
    /\ {Stride, MaxReads} \subseteq Nat \ {0}
    /\ EdgeRead \in 1..125
    /\ {MapRetries, MaxLinkFailures} \subseteq Nat

VARIABLES
    page,         \* the device: the page of every address, or NoPage
    pc,           \* "scan", "walk", "bisect" or "done"
    current,      \* index of the range being swept
    probe,        \* the next address to probe
    walk,         \* the edge walk: direction, edge reached, the bisection
    lowEdge,      \* first address of the block, once the walk down has ended
    islands,      \* blocks walked out so far, as <<first, last>>
    values,       \* addresses whose value a read has returned
    refused, unverified, doubts, unscanned,  \* addresses, by what is known of them
    reads,        \* reads spent, attempts included
    linkFailures  \* reads the link has lost (counted for the bound)

notes == <<refused, unverified, doubts, unscanned>>
mapVars == <<page, pc, current, probe, walk, lowEdge, islands, values, notes,
          reads, linkFailures>>

-----------------------------------------------------------------------------
(* The device and one read of it. *)

\* A read is answered when its whole span lies on one page.
MapAnswers(span) == \E p \in {page[a] : a \in span} : p # NoPage /\ \A a \in span : page[a] = p

Exhausted == reads >= MaxReads

\* What an attempt that gets through tells of its span (classify_read_failure).
Told(span) == IF MapAnswers(span) THEN "ok" ELSE "refused"

\* What _MapRun.read can return for a span: a read lost on the link is tried
\* again while attempts and budget last, an answer or a refusal ends it.
Attempts(span, whenLost) ==
    LET tries == Min({MapRetries + 1, MaxReads - reads})
    IN {r \in {[outcome |-> Told(span), spent |-> k, lost |-> k - 1] : k \in 1..tries}
              \union {[outcome |-> whenLost, spent |-> tries, lost |-> tries]} :
        linkFailures + r.lost <= MaxLinkFailures}

\* Mutant: a read lost for good is taken for a refusal.
ReadResultsConflated(span) == Attempts(span, "refused")

ReadResults(span) == Attempts(span, "failed")

Spend(span, r) ==
    /\ reads' = reads + r.spent
    /\ linkFailures' = linkFailures + r.lost
    /\ values' = IF r.outcome = "ok" THEN values \union span ELSE values

-----------------------------------------------------------------------------
(* The sweep. *)

Floor == Ranges[current][1]
Limit == Ranges[current][2]

\* The last address of the island holding an address (_covering).
Covering(a) == {b[2] : b \in {b \in islands : a \in Span(b)}}

NoWalk == [dir |-> "down", edge |-> 0, low |-> 1, high |-> 0, best |-> 0]

MapInit ==
    /\ page \in [Address -> 0..2]
    /\ pc = "scan" /\ current = 1 /\ probe = Ranges[1][1]
    /\ walk = NoWalk /\ lowEdge = 0
    /\ islands = {} /\ values = {}
    /\ refused = {} /\ unverified = {} /\ doubts = {} /\ unscanned = {}
    /\ reads = 0 /\ linkFailures = 0

\* Mutant: one address too many is reported as unscanned.
NextRangeOffByOne ==
    /\ pc = "scan"
    /\ probe > Limit \/ Exhausted
    /\ unscanned' = unscanned \union probe..(Limit + 1)
    /\ pc' = "done"
    /\ UNCHANGED <<page, current, probe, walk, lowEdge, islands, values, refused,
                   unverified, doubts, reads, linkFailures>>

\* One range is done: its end was passed, or the budget ran out before it.
NextRange ==
    /\ pc = "scan"
    /\ probe > Limit \/ Exhausted
    /\ unscanned' = unscanned \union probe..Limit
    /\ IF current < Len(Ranges)
         THEN current' = current + 1 /\ probe' = Ranges[current + 1][1] /\ pc' = pc
         ELSE pc' = "done" /\ UNCHANGED <<current, probe>>
    /\ UNCHANGED <<page, walk, lowEdge, islands, values, refused, unverified, doubts,
                   reads, linkFailures>>

\* Mutant: the probe moves to the end of the covering block and no further.
SkipCoveredInPlace ==
    /\ pc = "scan" /\ probe <= Limit /\ ~Exhausted
    /\ Covering(probe) # {}
    /\ probe' \in Covering(probe)
    /\ UNCHANGED <<page, pc, current, walk, lowEdge, islands, values, notes, reads, linkFailures>>

\* The probe is inside a block an earlier range walked out, or inside several: the
\* code takes the one found first.
SkipCovered ==
    /\ pc = "scan" /\ probe <= Limit /\ ~Exhausted
    /\ \E e \in Covering(probe) : probe' = e + Stride
    /\ UNCHANGED <<page, pc, current, walk, lowEdge, islands, values, notes, reads, linkFailures>>

\* Read one register; a hit starts the walk down from it.
ProbeOne ==
    /\ pc = "scan" /\ probe <= Limit /\ ~Exhausted
    /\ Covering(probe) = {}
    /\ \E r \in ReadResults({probe}) :
        /\ Spend({probe}, r)
        /\ IF r.outcome = "ok"
             THEN /\ pc' = "walk" /\ walk' = [NoWalk EXCEPT !.edge = probe]
                  /\ UNCHANGED <<probe, refused, unverified>>
             ELSE /\ probe' = probe + Stride
                  /\ refused' = IF r.outcome = "refused" THEN refused \union {probe} ELSE refused
                  /\ unverified' = IF r.outcome = "failed" THEN unverified \union {probe}
                                                           ELSE unverified
                  /\ UNCHANGED <<pc, walk>>
    /\ UNCHANGED <<page, current, lowEdge, islands, doubts, unscanned>>

\* Mutant: one register fewer is asked for than the walk then moves by.
BeyondShort(i, j) == IF walk.dir = "up" THEN (walk.edge + i)..(walk.edge + j - 1)
                                        ELSE (walk.edge - j + 1)..(walk.edge - i)

\* The addresses from the i-th to the j-th beyond the edge, in the walk's direction.
Beyond(i, j) == IF walk.dir = "up" THEN (walk.edge + i)..(walk.edge + j)
                                   ELSE (walk.edge - j)..(walk.edge - i)

Move(by) == IF walk.dir = "up" THEN walk.edge + by ELSE walk.edge - by

Ahead == IF walk.dir = "up" THEN Limit - walk.edge ELSE walk.edge - Floor

\* The walk in one direction ends at an edge: turn round, or record the island.
EndWalk(edge) ==
    IF walk.dir = "down"
      THEN /\ lowEdge' = edge
           /\ pc' = "walk" /\ walk' = [NoWalk EXCEPT !.dir = "up", !.edge = probe]
           /\ UNCHANGED <<islands, probe>>
      ELSE /\ islands' = islands \union {<<lowEdge, edge>>}
           /\ probe' = edge + Stride
           /\ pc' = "scan" /\ walk' = NoWalk
           /\ UNCHANGED lowEdge

\* Ask for the next EdgeRead registers; a refusal starts the bisection.
WalkOn ==
    /\ pc = "walk" /\ Ahead > 0 /\ ~Exhausted
    /\ LET width == Min({EdgeRead, Ahead}) IN
       \E r \in ReadResults(Beyond(1, width)) :
        /\ Spend(Beyond(1, width), r)
        /\ CASE r.outcome = "ok" ->
                  /\ walk' = [walk EXCEPT !.edge = Move(width)]
                  /\ UNCHANGED <<pc, probe, lowEdge, islands, doubts>>
             [] r.outcome = "failed" ->
                  /\ doubts' = doubts \union Beyond(1, width)
                  /\ EndWalk(walk.edge)
             [] r.outcome = "refused" ->
                  /\ pc' = "bisect"
                  /\ walk' = [walk EXCEPT !.low = 1, !.high = width - 1, !.best = 0]
                  /\ UNCHANGED <<probe, lowEdge, islands, doubts>>
    /\ UNCHANGED <<page, current, refused, unverified, unscanned>>

\* The range or the budget ends the walk.
WalkEnds ==
    /\ pc = "walk" /\ (Ahead = 0 \/ Exhausted)
    /\ EndWalk(walk.edge)
    /\ UNCHANGED <<page, current, values, notes, reads, linkFailures>>

\* Halve the span in which the block stops.
Bisect ==
    /\ pc = "bisect" /\ walk.low <= walk.high /\ ~Exhausted
    /\ LET middle == (walk.low + walk.high) \div 2 IN
       \E r \in ReadResults(Beyond(1, middle)) :
        /\ Spend(Beyond(1, middle), r)
        /\ IF r.outcome = "failed"
             THEN /\ doubts' = doubts \union Beyond(walk.best + 1, walk.high)
                  /\ EndWalk(Move(walk.best))
             ELSE /\ walk' = IF r.outcome = "ok"
                               THEN [walk EXCEPT !.best = middle, !.low = middle + 1]
                               ELSE [walk EXCEPT !.high = middle - 1]
                  /\ UNCHANGED <<pc, probe, lowEdge, islands, doubts>>
    /\ UNCHANGED <<page, current, refused, unverified, unscanned>>

BisectEnds ==
    /\ pc = "bisect" /\ (walk.low > walk.high \/ Exhausted)
    /\ EndWalk(Move(walk.best))
    /\ UNCHANGED <<page, current, values, notes, reads, linkFailures>>

MapNext == NextRange \/ SkipCovered \/ ProbeOne \/ WalkOn \/ WalkEnds \/ Bisect \/ BisectEnds

MapSpec == MapInit /\ [][MapNext]_mapVars /\ WF_mapVars(MapNext)

-----------------------------------------------------------------------------
(* What the sweep returns. *)

\* Blocks that overlap joined, blocks that only touch kept apart (_merge_blocks,
\* touching=False).
Readable ==
    LET heads == {b[1] : b \in {b \in islands : \A c \in islands : ~(c[1] < b[1] /\ b[1] <= c[2])}}
        Joined(x) == \E c \in islands : {x, x + 1} \subseteq Span(c)
    IN {<<h, Max({z \in Address : z >= h /\ \A x \in h..(z - 1) : Joined(x)})>> : h \in heads}

ReadableAddresses == UNION {Span(b) : b \in Readable}

\* A doubt another probe later settled is no longer a doubt.
Unverified == (unverified \union doubts) \ ReadableAddresses

-----------------------------------------------------------------------------
(* Properties. *)

MapTypeOK ==
    /\ page \in [Address -> 0..2]
    /\ pc \in {"scan", "walk", "bisect", "done"}
    /\ current \in 1..Len(Ranges) /\ probe \in Nat
    /\ walk \in [dir : {"down", "up"}, edge : Nat, low : Nat, high : Nat, best : Nat]
    /\ lowEdge \in Nat
    /\ islands \subseteq Address \X Address
    /\ values \subseteq Address
    /\ refused \subseteq Address /\ unverified \subseteq Address
    /\ doubts \subseteq Address /\ unscanned \subseteq Address
    /\ reads \in 0..MaxReads
    /\ linkFailures \in 0..MaxLinkFailures

\* The stretches of one page inside a range, each as a set of addresses.
Stretches(range) ==
    {s \in {i..j : i \in Span(range), j \in Span(range)} :
        /\ s # {} /\ MapAnswers(s)
        /\ \A a \in Span(range) \ s : ~MapAnswers(s \union {a}) \/ (a + 1 \notin s /\ a - 1 \notin s)}

\* A register is called readable only if it is, and the map has its value
\* ("the map carries them at no extra cost", register_discovery.py:235).
ReadableIsProven ==
    \A a \in ReadableAddresses : page[a] # NoPage /\ a \in values

\* A sweep that was not cut short accounts for every block at least Stride wide,
\* and for every block it has any part of, from end to end: an address of it is
\* readable or, where a lost read left the edge open, unverified.  Only a block
\* whose probe itself was lost is known by that probe alone
\* (register_discovery.py:278-281 and 404-407).
BlocksAreAccountedFor ==
    (pc = "done" /\ ~Exhausted) =>
        \A i \in 1..Len(Ranges) : \A s \in Stretches(Ranges[i]) :
            (Cardinality(s) >= Stride \/ s \cap ReadableAddresses # {}) =>
                \/ s \subseteq ReadableAddresses \union Unverified
                \/ s \cap unverified # {}

\* The sweep ends, whatever the link does.
SweepEnds == <>(pc = "done")
=============================================================================
