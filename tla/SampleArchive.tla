---------------------------- MODULE SampleArchive ----------------------------
(***************************************************************************)
(* What replay promises, without how: a window of numbered samples on one  *)
(* side, an archive on the other, and per stream a cursor that the archive *)
(* never moves past a sample it could still have and has not kept.         *)
(***************************************************************************)
EXTENDS Naturals

CONSTANTS
    Streams,      \* the stream ids, numbered in the order they come to be
    Sequences     \* the sequence numbers of a stream

VARIABLES
    current,      \* the stream that is sampled into
    first, last,  \* its samples on offer are first..last
    kept,         \* labels <<stream, sequence>> in the archive
    lost,         \* labels that were in the archive and were deleted
    cursor        \* per stream, how far the archive claims to have it

vars == <<current, first, last, kept, lost, cursor>>

Labels == Streams \X Sequences

Offered == first..last

\* The archive has accounted for every sample on offer up to n.
Accounted(n) ==
    \A q \in Offered : q <= n => <<current, q>> \in kept \cup lost

Init ==
    /\ current = 1 /\ first = 1 /\ last = 0
    /\ kept = {} /\ lost = {}
    /\ cursor = [s \in Streams |-> 0]

\* A sample is taken.
Sample ==
    /\ last' = last + 1
    /\ UNCHANGED <<current, first, kept, lost, cursor>>

\* The oldest samples leave the window, never the newest one.
Expire ==
    /\ first' \in first..last
    /\ UNCHANGED <<current, last, kept, lost, cursor>>

\* Sampling starts over under a new stream id.
Renew ==
    /\ current + 1 \in Streams
    /\ current' = current + 1 /\ first' = 1 /\ last' = 0
    /\ UNCHANGED <<kept, lost, cursor>>

\* The archive keeps samples that have been taken, or of retired streams.
Keep ==
    /\ \E labels \in SUBSET Labels :
          /\ \A label \in labels :
                label[1] < current \/ (label[1] = current /\ label[2] <= last)
          /\ kept' = kept \cup labels
    /\ UNCHANGED <<current, first, last, lost, cursor>>

\* The cursor of the current stream moves, to either side, only where all that
\* is on offer up to it is accounted for; those of retired streams move freely.
Move ==
    /\ \E s \in Streams, n \in 0..last \cup Sequences :
          /\ s <= current
          /\ s = current => n <= last /\ Accounted(n)
          /\ cursor' = [cursor EXCEPT ![s] = n]
    /\ UNCHANGED <<current, first, last, kept, lost>>

\* Retention or a purge deletes from the archive; the cursors stay.
Forget ==
    /\ \E labels \in SUBSET kept :
          kept' = kept \ labels /\ lost' = lost \cup labels
    /\ UNCHANGED <<current, first, last, cursor>>

Next == Sample \/ Expire \/ Renew \/ Keep \/ Move \/ Forget

Spec == Init /\ [][Next]_vars

=============================================================================
