---------------------------- MODULE AdminConfig ----------------------------
(***************************************************************************)
(* The settings an admin changes at run time (AdminSettings): overrides    *)
(* kept as one value of the monitor's metadata, read with limits over the  *)
(* defaults of the environment, and changed by PUT /api/admin/config,      *)
(* whose requests each run in a thread of their own: they read all         *)
(* overrides, validate, write all of them, and read them again for the     *)
(* answer.  Limits are scaled down; the list of batteries is in            *)
(* RackInventory.                                                          *)
(***************************************************************************)
EXTENDS Integers, FiniteSets

CONSTANTS
    Requests,    \* concurrent PUTs
    Names,       \* values of rack_name
    Blank,       \* the one that is empty
    Numbers,     \* numbers a client may send, or that may be stored
    Text, NaN,   \* what is no number, and the float that compares with none
    Patches,     \* what clients send: functions from some fields to values
    Junk,        \* overrides that may be stored at first, by an older version or by hand
    Base         \* the values the environment gives

\* One field of each kind: a text, an integer whose stored value falls back to the
\* environment's when it is too low, an integer and a number that are clamped.
Fields == {"rack_name", "retention_days", "session_minutes", "energy_pulse_speed"}

Lowest == [retention_days |-> 1, session_minutes |-> 1, energy_pulse_speed |-> 1]
Highest == [retention_days |-> 3, session_minutes |-> 2, energy_pulse_speed |-> 2]

Values(f) == IF f = "rack_name" THEN Names ELSE Numbers \cup {Text, NaN}

ASSUME AdminAssumption ==
    /\ Blank \in Names /\ Numbers \subseteq Int /\ {Text, NaN} \cap Numbers = {}
    /\ \A patch \in Patches \cup Junk :
         DOMAIN patch \subseteq Fields /\ \A f \in DOMAIN patch : patch[f] \in Values(f)
    /\ DOMAIN Base = Fields /\ \A f \in Fields : Base[f] \in Values(f)
    /\ \A f \in DOMAIN Lowest : Lowest[f]..Highest[f] \subseteq Numbers

VARIABLES
    stored,    \* admin_settings in monitor_metadata
    request,   \* per request: where it is, its patch, what it read or is to write
    fresh      \* history: per request, nothing was written since it read

adminVars == <<stored, request, fresh>>

NoRequest == [at |-> "none"]

-----------------------------------------------------------------------------
(* Reading. *)

\* Mutant: a value too high passes.
ClampLow(f, n) == IF n < Lowest[f] THEN Lowest[f] ELSE n

Clamp(f, n) ==
    IF n < Lowest[f] THEN Lowest[f] ELSE IF n > Highest[f] THEN Highest[f] ELSE n

\* Mutant: the least number allowed is taken for none.
EffectiveNumberAbove(f, v) ==
    CASE v \in Numbers -> IF f = "retention_days" /\ v <= Lowest[f] THEN Base[f] ELSE Clamp(f, v)
      [] OTHER -> Base[f]

\* A float that compares with nothing is left at the upper limit by min and max.
EffectiveNumber(f, v) ==
    CASE v \in Numbers -> IF f = "retention_days" /\ v < Lowest[f] THEN Base[f] ELSE Clamp(f, v)
      [] v = NaN -> IF f = "energy_pulse_speed" THEN Highest[f] ELSE Base[f]
      [] OTHER -> Base[f]

Effective(f) ==
    CASE f \notin DOMAIN stored -> Base[f]
      [] f \in DOMAIN stored /\ f = "rack_name" ->
           IF stored[f] = Blank THEN Base[f] ELSE stored[f]
      [] OTHER -> EffectiveNumber(f, stored[f])

PublicConfig == [f \in Fields |-> Effective(f)]

-----------------------------------------------------------------------------
(* AdminSettings.update. *)

\* A float in no order with the limits is not outside them.
Accepted(f, v) ==
    CASE f = "rack_name" -> v # Blank
      [] f # "rack_name" /\ v \in Numbers -> v \in Lowest[f]..Highest[f]
      [] OTHER -> f = "energy_pulse_speed" /\ v = NaN

\* Mutant: the patch is all that is kept.
PatchedAnew(overrides, patch) == patch

Patched(overrides, patch) ==
    [f \in DOMAIN overrides \cup DOMAIN patch |->
        IF f \in DOMAIN patch THEN patch[f] ELSE overrides[f]]

-----------------------------------------------------------------------------

AdminInit ==
    /\ stored \in Junk
    /\ request = [r \in Requests |-> NoRequest]
    /\ fresh = [r \in Requests |-> FALSE]

\* The thread has read the overrides; one field out of order refuses the patch.
Read(r, patch) ==
    /\ request[r] = NoRequest
    /\ \A f \in DOMAIN patch : Accepted(f, patch[f])
    /\ request' = [request EXCEPT ![r] =
         [at |-> "write", patch |-> patch, overrides |-> Patched(stored, patch)]]
    /\ fresh' = [fresh EXCEPT ![r] = TRUE]
    /\ UNCHANGED stored

RefusePut(r, patch) ==
    /\ request[r] = NoRequest
    /\ \E f \in DOMAIN patch : ~Accepted(f, patch[f])
    /\ request' = [request EXCEPT ![r] = [at |-> "refused", patch |-> patch]]
    /\ UNCHANGED <<stored, fresh>>

Write(r) ==
    /\ request[r].at = "write"
    /\ stored' = request[r].overrides
    /\ request' = [request EXCEPT ![r] = [at |-> "answer", patch |-> @.patch]]
    /\ fresh' = [q \in Requests |-> q = r]

\* The overrides are read once more for the answer.
AnswerPut(r) ==
    /\ request[r].at = "answer"
    /\ request' = [request EXCEPT ![r] =
         [at |-> "done", patch |-> @.patch, shown |-> PublicConfig]]
    /\ UNCHANGED <<stored, fresh>>

\* Mutant: what the thread knew stays behind.
FinishFresh(r) ==
    /\ request[r].at \in {"refused", "done"}
    /\ request' = [request EXCEPT ![r] = NoRequest]
    /\ UNCHANGED <<stored, fresh>>

Finish(r) ==
    /\ request[r].at \in {"refused", "done"}
    /\ request' = [request EXCEPT ![r] = NoRequest]
    /\ fresh' = [fresh EXCEPT ![r] = FALSE]
    /\ UNCHANGED stored

AdminNext ==
    \E r \in Requests :
        \/ \E patch \in Patches : Read(r, patch) \/ RefusePut(r, patch)
        \/ Write(r) \/ AnswerPut(r) \/ Finish(r)

AdminSpec == AdminInit /\ [][AdminNext]_adminVars

-----------------------------------------------------------------------------
(* Properties. *)

AdminTypeOK ==
    /\ DOMAIN stored \subseteq Fields /\ \A f \in DOMAIN stored : stored[f] \in Values(f)
    /\ \A r \in Requests :
         /\ request[r].at \in {"none", "refused", "write", "answer", "done"}
         /\ request[r] # NoRequest => request[r].patch \in Patches
         /\ fresh[r] => request[r].at \in {"write", "answer", "done"}

\* Whatever is stored, by an older version or by hand, the panel shows values that
\* it can save, and saving them changes none: the limits of reading are those of
\* writing (admin.py:218, 373).
PanelCanSaveWhatItShows ==
    \A f \in Fields \ {"rack_name"} :
        /\ Accepted(f, Effective(f))
        /\ EffectiveNumber(f, Effective(f)) = Effective(f)

\* The answer to an accepted change shows the change, if no other was written since.
AnswerShowsThePatch ==
    \A r \in Requests : request[r].at = "done" /\ fresh[r] =>
        \A f \in DOMAIN request[r].patch : request[r].shown[f] = request[r].patch[f]

\* A change leaves the other fields as they are, unless another was written since it
\* read them: then it takes that one back (api.py:539).
WritesOnlyItsFields ==
    [][\A r \in Requests :
         request[r].at = "write" /\ request'[r].at = "answer" /\ fresh[r] =>
             \A f \in Fields \ DOMAIN request[r].patch :
                 /\ f \in DOMAIN stored <=> f \in DOMAIN stored'
                 /\ f \in DOMAIN stored => stored'[f] = stored[f]]_adminVars

=============================================================================
