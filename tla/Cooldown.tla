------------------------------ MODULE Cooldown ------------------------------
(***************************************************************************)
(* The 30 days between two updates of a profile, and between two changes   *)
(* of a password (src/lib/cooldown.ts), and the clock they are counted on. *)
(* A request that has run for MaxDuration is ended by the platform.        *)
(***************************************************************************)
EXTENDS Integers

CONSTANTS COOLDOWN_MS,
          MaxDuration,
          MaxClock,         \* bound on the clock
          Never             \* a date that is null

ASSUME CooldownAssumption ==
    /\ COOLDOWN_MS \in Nat /\ MaxDuration \in Nat /\ MaxClock \in Nat
    /\ 2 * MaxDuration <= COOLDOWN_MS
    /\ Never \notin Int

VARIABLE clock

Dates == Nat \cup {Never}

IsCooldownExpired(last, now) == last = Never \/ now - last >= COOLDOWN_MS

CooldownCutoff(now) == now - COOLDOWN_MS

(* The condition of both updates: null, or lt the cutoff. *)
MayStamp(last, cutoff) == last = Never \/ last < cutoff

(* The clock goes on, but past no request's end; they began at begun. *)
Pass(begun) ==
    /\ clock < MaxClock /\ clock' = clock + 1
    /\ \A t \in begun : clock < t + MaxDuration
=============================================================================
