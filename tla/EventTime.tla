------------------------------ MODULE EventTime ------------------------------
(***************************************************************************)
(* The time windows of an event, as src/lib/event-time.ts computes them.   *)
(*                                                                         *)
(* An event is a record whose optional instants hold NoTime when the       *)
(* column is null.  Instants are integers; the unit is free, the four lags *)
(* are the module's defaults in that unit (15, 120, 60 and 240 minutes in  *)
(* the code).  A window is a pair of instants, both of them inside it.     *)
(***************************************************************************)
EXTENDS Integers

CONSTANTS NoTime,           \* the null of an optional instant
          CheckInLead,      \* check-in opens this long before the start
          CheckInLag,       \* ... and closes this long after it
          TimeOutLead,      \* time-out opens this long after the start
          TimeOutLag        \* ... and closes this long after it

ASSUME EventTimeAssumption ==
    /\ NoTime \notin Int
    /\ CheckInLead \in Nat
    /\ CheckInLag \in Nat \ {0}
    /\ TimeOutLead \in Nat \ {0}
    /\ TimeOutLag \in Nat \ {0}
    /\ TimeOutLead < TimeOutLag

OptionalTime == Int \cup {NoTime}

(* The columns of an event that decide its windows. *)
Schedule == [scheduledAt     : Int,
             endsAt          : OptionalTime,
             checkInOpensAt  : OptionalTime,
             checkInClosesAt : OptionalTime,
             enableTimeOut   : BOOLEAN,
             timeOutOpensAt  : OptionalTime,
             timeOutClosesAt : OptionalTime]

Given(t) == t # NoTime

OrElse(t, default) == IF Given(t) THEN t ELSE default

Window(opens, closes) == [opensAt |-> opens, closesAt |-> closes]

Within(t, w) == w.opensAt <= t /\ t <= w.closesAt

CheckInWindow(ev) ==
    Window(OrElse(ev.checkInOpensAt, ev.scheduledAt - CheckInLead),
           OrElse(ev.checkInClosesAt,
                  OrElse(ev.endsAt, ev.scheduledAt + CheckInLag)))

TimeOutWindow_PlainDefaults(ev) ==
    Window(OrElse(ev.timeOutOpensAt, ev.scheduledAt + TimeOutLead),
           OrElse(ev.timeOutClosesAt, OrElse(ev.endsAt, ev.scheduledAt + TimeOutLag)))

(***************************************************************************)
(* The time-out window.  A pair in order is taken as it is, one explicit   *)
(* end gets a default for the other that keeps the order, and anything     *)
(* else (none given, or a pair out of order) gets both defaults, which     *)
(* nothing puts in order.  Meaningful only when ev.enableTimeOut: without  *)
(* it the code returns no window.                                          *)
(***************************************************************************)
TimeOutWindow(ev) ==
    LET opens         == ev.timeOutOpensAt
        closes        == ev.timeOutClosesAt
        defaultOpens  == ev.scheduledAt + TimeOutLead
        defaultCloses == OrElse(ev.endsAt, ev.scheduledAt + TimeOutLag)
    IN  CASE Given(opens) /\ Given(closes) /\ opens < closes ->
               Window(opens, closes)
          [] Given(opens) /\ ~Given(closes) ->
               Window(opens, IF defaultCloses > opens THEN defaultCloses
                                                      ELSE opens + TimeOutLag)
          [] Given(closes) /\ ~Given(opens) ->
               Window(IF defaultOpens < closes THEN defaultOpens
                                               ELSE closes - TimeOutLead,
                      closes)
          [] OTHER -> Window(defaultOpens, defaultCloses)

(* The isLive flag of a window, for an event of the given status. *)
IsLive(status, w, now) == status = "active" /\ Within(now, w)

InCheckIn(ev, t) == Within(t, CheckInWindow(ev))

InTimeOut(ev, t) == ev.enableTimeOut /\ Within(t, TimeOutWindow(ev))
=============================================================================
