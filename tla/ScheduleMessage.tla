---------------------------- MODULE ScheduleMessage ----------------------------
(***************************************************************************)
(* The pure rules of the notification job: which difference between two    *)
(* observations of an item's schedule is worth a push (message.ts), when   *)
(* pushes may go out and how many calendar days are left (quiet-hours.ts). *)
(* The wording is left out: a message is the set of its sentences.         *)
(*                                                                         *)
(* Times are integers on one scale that already is Korean local time; a    *)
(* tick is the hour of quiet-hours.ts.                                     *)
(***************************************************************************)
EXTENDS Integers

CONSTANTS
  NoValue,        \* SQL NULL in an observation
  DayLength,      \* ticks in a day (24 in the code)
  QuietEnd,       \* first sendable tick of a day (08:00)
  QuietStart      \* first quiet tick of the evening (21:00)

ASSUME CalendarAssumption ==
  /\ DayLength \in Nat \ {0}
  /\ QuietEnd \in 0 .. DayLength
  /\ QuietStart \in QuietEnd .. DayLength

Day(t) == t \div DayLength
Hour(t) == t % DayLength

NextSendableAt(t) ==
  IF Hour(t) < QuietEnd THEN Day(t) * DayLength + QuietEnd
  ELSE IF Hour(t) >= QuietStart THEN (Day(t) + 1) * DayLength + QuietEnd
  ELSE t

IsQuietHour(t) == NextSendableAt(t) # t

KstDaysUntil(target, t) == Day(target) - Day(t)

-----------------------------------------------------------------------------

OrZero(count) == IF count = NoValue THEN 0 ELSE count

(* The sentences of the change message from observation "previous" to      *)
(* "current"; a price or a bid date that became NULL says nothing.         *)
ChangeSentences(previous, current) ==
  {s \in {"failed", "price", "bid"} :
     \/ s = "failed" /\ OrZero(current.failed) > OrZero(previous.failed)
     \/ s = "price" /\ current.price \notin {NoValue, previous.price}
     \/ s = "bid" /\ current.bid \notin {NoValue, previous.bid}}

\* The days before the bid on which a reminder is built.
ReminderDays == {3, 1}
\* Faulty: a day of D-3 whose hour is still to come falls outside.
ThreeDayWindow == 3
\* How far ahead reminder candidates are looked up.
ReminderWindowDays == 4

=============================================================================
