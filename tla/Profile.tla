------------------------------- MODULE Profile --------------------------------
(***************************************************************************)
(* The user's schedule: local slots in a zone whose clocks change, their     *)
(* projection to UTC by the fan-out predicate and by the next-run preview,   *)
(* and the PATCH requests that edit the row while others do.                 *)
(*                                                                         *)
(* An instant counts units of UTC; a zone is its offset before and after     *)
(* the one clock change in sight.  Scheduler has the predicate's debounce    *)
(* and lock, and the slots of one row as UTC times of day.                   *)
(***************************************************************************)
EXTENDS Integers, Sequences

CONSTANTS
  Patches,     \* PATCH requests in flight
  DayUnits,    \* units of a day
  DueWindow,   \* SLOT_HALF_WINDOW
  Zones,       \* [before, after : offsets; at : the instant of the change]
  TimesOfDay,  \* values of schedule_times_local
  LastEdit,    \* bound: the last instant at which a request starts
  Horizon,     \* bound: the last instant
  Unset,       \* the body does not name the field
  Null,        \* the body says null; a preview without a slot
  Idle         \* no request in flight; nothing shown

ASSUME CalendarAssumption ==
  /\ DayUnits \in Nat \ {0} /\ DueWindow \in Nat /\ {LastEdit, Horizon} \subseteq Nat
  /\ Zones \subseteq [before : Int, after : Int, at : Int]
  /\ TimesOfDay \subseteq Seq(0 .. DayUnits - 1)
  /\ Null \notin Int

VARIABLES
  now,    \* the instant
  user,   \* schedule columns of the users row
  held,   \* the row as each request read it
  shown   \* the last preview of the schedule as it stands

profileVars == <<now, user, held, shown>>

Frequencies == {"once_daily", "twice_daily", "disabled"}
Schedule == [frequency : Frequencies, times : TimesOfDay, zone : Zones]
Bodies ==
  [frequency : Frequencies \cup {Unset, Null}, times : TimesOfDay \cup {Unset, Null},
   zone : Zones \cup {Unset, Null}]

-----------------------------------------------------------------------------
(* The calendar.                                                            *)

LocalTime(t, zone) == t + IF t < zone.at THEN zone.before ELSE zone.after

(* zoneinfo with fold 0: a wall time that the change skips, and the first   *)
(* of two that it repeats, have the offset from before it.                  *)
UtcTime(wall, zone) ==
  LET latest == IF zone.before > zone.after THEN zone.before ELSE zone.after
  IN wall - IF wall < zone.at + latest THEN zone.before ELSE zone.after

SlotsOn(days, t, s) ==
  {UtcTime(DayUnits * (LocalTime(t, s.zone) \div DayUnits + d) + s.times[i], s.zone) :
     d \in days, i \in DOMAIN s.times}

(* Mutant: only the slots of the current local day are looked at.           *)
TodaysSlots(t, s) == SlotsOn({0}, t, s)

CandidateSlots(t, s) == SlotsOn({-1, 0, 1}, t, s)

MatchesTick(t, s) ==
  /\ s.frequency # "disabled"
  /\ \E c \in CandidateSlots(t, s) : c - t \in -DueWindow .. DueWindow

UpcomingSlots(t, s) == {c \in SlotsOn({0, 1, 2}, t, s) : c > t}

NextSlot(t, s) ==
  IF s.frequency = "disabled" \/ UpcomingSlots(t, s) = {} THEN Null
  ELSE CHOOSE c \in UpcomingSlots(t, s) : \A d \in UpcomingSlots(t, s) : c <= d

-----------------------------------------------------------------------------
(* The endpoints.                                                           *)

Consistent(frequency, times) ==
  /\ frequency = "once_daily" => Len(times) = 1
  /\ frequency = "twice_daily" => Len(times) = 2

(* The constraint of the table: the length of an empty array is NULL, and a *)
(* CHECK that is not false passes.                                          *)
RowCheck(s) == s.times = <<>> \/ Consistent(s.frequency, s.times)

Preview(t, s) == [at |-> t, next |-> NextSlot(t, s)]

GetSchedule ==
  /\ shown' = Preview(now, user)
  /\ UNCHANGED <<now, user, held>>

LoadSchedule(p) ==
  /\ held[p] = Idle /\ now <= LastEdit
  /\ held' = [held EXCEPT ![p] = user]
  /\ UNCHANGED <<now, user, shown>>

(* The schedule the request ends up with: times that are null are checked   *)
(* as if they had not been sent, and stored as an empty list.               *)
CheckedTimes(body, seen) == IF body.times \in {Unset, Null} THEN seen.times ELSE body.times
Patched(body, seen) ==
  [frequency |-> IF body.frequency = Unset THEN seen.frequency ELSE body.frequency,
   times |-> CASE body.times = Unset -> seen.times [] body.times = Null -> <<>>
               [] OTHER -> body.times,
   zone |-> IF body.zone = Unset THEN seen.zone ELSE body.zone]

(* The session writes the columns that differ from the row as read.         *)
Merged(new, seen) ==
  [c \in DOMAIN user |-> IF new[c] # seen[c] THEN new[c] ELSE user[c]]

(* 422, or the database refuses a null or the constraint.                   *)
Refused(body, seen) ==
  \/ ~Consistent(Patched(body, seen).frequency, CheckedTimes(body, seen))
  \/ Null \in {body.frequency, body.zone}
  \/ ~RowCheck(Merged(Patched(body, seen), seen))

PatchSchedule(p) ==
  /\ held[p] # Idle
  /\ \E body \in Bodies :
       LET new == Patched(body, held[p])
           row == Merged(new, held[p])
       IN IF Refused(body, held[p]) THEN UNCHANGED <<user, shown>>
          ELSE /\ user' = row
               /\ shown' = IF row = new THEN Preview(now, new)
                           ELSE IF row = user THEN shown ELSE Idle
  /\ held' = [held EXCEPT ![p] = Idle]
  /\ UNCHANGED now

(* A request is over within the unit in which it starts.                    *)
ClockAdvances ==
  /\ now < Horizon /\ \A p \in Patches : held[p] = Idle
  /\ now' = now + 1
  /\ UNCHANGED <<user, held, shown>>

ProfileInit ==
  /\ now = 0
  /\ user \in {s \in Schedule : Consistent(s.frequency, s.times)}
  /\ held = [p \in Patches |-> Idle]
  /\ shown = Idle

ProfileNext ==
  \/ GetSchedule \/ ClockAdvances
  \/ \E p \in Patches : LoadSchedule(p) \/ PatchSchedule(p)

-----------------------------------------------------------------------------
(* Properties                                                               *)

(* The preview keeps its word: as long as the schedule stays what it was,   *)
(* no tick matches before the instant shown and each tick around it does,   *)
(* over midnight of either clock and over a clock change.  (Up to a window  *)
(* after a slot the preview names the next one, and a late tick still       *)
(* matches the slot that is over; the debounce and the lock are not in it.) *)
PreviewHolds ==
  shown # Idle =>
    LET soon == shown.next # Null /\ now >= shown.next - DueWindow
        past == shown.next # Null /\ now > shown.next + DueWindow
    IN ~past /\ now > shown.at + DueWindow => (MatchesTick(now, user) <=> soon)

(* A schedule that is not disabled has as many slots as its frequency says  *)
(* (models.py: "len() must match schedule_frequency (DB CHECK on PG)").     *)
CadenceMatchesSlots == Consistent(user.frequency, user.times)
=============================================================================
