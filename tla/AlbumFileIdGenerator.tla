------------------------ MODULE AlbumFileIdGenerator ------------------------
(***************************************************************************)
(* The ids GenerateCurrentAlbumFileId hands out: the local date and time   *)
(* of the current second, and a counter that is advanced within a second.  *)
(* The counter goes by the timestamp, the id by the date, and the two do   *)
(* not go together: when the local time is put back, by its rule at the    *)
(* end of the summer time or by the user, a date is handed out for two     *)
(* timestamps. The storage, the type and the application of an id are left *)
(* out: dates and counters are to differ without them.                     *)
(*                                                                         *)
(* Only the control thread generates ids, one at a time; the choice of the *)
(* storage before is part of AlbumMount, and a call that finds no storage  *)
(* or no time changes nothing here. Names begin with Ids where the other   *)
(* component of the control service, ApplicationAlbumManager, has the      *)
(* same: a module may extend both.                                         *)
(***************************************************************************)
EXTENDS Naturals

CONSTANTS
  LastId,               \* the largest counter: 99 in the program
  MaxTime,              \* bound on the clock
  MaxOffset             \* bound on the offset of the local time

ASSUME LastIdAssumption == LastId \in Nat
ASSUME MaxTimeAssumption == MaxTime \in Nat /\ MaxOffset \in Nat

VARIABLES
  last_timestamp,       \* of the AlbumFileIdGenerator
  counter,              \* of the AlbumFileIdGenerator
  now,                  \* the clock, in seconds
  offset,               \* the offset of the local time, by the rule of the time zone
  issued,               \* the ids handed out: [date, id] (history)
  wrapped,              \* more than LastId + 1 ids were asked for in a second (history)
  repeated,             \* a local date was repeated (history)
  restarted,            \* the process was restarted within a local second that
                        \* had seen an id (history)
  duplicate             \* an id was handed out twice (history)

generatorVars == << last_timestamp, counter >>
exceptions == << wrapped, repeated, restarted >>
idsVars == << generatorVars, now, offset, issued, exceptions, duplicate >>

Time == 0 .. MaxTime
Offset == 0 .. MaxOffset

(* The local calendar time, as a number of seconds.                        *)
Date == now + offset

IdsInit ==
  /\ last_timestamp = 0
  /\ counter = 0
  /\ now \in Time
  /\ offset \in Offset
  /\ issued = {}
  /\ wrapped = FALSE
  /\ repeated = FALSE
  /\ restarted = FALSE
  /\ duplicate = FALSE

(* Time goes on, the clock is set, or the offset of the local time changes.*)
SetClock ==
  /\ now' \in Time
  /\ offset' \in Offset
  /\ repeated' = (repeated \/ Date' < Date \/ (now' # now /\ Date' = Date))
  /\ UNCHANGED << generatorVars, issued, wrapped, restarted, duplicate >>

(* Initialize, when the process is started again: the counter is lost.     *)
Restart ==
  /\ last_timestamp' = 0
  /\ counter' = 0
  /\ restarted' = (restarted \/ \E i \in issued : i.date = Date)
  /\ UNCHANGED << now, offset, issued, wrapped, repeated, duplicate >>

(* Fault: the counter may become one more than LastId. *)
SameSecondFault == last_timestamp = now /\ counter <= LastId

(* The timestamp matches, and there is a number left. *)
SameSecond == last_timestamp = now /\ counter < LastId

(* Fault: the counter is not advanced. *)
NextIdFault == IF SameSecond THEN counter ELSE 0

NextId == IF SameSecond THEN counter + 1 ELSE 0

GenerateFileId ==
  /\ counter' = NextId
  /\ last_timestamp' = now
  /\ wrapped' = (wrapped \/ (last_timestamp = now /\ counter = LastId))
  /\ \/ /\ issued' = issued \cup {[date |-> Date, id |-> counter']}
        /\ duplicate' = (duplicate \/ [date |-> Date, id |-> counter'] \in issued)
     \/ UNCHANGED << issued, duplicate >>         \* the conversion to a date fails
  /\ UNCHANGED << now, offset, repeated, restarted >>

IdsNext == SetClock \/ Restart \/ GenerateFileId

IdsSpec == IdsInit /\ [][IdsNext]_idsVars

-----------------------------------------------------------------------------

IdsTypeOK ==
  /\ last_timestamp \in Time
  /\ counter \in 0 .. LastId
  /\ now \in Time /\ offset \in Offset
  /\ issued \subseteq [date: Nat, id: 0 .. LastId]
  /\ wrapped \in BOOLEAN /\ repeated \in BOOLEAN /\ restarted \in BOOLEAN
  /\ duplicate \in BOOLEAN

(* No id is handed out twice, as long as no local date is repeated, no     *)
(* second sees more than LastId + 1 calls and no restart falls into a      *)
(* second with ids: whatever the clock and the local time do otherwise,    *)
(* and even when some of the calls fail after the counter was advanced.    *)
IdsAreUnique == ~ wrapped /\ ~ repeated /\ ~ restarted => ~ duplicate

=============================================================================
