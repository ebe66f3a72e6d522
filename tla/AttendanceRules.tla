--------------------------- MODULE AttendanceRules ---------------------------
(***************************************************************************)
(* The rows of the attendance tables and the rules on them that need no    *)
(* state: what saving a row writes.                                        *)
(*                                                                         *)
(* Time is a slot number. Two instants in one slot are less than a minute  *)
(* apart, two instants in different slots at least a minute. LocalDay is   *)
(* the calendar day of an instant in the time zone of the process, DateKey *)
(* the day of its UTC date, toISOString().split('T')[0].                   *)
(***************************************************************************)
EXTENDS Naturals, FiniteSets, Rows, Journey

CONSTANTS
    Users,          \* active users subject to time tracking
    MaxTime,        \* bound: the last slot of the model
    MaxRecords,     \* bound: rows ever inserted in time_records
    MaxRequests,    \* bound: rows ever inserted in employee_requests
    Days, Months,   \* calendar days and months, numbered in order
    LocalDay,       \* [Times -> Days]
    DateKey,        \* [Times -> Days]
    MonthOf,        \* [Days -> Months]
    Null            \* a missing row, time or handler

Times == 0..MaxTime
RecordIds == 1..MaxRecords
RequestIds == 1..MaxRequests

RecordStatuses == {"valid", "pending_approval", "adjusted", "rejected"}
Record == [user : Users, time : Times, type : Types, status : RecordStatuses]

\* "absence" stands for the request types syncDailySummary counts as
\* justified, "adjustment" for time_adjustment, the only kind with times.
Kinds == {"absence", "adjustment"}
RequestStatuses == {"pending", "approved", "rejected"}
Adjustment == [Types -> Times \cup {Null}]
Request == [user : Users, day : Days, kind : Kinds, times : Adjustment,
            status : RequestStatuses]

\* What the computations keep of a record: everything but its status.
Fact == [id : RecordIds, user : Users, type : Types, time : Times]
Summary == [recs : SUBSET Fact, absences : SUBSET RequestIds]
Closing == [status : {"none", "open", "closed"}, recs : SUBSET Fact,
            absences : SUBSET RequestIds]

ASSUME StoreAssumption ==
    /\ MaxTime \in Nat /\ MaxRecords \in Nat /\ MaxRequests \in Nat
    /\ Days \subseteq Nat /\ Months \subseteq Nat
    /\ LocalDay \in [Times -> Days]
    /\ DateKey \in [Times -> Days]
    /\ MonthOf \in [Days -> Months]

\* Null is none of the values it stands in for.
ASSUME NullAssumption ==
    /\ Null \notin Times
    /\ Null \notin Record
    /\ Null \notin Request
    /\ Null \notin Summary

-----------------------------------------------------------------------------
\* The UPDATE of a row deleted meanwhile (Null) touches nothing.
SavedRecord(row, loaded, next) ==
    IF row = Null THEN Null
    ELSE [user   |-> row.user,
          time   |-> Column(row.time, loaded.time, next.time),
          type   |-> Column(row.type, loaded.type, next.type),
          status |-> Column(row.status, loaded.status, next.status)]

SavedRequest(row, loaded, next) ==
    IF row = Null THEN Null
    ELSE [user   |-> row.user,
          day    |-> row.day,
          kind   |-> row.kind,
          times  |-> [t \in Types |->
                        Column(row.times[t], loaded.times[t], next.times[t])],
          status |-> Column(row.status, loaded.status, next.status)]
=============================================================================
