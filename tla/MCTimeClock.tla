----------------------------- MODULE MCTimeClock -----------------------------
(***************************************************************************)
(* Small instances of TimeClock. A day has SlotsPerDay slots and a month   *)
(* DaysPerMonth days. UtcAhead slots are the distance of the process's     *)
(* time zone from UTC: 0 for a process in UTC, 1 for one where the last    *)
(* slot of a day is already the next day's date in UTC (21:00 to 24:00 in  *)
(* Brasilia time).                                                         *)
(***************************************************************************)
EXTENDS TimeClock

CONSTANTS SlotsPerDay, DaysPerMonth, UtcAhead, MCMaxTime

MCLocalDay == [t \in 0..MCMaxTime |-> t \div SlotsPerDay]
MCDateKey == [t \in 0..MCMaxTime |-> (t + UtcAhead) \div SlotsPerDay]
MCDays == 0..((MCMaxTime + UtcAhead) \div SlotsPerDay)
MCMonthOf == [d \in MCDays |-> d \div DaysPerMonth]
MCMonths == {MCMonthOf[d] : d \in MCDays}

\* The adjustments a request may ask for: the entry of the first slot, or
\* that and the exit of the next slot, or a time of the second day.
Asks(entry, exit) ==
    [t \in Types |-> CASE t = "entry" -> entry [] t = "exit" -> exit
                      [] OTHER -> Null]
NoAdjustments == {}
OneAdjustment == {Asks(0, Null)}
TwoAdjustments == {Asks(0, 1), Asks(Null, SlotsPerDay)}
=============================================================================
