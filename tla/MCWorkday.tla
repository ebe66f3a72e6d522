----------------------------- MODULE MCWorkday -----------------------------
(***************************************************************************)
(* One day by the hour: a unit of time is an hour, so that six hours,      *)
(* sixteen hours and midnight fall between moments, on them and after.     *)
(***************************************************************************)
EXTENDS Reports

MCHour == 1

\* The evening before, the day from the morning to the night, and moments
\* after it at which a journey begun in the day is in progress or not.
MCMoments == {-2, 8, 12, 13, 23, 26, 40}

DaySchedule == [entry |-> 8, exit |-> 17, lunch |-> 1, custom |-> Null,
                works |-> TRUE]
NightSchedule == [DaySchedule EXCEPT !.entry = 22, !.exit = 6]
CustomSchedule == [DaySchedule EXCEPT !.custom = 4, !.works = FALSE]
NoSchedule == [DaySchedule EXCEPT !.entry = Null, !.exit = Null, !.lunch = 0]
CustomOnly == [NoSchedule EXCEPT !.custom = 4]

Working(s) == [schedule |-> s, holiday |-> "none", next |-> "none",
               west |-> FALSE, employed |-> TRUE]

\* West of UTC, where the holiday of the next day shows a day early.
West == [Working(DaySchedule) EXCEPT !.west = TRUE]

MCPlans ==
    {Working(s) : s \in {DaySchedule, NightSchedule, CustomSchedule,
                         NoSchedule, CustomOnly}}
    \cup {[Working(DaySchedule) EXCEPT !.holiday = "paid"],
          [Working(DaySchedule) EXCEPT !.holiday = "unpaid"],
          [West EXCEPT !.next = "paid"],
          [West EXCEPT !.holiday = "paid", !.next = "unpaid"],
          [Working(DaySchedule) EXCEPT !.employed = FALSE]}

Declared(start, end) == [kind |-> "declaration", start |-> start, end |-> end]
Whole(kind) == [kind |-> kind, start |-> Null, end |-> Null]

Morning == Declared(8, 12)
Afternoon == Declared(13, 17)
Absence == Whole("absence")
External == Whole("external_work")

MCCovers == {CoverOf(r) : r \in {{}, {Afternoon}, {Morning, Afternoon},
                                 {Absence, Afternoon}, {External, Morning}}}

\* Hired the day before, or nobody wrote down when; a period that ends
\* on the next day.
MCHires == {-1, Null}
MCLastDays == {1}

MCAdjusted == {<<"exit", 17>>}
=============================================================================
