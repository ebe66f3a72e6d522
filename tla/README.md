# The time clock, specified

N3xTime is a multi-tenant time clock: employees punch in and out at a kiosk, on the web or
from a phone, managers review what they did, employees file requests (absences, corrections
of their times), and an administrator closes each month. This directory is the verification
project of that program: TLA+ modules translated from the TypeScript under `apps/`, TLC
configurations that model-check them on small instances, and proofs that TLAPS checks.

Paths below are relative to the repository; `api/` stands for `apps/api/api/`.

## How the program runs, and why it is hard

The API (`api/server.ts`, `api/app.ts`) is one Node process in front of MySQL. A request is
an async handler: it runs undisturbed from one `await` to the next and any other handler may
run at an `await`. Handlers of the attendance tables open **no transaction**: each query
commits by itself, each sees the tables as they are at that moment. So:

  * a handler decides on rows it read some queries ago (*check, then act*);
  * two requests of one user, or of a user and a manager, interleave at every query;
  * `instance.save()` writes the columns that differ from the copy it loaded, so two handlers
    that loaded one row mix their columns;
  * a query may be rejected in the middle of a handler, whose `catch` answers 500 and leaves
    what was written; the process may be restarted (pm2) between two queries;
  * the process keeps instants in UTC and days in its own time zone, and mixes the two;
  * some state is in memory only (PIN attempts, the timers of `server.ts`).

## Inventory

Each part, the state it keeps, its operations, who it talks to and what makes it correct.

| Part (source) | State | Operations | Correct when |
|---|---|---|---|
| **Marking registration** (`controllers/recordController.ts` 465-793, 953-1112) | `time_records`, `remote_photo_evidences` | `registerRecord` (kiosk, web), `registerRecordByPin`, `registerRemoteRecord` | a day's markings form a journey; no type twice; a remote marking has its photo; a closed month gets none |
| **Marking review** (same file, 847-951) | `time_records` | `updateRecordStatus` | a marking keeps its owner and day; closed months stay as they are |
| **Daily summaries** (`services/AttendanceService.ts`) | `attendance_summaries` | `syncDailySummary`, called by every writer of a day | once the writers are done, the summary is that of the day's rows |
| **Monthly closing** (`controllers/reportController.ts` 918-1009, 2116-2225, `utils/monthlyClosing.ts`) | `monthly_closings` with a snapshot | `closeMonthlyClosing`, `reopenMonthlyClosing`, `assertPeriodOpen` | a closed month does not change, its snapshot is its content |
| **Employee requests** (`controllers/requestController.ts`) | `employee_requests` | create, review (with `applyApprovedTimeAdjustment`), delete, `assignAbsence` | a day has one absence; an approved adjustment is in the markings; closed months stay |
| **Attendance arithmetic** (`services/AttendanceCalculator.ts`, `reportController.ts` 195-620) | none | worked, late, night and credited minutes | both copies agree; credits never exceed the day |
| **Leadership** (`utils/leadership.ts`, `controllers/departmentController.ts`) | departments, their ordered levels, the leaders linked to them, user roles | hierarchy update, create, delete, scope checks, routing of requests | the role matches the assignments; nobody manages a peer |
| **Users and restrictions** (`controllers/userController.ts`, `services/UserAccessService.ts`, `middlewares/authMiddleware.ts`) | users: active, inactive, suspended until a date | create, update, delete, restrict, release (job each minute) | a restriction lasts as long as it says; PINs are unique |
| **Kiosk sessions** (`controllers/authController.ts` 803-956, `companyController.ts`) | key hash, `session_version`, status | login, release, revoke, rotate, suspend | a revoked or rotated session answers no more |
| **PIN attempts** (`recordController.ts` 53-99, 638-793) | a map in memory, the users' PINs | count failures, lock for a while; the user forms give PINs | a locked terminal accepts no PIN, a PIN opens one user |
| **Accounts** (`services/identityService.ts`, `controllers/accountAuthController.ts`) | accounts, memberships, a user row per company, reset links | resolve, link, log in, select, switch, reset, change password | one person is one account; every company of theirs is offered; links and temporary passwords are used up |
| **Companies** (`controllers/platformController.ts`, `services/tenantTransferService.ts`) | companies, administrators, dumps, staging tables | provision, suspend, edit administrators, back up, import | complete or undone; a company's rows are its own |
| **Web session** (`apps/web/src`: `stores/`, `App.tsx`, `pages/Login.tsx`, `Dashboard.tsx`, `platform/`) | two stores in the browser and the session to return to | login, selection, switch, global access, return, logout | the two stores belong to one person; the way back leads to their own panel |
| **Kiosk page** (`pages/Kiosk.tsx`) | session, camera, proof of life, frame in flight, timers | watch, start, frame, register, PIN, pause, reload | who is registered has just proved to be there; the camera goes off |
| **Photo retention** (`services/RemotePhotoRetentionService.ts`) | photos on disk, evidence rows | sweep at startup and every hour | an expired photo goes, its marking stays |
| **Marking e-mails** (`services/TimeRecordEmailService.ts`) | delivery and failure rows | one attempt per marking | what came of it is on a row |
| **Biometrics** (`authController.ts` 393-549, `FaceRegistrationModal.tsx`) | samples, their average | capture, enrol, reset | an enrolment is whole |
| **Holidays** (`controllers/holidayController.ts`) | holidays | create, delete | the summaries of the days they touch are refreshed |
| **Reports** (`reportController.ts`) | none | board of the day, bank and totals, attendance report, daily sheet | they tell the same of the same day |
| **Other pages** (`apps/web/src/pages`) | form state | tables and forms over one request each | they show what the API answered |

The audit log is append-only and written after the fact; the schema, seeds and migrations are
data. `PROJECT.json` lists every part with its status.

## The modules

Six families, each under a composition that the runs check (an arrow is EXTENDS):

  * `Journey` -> `AttendanceRules` -> `AttendanceStore` -> {`Punch`, `RecordReview`,
    `MonthlyClosing`, `RequestDesk`} -> `TimeClock` -> {`MCTimeClock`, `TimeClockProofs`};
    `Ledger` is the abstract specification that `TimeClock` instantiates.
  * `Journey` -> `Calculator` -> `Workday` -> {`Reports` -> `MCWorkday`, `WorkdayProofs`}: the
    arithmetic of one day and what the reports make of it.
  * `Evidence` -> {`PinPad`, `Biometrics`, `PhotoKeeping`, `RecordMail`, `HolidayDesk`} ->
    `Aftermath` -> {`MCAftermath`, `AftermathProofs`}: what surrounds a marking.
  * `Directory` -> {`Identity` -> `WebSession`, `Staff`, `Transfer`} -> `Tenancy` -> {`MCTenancy`,
    `TenancyProofs`}: companies, the people they share, and the browser of one of them.
  * `KioskSession` -> `KioskProofs`, and `KioskPage` -> `KioskPageProofs`: the terminal, on the server
    and on its screen.
  * `UserAccess` -> `UserAccessProofs`, and `Hierarchy` -> `Leadership` -> {`MCLeadership`,
    `LeadershipProofs`}.

**Journey** is the order of the four markings of a day; `Accepts` is `normalizeManualType`, what
a registration accepts after the markings that are there, and `Suggested` what `getFaces` tells a
terminal to mark next.

**AttendanceRules** holds the rows and the rules that need no state. Time is a slot number:
two instants of one slot are less than a minute apart (the duplicate window of
`createValidatedRecord`). `LocalDay` is what `getDayBounds` computes, `DateKey` what
`toISOString().split('T')[0]` does; an instance says how far apart they are. `SavedRecord` and `SavedRequest` are what Sequelize's `save()` writes.

**AttendanceStore** holds the tables (`records`, `requests`, `summaries`, `closings`,
`evidence`), their queries, and the three steps of `syncDailySummary`: read the day's
markings, read its approved absences, upsert what was computed from both. What a summary or
a snapshot *contains* is kept as the set of rows it was computed from: two runs that see the
same rows compute the same numbers, and the properties ask only which rows those were. The
rows that `syncDailySummary` reads and these handlers never write (user, schedule, company
profile, holiday) are constant.

**Punch**, **RecordReview**, **MonthlyClosing**, **RequestDesk** have one variable each, a
function from *slots* (requests in flight) to `Null` or the locals of the handler: `pc` names
the query it waits for, the other fields what it has kept from earlier ones. An action is the
code from the answer of one query to the sending of the next, with every early return. A
refusal (any 4xx) ends the handler. `...Fails` is a rejected query.

**TimeClock** composes them and adds the clock (`Tick`) and the restart (`Crash`). Two
constants choose the environment:

  * `Serialized`: handlers of one user do not overlap and a closing overlaps nothing. *The
    code does not enforce this.* It is the regime the tests exercise, and the runs with
    `Serialized = FALSE` show which properties need it and which do not.
  * `Faults`: which faults there are: `"query"`, any query may be rejected; `"restart"`, the process may
    be restarted; `"undo"`, of all queries only the deletion that takes back a remote marking without
    its photo may be rejected, which the code swallows (`recordController.ts` 1071).

**Ledger** is what the API promises: every operation a single step, a closed month frozen,
its snapshot its content. `TimeClock` implements it under the identity mapping (the handlers'
locals, the clock, the summaries and the photos are internal) when handlers are serialized.

**Rows** is the write of `instance.save()`: only the columns that differ from the copy that was
loaded. Every module that saves an instance uses it.

**KioskSession** is the terminal of one company. A session is a signed token that nobody
stores; it is accepted while its `session_version` is the one in `kiosk_controls`, the terminal
is enabled and the company active. Logins (`LoginFind` compares the key, `LoginSign` reads the
version and signs) run beside releases, revocations, key rotations (a transaction whose first
read fixes what it later reads) and suspensions (a transaction that locks the company's row).

**UserAccess** is the access of a user: restrictions set and lifted by `changeUserStatus`,
editions by `updateUser`, removal by `deleteUser` (row first, membership second), and the two
paths that release a restriction that has ended, the job of each minute and the user's own
requests, each from a copy it loaded earlier.

**Hierarchy** holds the rows of the leadership (users, levels, links) and the three questions
the API asks of them: may this leader act on that user (`isManagerResponsibleForUser`), whom
may they act on (`getManagedUserIds`), to whom does a request go (`resolveRequestRouting`). The first
two are behind two guards, which `Allowed` and `Listed` add: the session is of an active user
(`authMiddleware.ts` 103) and the handler looks at leadership for the role `manager` only
(`requestController.ts` 146); the third is behind neither. The
screens are two of these with a permission each: whom `TeamOf`, `RecordsOf`, `RemoteOf`, `FacesOf`,
`RequestsOf` and `ScopedUsers` list, and what `MayOpenFile`, `MayEnrol`, `MayDecide` and
`ScopedUser` let through.
**Leadership** adds the handlers that change the rows: `updateDepartmentHierarchy`, a
transaction under repeatable read (it reads from a snapshot and writes to the rows as they
are), `deleteDepartment` query by query, `createDepartment`, and the editions of a user.
**MCLeadership** gives it small scenes.

**Calculator** is the arithmetic of `AttendanceCalculator.ts`: worked, late, night and credited
time, and when a workday is required. **Workday** is one employee's day: the clock, the valid
markings, the plan (schedule, holiday, employment), what the approved requests cover, and the
summary stored at the last change. Every handler that changes the day is one step that ends with
`SyncDailySummary`, the row `syncDailySummary` stores at that instant; `TimeBank` and `DailySheet`
are what `buildAttendanceMetrics` and `buildDailyTimeline` compute from the same rows at any later
moment with the reports' own copies of the calculator. A holiday is a date in the table:
`syncDailySummary` asks for the date of the day (`PaidHoliday`), the reports read the stored date as an
instant, midnight in UTC, and take its local day (`ReadHoliday`, `reportController.ts` 859-861), which
west of UTC is the day before. So a plan has the holidays stored with the date of the day and of the
next day, and says on which side of UTC the server is. Where the copies differ the module has two
definitions (`CalculatedWork` and `ReportedWork`, `Workload` and `ReportWorkload`, `RequiresWorkday`
and `ReportExpected`), where they are the same text it has one. The stored summary is a state, the
reports are functions of it: what can go wrong between them is the moment each was computed.
**Reports** adds the endpoints: the totals of a period and the time bank since hiring
(`Metrics`, `CumulativeBankHours`), the attendance report with its view of today, the summary above
the daily sheet, and the board of the day (late, missing, absent). Days are numbered from the day of
`Workday`; the days around it have the same schedule and no marking. A report reads the holidays stored
with a date of the period it was asked for (`Context`), whatever day it then finds them on.
**MCWorkday** gives them ten plans, two of them west of UTC, five covers and two days of hiring.

**Evidence** holds what the modules around a marking share: the clock, the users, the markings
that were made, the requests in flight (`work`, by slot), the number of queries that failed, and the
`scene`, a record of which requests arrive and whether they overlap. **PinPad** is
`registerRecordByPin` (attempt window, awaited lookup, failure or success) with the forms that give
PINs and change statuses. **Biometrics** is the enrolment: the guided capture of
`FaceRegistrationModal`, the samples and the average that `registerFace` and `resetFace` write
query by query. **PhotoKeeping** is a remote marking from the upload to the evidence row, its
compensation, and the sweep that back-fills evidence and removes what has expired, row by row.
**RecordMail** is the e-mail after the answer with its delivery and failure rows.
**HolidayDesk** is the creation and deletion of holidays with the refresh of their day, beside any
other handler that writes a summary. **Aftermath** composes them, with time passing and the process restarting
(`Restarts`: requests and the attempts in memory are lost, the rows remain).

**Directory** holds companies, accounts, one user row per company and person, memberships and
reset links. A hash is the number of those made before it, for bcrypt salts each; which of them are of
one password (`SamePassword`, `bcrypt.compare`) is said by the `words` of the scene, so a person may
choose the password they had, or that of somebody else. **Identity** is the login of an account, the selection of a company, the reset and the change of a password.
**Staff** is who is hired: creation of users and of a company with its administrator, editions,
linking and unlinking. **Transfer** is backup and import: the dump is read table by table, staged
in tables that every import uses, and replaces the company's rows in a transaction. Besides users and
what refers to them by foreign keys (`marks`) it has what else may stop an import (`held`): the
departments, the department each request was routed to, in a column without a foreign key that
`deleteDepartment` leaves as it is, and whether there is a row with a value in a JSON column.
`Loads` is what `mysqlEscape` makes of the last: a value that the driver has parsed, as it does on MySQL,
is written as the list of its parts, which is no row of the table; MariaDB gives text, which is. **WebSession**
is one browser tab: its two stores (`session`, `platform`), the session to return to (`origin`),
the page it shows and the requests it waits for; an answer comes at any time and does what the
`then` of its page does, wherever the tab has gone. A request is handled by the server when its
answer is read, in a serialized scene when no other is being handled. **Tenancy** composes them;
`Calm` names the scenes where no request overlaps another, or none of those that do renames or
replaces users.

**KioskPage** is the screen of a terminal: the watch of its session every five seconds, the faces,
one camera frame at a time (each with the proof of the render it was taken in), the movements of the
proof of life, the match, the registration, the PIN, the two timers, the buttons and the daily
reload. People are in front of the camera or not; `calm` says whether they wait for each other.

`regime` in `KioskSession`, `UserAccess` and `KioskPage` and `scene` in `Leadership`, `Aftermath` and
`Tenancy` are variables that are chosen at the start and never change: one run looks at several environments, and a property
that needs one says so in its formula. Like `Serialized` they are assumptions on the
environment, never enforced by the code.

## What the runs check

| Run | Module | Environment and bounds | Shows |
|---|---|---|---|
| `Punches` | MCTimeClock | serialized, faults, one user, kiosk and remote; five slots, the last with the next day's UTC date; four records, the length of a journey | `JourneyLegal`: whatever fails, a day's markings are in order, a type once, nothing missing, and what a terminal is told to mark next is what the API would mark |
| `Overlaps` | MCTimeClock | no order at all, fair; a remote marking's photo may fail and so may the deletion that takes the marking back; one month, a punch, a review and a closing at once, web and remote | `RemoteHasPhoto`; every record that is not stranded so reaches the summary of its day (`RecordIsSummarised`); a month that stays closed stops changing (`ClosedMonthSettles`) |
| `Fresh` | MCTimeClock | serialized, no faults, UTC; two days, two markings, two requests, two adjustments, every writer | `SummaryFresh`: every path that changes a day refreshes it; no marking leaves its day (`RecordKeepsItsDay`) |
| `Months` | MCTimeClock | serialized, faults; every kind of handler, one month | `ImplementsLedger` (refinement; with it a closed month is frozen), `SnapshotFaithful` |
| `Kiosk` | KioskSession | faults; two keys, two terminals, three advances of the version; regimes `one_admin` and `serialized` | `EndedForGood`, `RotationEndsAll`, `CurrentKeyOnly` |
| `Capture` | KioskPage | two people, two frames per movement, match and loss, one timer of each kind at a time; `calm` and `free`; fair timers, refusals and reload | `ProvenBeforeSent`, `SentIsAnswered`, and in the end `OutcomePasses` and `CameraGoesOff` |
| `Access` | UserAccess | one user, one administrator, one request and the job; three instants; all regimes | `RowAgrees` when handlers do not overlap; `RestrictionsEnd` in all |
| `Hierarchies` | MCLeadership | five scenes of two users, one or two departments, two levels ever created | `HierarchySound` under overlaps; `LastLinkDecides`, `ActiveKeepDepartment` without; `ScopesAgree` in all; `RoutedMayDecide`: in all, who is routed a request may decide it or has lapsed, and without overlaps only an edition of a leader makes one lapse |
| `Workday` | MCWorkday | a unit is an hour; seven moments from the evening before to the second afternoon; ten plans (eight in UTC or east of it, two west), five covers, one adjustment | `SheetMatchesBank`, `SummaryMatchesBank`: three computations of one day agree, the stored summary where it takes the day for a paid holiday as the reports do; `ReportsAgree`: so do the totals, the board and the report of today; `NoOvertimeByCredit`, `NightCounted`; `SettledDayStands` |
| `Tenancy` | MCTenancy | two companies, people, e-mails, departments, accounts and slots, three hashes of two or three passwords; ten scenes of three to five requests, four serialized, four overlapping, and two of one tab (eight steps that wait for their answers, six that do not) | `OneIdentity`, `OffersEveryCompany` where it is calm; `MarkFallsByChoice` when requests do not overlap; `LinksAreSpent`, `RestoresBackup`, `SessionsAgree` |
| `Aftermath` | MCAftermath | six scenes, one per kind of request; two users, two PINs, two markings, a window of two, one failing query or restart in five of them; fair handlers, e-mails and sweep | `PinMarksItsOwner`, `FailuresLock`, `EnrolmentWhole`, `HolidaysReachSummaries`; `PhotosLastTheirTime` and `MarkingsAreNotified`, each with what must happen in the end |
| `DoubledMarking` | MCTimeClock | two punches at once | refutes `NoTypeTwice` |

The bounds are chosen so that the interesting case happens and no more. Four records in five
slots are a whole journey and a refused fifth marking. Two handlers of a user are enough for
every race the code has: each reads one row, waits, and writes one row, so a third only
repeats what the second did. One month is opened, closed, reopened and closed again as often as
the other bounds allow. Two days are enough for a row to be on the wrong one. Three advances of
`session_version` are two ended generations of sessions and the present one. In `Workday` the moments lie before the day, at its schedule's beginning, at both ends of
lunch, in the night, just after midnight with journeys in progress and not, and sixteen hours after
any entry; an hour as the unit puts the thresholds of six and sixteen hours between moments, on them
and after. Two levels and two users make every comparison of levels (above, same, below, none) and
let one leader lead here and not there. In `Tenancy` a shared person needs two companies and two
e-mails, a race two slots, a request without its department two of them, one of which stays; people,
e-mails, departments and slots are interchangeable, and as the run checks no
liveness its `SYMMETRY` is sound. The scenes `rows` and `text` are the departments and JSON columns of a
company on MySQL and on MariaDB; in the others nobody writes any. Eight steps of a tab are a login, two accesses with their returns
and another person's login. In `Aftermath` a lock needs one failure more than the bound within the
window, an enrolment two positions and a repeated one, a sweep a photo that has expired and one that
has not. In `Capture` two frames tell "in a row" from "once", and two people who is who. Every
property has been seen to fail when the definition it rests on is changed the way a bug would change
it; the definitions named *Mutant of* are those changes.

`CHECK_DEADLOCK FALSE` stands where the model may stop for good: when its clock, its tables or
its versions have reached their bounds nothing is left to do, which in the program is merely
quiet.

Fairness is weak fairness of the steps of handlers that have begun (the event loop resolves
every pending `await`), of the periodic jobs (`setInterval` of the restrictions in `UserAccess`, the
sweep at startup and every hour in `Aftermath`) and, in `KioskPage`, of the page's two timers, of the
answer to a registration and of a reload that waits. Nothing is assumed of arrivals, of the order in
which handlers are resumed, of the people in front of a camera, or of the clock. Faults are bounded
where liveness is checked: a process that is restarted again and again finishes nothing.

## What the runs refute

`DoubledMarking` is expected to find a violation: two punches that overlap mark one type twice,
which `recordController.ts` 401 says is refused. `PROJECT.json` quotes it.

Others were met while modelling. These are the violation of a property of a passing run once its
condition on the regime is dropped:

  * `JourneyLegal`, `ImplementsLedger` and `ClosedMonthSettles` speak of handlers that do not overlap,
    or of what is left when they have ended: a handler that found the period open (`recordController.ts`
    495 and 902, `requestController.ts` 337 and 634) writes later and without a transaction, so it may
    write into a month closed meanwhile ("Competencias fechadas bloqueiam alteracoes", `ClosingTab.tsx`
    98).
  * `SummaryFresh` in a process west of UTC: an evening marking refreshes the next day's summary and
    not its own, because the day is taken from the UTC date (`recordController.ts` 533, 919, 1076).
  * two overlapping assignments both find a day free (`requestController.ts` 339) and both give it an
    absence.
  * `RotationEndsAll` and `EndedForGood`, administrative operations overlapping: the rotation
    reads `session_version` from a snapshot taken before it hashes the key
    (`companyController.ts` 119-129), so it may write a version that has been used since.
  * `CurrentKeyOnly`, a login overlapping a rotation and a release: the login compared the old
    key and signs with the new version (`authController.ts` 822-834).
  * `RowAgrees`, the release overlapping an administrator: it saves the copy it loaded
    and lifts a restriction set since (`UserAccessService.ts` 16-29).
  * `LastLinkDecides`, updates of hierarchies overlapping: each replaces the levels, and counts the
    links, of its own snapshot (`departmentController.ts` 156, 197).
  * `ActiveKeepDepartment`, an edition overlapping a deletion: the users are counted several
    queries before the department goes (`departmentController.ts` 264-281).
  * `PinMarksItsOwner` and `FailuresLock`: overlapping editions give one PIN to two users (the lookup
    is awaited before the save, `userController.ts` 355), overlapping attempts exceed the lock.
  * `EnrolmentWhole`: an enrolment and a reset that overlap leave an average without samples; a
    query that fails between destroying and saving leaves the old average.
  * `ProvenBeforeSent` counts a stale frame: a reading stopped and started within a frame keeps one of
    the frames taken before (`Kiosk.tsx` 782); `CameraGoesOff` in the free regime: a session that ends
    while the camera is being started leaves it on (`Kiosk.tsx` 474, 1393).
  * `SessionsAgree` for a tab that does not wait: the answers of a login, a selection, a switch and an
    access are obeyed wherever the tab has gone since, so one answered after the logout logs in again,
    and an access answered after another login makes the return lead to that person's session.
  * `OneIdentity` and `OffersEveryCompany` where it is not calm. `updateCompanyAdmin` counts the
    companies of the account before its transaction (`platformController.ts` 656) and renames the
    account in it (672), although "E-mail e senha de uma conta vinculada a várias empresas devem ser
    alterados pelo próprio usuário": a company that hires the person in between has then a user of the
    old e-mail on an account of the new one, and its user of the new e-mail can never be linked, so the
    login goes on without that company. That takes two hirings and a login besides the rename, one
    request more than the run's overlapping scenes have; it was found while looking for the invariant of
    the proof. An import that replaces a user whose hiring is under way leaves a membership of two
    e-mails too.
  * `MarkFallsByChoice` and `RestoresBackup` while imports run: an import restores the temporary
    flag of its dump, and a backup taken while rows are inserted may refer to rows it does not hold and
    can then not be imported.

Four are exceptions that a property names in its formula, each a state of the code that its reader
would not expect:

  * `MarkFallsByChoice` asks for another password of a link only. `changeAccountPassword` never compares
    the new password with the present one (`accountAuthController.ts` 119-127), as the reset does (152),
    so a temporary password that is "changed" to itself drops the mark, although "Troque a senha
    temporária antes de continuar." A reset that stops before the users have the new hash leaves their
    mark and their temporary hash, and a later link compares with the account's password only, so that
    it may choose the temporary one again.
  * `RoutedMayDecide` excepts who has lapsed (`Lapsed`): `resolveRequestRouting` (`requestController.ts`
    87-99) looks at no role or status, so a linked leader whom `updateUser` has made an employee, or
    `updateUser` or `changeUserStatus` inactive or suspended, goes on being routed the requests of the
    department, which they are then refused (146-148, `authMiddleware.ts` 103); nobody else is routed
    them.
  * `RestoresBackup` excepts dumps whose requests name a department that is not there (`Orphans`).
    `deleteDepartment` (`departmentController.ts` 255-288) leaves `employee_requests.target_department_id`
    as it is, the backup takes both, and the import throws "Legacy reference not mapped"
    (`tenantTransferService.ts` 269-275): from the deletion on every backup of that company is refused,
    until the request is deleted. It speaks of dumps that were loaded: on MySQL the dump of a company
    that has a schedule with its days or its hours, a leader with permissions or a closed month does not
    load at all (220), and the property says nothing of it.
  * `RemoteHasPhoto` excepts a marking whose deletion was itself rejected, and one that a restart leaves
    behind (`Stranded`). It stays, without a photo and, the refresh coming after the photo, without
    a summary (`RecordIsSummarised` excepts it too); the user was answered that the marking failed.

These are behaviours that the models have and no property forbids, because the repository does not
say which way they should be, or says it only of another place:

  * a terminal sends for a recognised face the type suggested when its faces were loaded, at login or
    at the daily reload (`Kiosk.tsx` 528-545, 1178-1185), and nothing renews it after a marking: from a
    person's second marking of the day on the suggestion is of a type that is there and the API refuses
    it ("já foi registrada hoje"), unless the type is chosen by hand. The screen says the suggestion uses
    "as batidas feitas hoje" (`Kiosk.tsx` 1679);
  * `assignAbsence` asks whether a leader is responsible for a user without saying which
    (`requestController.ts` 321), so a leader may assign an absence to a leader of the same level
    (`MayAssignAbsence` and `AbsencesGoDown` in `Hierarchy` say so; no run checks them);
  * the remote markings of a leader ignore the user asked for (`reportController.ts` 2031-2033
    replaces the filter), and a leader may enrol or reset the face of a
    user who is no longer active, whom no list shows (`authController.ts` 433, 520);
  * the sweep's back-fill may write the evidence of a marking whose handler is about to write it: the
    handler fails on the duplicate, its undo fails on the foreign key, and the marking stays without the
    refresh of its day; a crash leaves files without rows, and the e-mail of a marking is lost;
  * a refused PIN stays on the kiosk's screen until somebody acts and freezes a recognition
    (`Kiosk.tsx` 1310); the timer of an outcome stops a reading started since (1259); closing the remote
    marking dialog while its camera starts leaves the camera on;
  * a holiday changes days of closed months, whose snapshot is not rebuilt; rows stored ahead of a
    holiday and those of users who are reactivated keep the old calendar;
  * `updateUser` refuses an e-mail by counting active memberships only (`userController.ts` 525-535); an
    account created with a temporary password in one company is linked in another without
    the obligation to change it (`platformController.ts` 584), although "Troque a senha temporária antes
    de continuar."; imported memberships are active even for inactive users, and accounts of deleted
    users stay; an edition of a user leaves the hash of the user row behind that of the account;
  * a session that must change its password, or was revoked, stays on a dashboard whose requests all
    fail, for the refusal of `me` is ignored (53-55): `Dashboard.tsx` 92 says "The HTTP interceptor or the next authenticated request will surface
    session errors.", and `http.ts` has no response interceptor; the logout of a dashboard reached
    from the global panel leaves the panel's session in the browser; a late refusal of the panel's list
    clears the sessions of whoever has logged in since.

Others are differences between the copies of the arithmetic, met while finding where they agree
(`PlainSchedule`, `ClosedDay` and `PaidAlike` in `Workday` say where):

  * the reports read the date of a holiday as midnight in UTC and take its local day
    (`reportController.ts` 859-861), `syncDailySummary` asks for the date (`AttendanceService.ts` 66). The
    program reckons with São Paulo (`database.ts` 31, `userController.ts` 225), and in a process that
    runs at that time the reports pay every holiday on the day before, and the daily sheet, which asks for
    one date, knows none; the stored summaries have the right day. A holiday on the first day of a period
    is on no day of it, and one on the day after its last day is not read. The board's requests of
    today are shifted likewise (1429);

  * a day of more than six hours without a lunch marking: the reports deduct the planned lunch
    (`reportController.ts` 264-267), the stored summary does not, and the comment on a direct exit
    in `recordController.ts` (about line 403) says the employee "receives those minutes in the time
    bank";
  * a schedule that ends the next day, and a workload set for the weekday, are known only to the
    reports (`reportController.ts` 115-119, 344-345); the calculator sees no workload;
  * a journey without exit counts up to now for 16 hours in the reports and then not at all, and a
    lunch that was begun and whose end was rejected grows meanwhile, also on a day with an exit;
    the stored summary counts neither;
  * hours of the entry's day before the end of the night are night work to neither copy: the loop
    begins with the night that begins on that day (`NightCounted` assumes an entry after dawn);
  * a declaration is credited by its length, not by the part of it that was not worked, so one
    that overlaps the work pays for other missing time (`AttendanceCalculator.ts` 49-67);
  * a summary stored before the day ended is not recomputed when it ends: an unfinished day owes
    nothing in `attendance_summaries` until something changes it.

Others are differences between the reports, met while finding what `ReportsAgree` may say:

  * the attendance report and the board read holidays and requests of the period asked for only, so
    one that does not reach today makes a person on approved external work "missing" (the comment at
    `reportController.ts` 1368 says external work raises no alert), and the report's view of today is
    not told of a holiday at all;
  * missing and absent on the board ask neither for the hiring nor for a suspension, skip schedules
    without times, and never call a night schedule whose entry and tolerance pass midnight;
  * the board leaves rejected markings out, the bank's absence counts any record; the board lists the
    status of a request that was rejected, and a day of external work whose newest request is an
    adjustment as absent;
  * the summary above the daily sheet takes an exit without entry for a complete day, and knows no
    external work when it measures delays and holidays.

Two more are left out of the properties' formulas and named beside them: a user who is their
own direct manager is in the list of those they manage and fails the test (`ScopesAgree`), and a
request that falls back to a direct or department manager who leads another department may not
be decided by them (`RoutedMayDecide` speaks of employees who lead nothing in a department that has
approvers).

## What is proved

The proofs hold for every value of the constants, with the named assumptions of the modules
(`StoreAssumption`: calendars are functions of the declared domains; `DirectoryAssumption`: companies
and people are finitely many; `NullAssumption`,
`HandlerAssumption`, `TenancyAssumption` and their kin: `Null` is none of the values it stands in for,
neither an id, a row nor the locals of a handler; `ModeAssumption`, `KioskAssumption`,
`HierarchyAssumption`: bounds are numbers, modes are modes). None says anything of the order of steps:
where a theorem needs handlers that do not overlap, queries that do not fail or a process that runs in
UTC, its statement says so.

  * `TimeClockProofs`. `TypeCorrect`: the tables and every handler have their types under every
    interleaving and every fault. `RecordsKeepTheirDay`: no step moves a marking to another day
    or user. That is not inductive: a save writes a time that was computed from a copy loaded
    earlier, so the invariant must speak of what handlers are *about* to write
    (`WritesStayOnDay`): ids are not reused, the copy a review holds is on the day of the row,
    and so is the time it will write; the same for each time a decision will apply. Every step
    then either leaves a row where it is or writes a time of the same day. This is why the
    single period check of each handler, made on the copy, is enough for the row.
    Its second half is what `TimeClock` promises when the handlers of a user do not overlap. The
    inductive invariant there is `SerialInv` (`ChecksStillHold`): a handler that waits is alone with the
    rows of its user (`Alone`), so that what each of its earlier queries found out still holds
    (`HandlersHold`: the month is open, the type is the next one, the copy is the row, every marking
    to be adjusted is known, a closing's content is the month's). From it
    `TimeClockImplementsLedger`, the refinement: each query that writes is one operation of `Ledger`
    with all its conditions, each other step a stutter. `SnapshotsFaithful` is carried along the
    abstract steps rather than the detailed ones: a closed month's content is frozen in `Ledger`.
    `JourneysLegal` adds to the journey of each day that it stays one when a marking that may still be
    taken back is left out; the last marking of a day is taken as the greatest element of a set of
    times, whose existence is a fact of finite sets. `SummariesFresh` adds that a summary is fresh, or
    a handler of its user still has that day on its way. `RemotePhotos` needs neither order nor the
    absence of faults: evidence belongs to a record that exists, as the row goes only where its photo
    was not stored, and a remote marking has its evidence, or its own punch is about to store or delete it, or it
    was stranded before, or is now, by a restart or by the rejection of that deletion. `NoneStranded`
    says of processes with neither of these two faults that nothing is ever stranded.
  * `KioskProofs`. `KioskTypeCorrect` in every regime; then, from the inductive invariant
    `SessionsOrdered`: while administrative operations do not overlap, each works on a fresh
    copy, no session is ahead of `session_version`, and a blocked terminal (so also that of a
    suspended company) is ahead of all of them. `EndedSessionsStayEnded` and `RotationsEndAll`
    follow: a session that is not accepted is behind, and the version never goes back. With no
    login overlapping them the sessions of the present version know the present key:
    `PresentKeyOnly`.
  * `KioskPageProofs`, under `KioskPageAssumption` (nobody is `Null`, the counts of missing frames and of
    timers are positive, and a face or a movement takes more than one frame, as the constants of
    `Kiosk.tsx` 73-74, both 2, do). `PageInv` has the types and three parts. `Shown`: the movements asked
    for before the present one were shown, and who made the first is known. `FrameOfProof`: a frame that is
    being looked at is of the present movement, or its proof was cut and nothing is known of the next.
    `Calm`: where nobody interferes, a start, a frame, an outcome that waits to leave the screen and a PIN
    exclude each other. `RegisteredAfterProof` (`ProvenBeforeSent`) and `RegistrationAnswered`
    (`SentIsAnswered`) follow. The assumption is needed: with one frame, a frame that outlives its proof
    would count for the next one.
  * `WorkdayProofs`, under `CalculatorAssumption` and `WorkdayAssumption` (an hour is a positive
    number of units, the window of the night is two times of a day, the inputs have their types):
    every property of the run, for every unit of time, schedule, window, set of moments and cover.
    `WorkdayTypeCorrect`; `SheetAlwaysMatchesBank`, `NothingIsDueAhead`,
    `DeclarationsAreNoOvertime` and `NightIsExact` follow from the types, the day's numbers being
    functions of the state; `SettledDaysStand` is an action property: once 16 hours have passed
    since the entry neither the exit nor the lunch that the reports use depends on the clock.
    `SummaryAlwaysMatchesBank` is not a fact about one instant, since the summary was computed at
    another: its inductive invariant `Dated` says that each stored summary was computed at some
    instant not before the markings it counts, from which a complete day gives the same work and
    debit then and now; that the two keys of a holiday agree is its condition (`PaidAlike`) and not an
    assumption of the module.
    `ReportsAlwaysAgree` needs that a total over a period is the sum over its days, and that a day more
    adds what that day has. The total is a recursive function on the sets of days: that there is one,
    and that its equation holds, comes from the well-foundedness of proper inclusion between finite
    sets, and the induction is done by taking a least counterexample, since the library's induction
    theorems take an operator that no prover here can instantiate.
  * `LeadershipProofs`, every property of the run. `ScopesAlwaysAgree`: the list and the test of scope
    agree on any well-typed rows, so the agreement does not depend on how a hierarchy came to be.
    The others rest on `HierarchyInv`. Its first half holds whatever overlaps: ids of levels are
    fresh, levels of a department have different positions, every link has its level and every level
    its department, and an update under repeatable read will not take a level created since for one of
    its snapshot (`SnapshotsHold`); `HierarchiesSound` and the first half of `RoutedAlwaysMayDecide` (the
    nearest level above, by induction on positions; who holds it may decide if their role and status
    let them) follow. Its second half is about requests that do not overlap: the
    snapshot is current, nobody has two links in a department, a department past the count is empty, and who
    is about to be demoted leads nothing; `LastLinksDecide`, `ActivesKeepDepartment` and the second half of
    `RoutedAlwaysMayDecide`, that of all handlers only an edition makes a leader lapse, follow.
  * `UserAccessProofs`. `AccessTypeCorrect`; `RowsAgree` and `ReleasesAreDue`, the safety half of
    `RestrictionsEnd`, from `AccessInv`: a handler that is alone with its user saves a copy that is
    the row, what it saves is consistent, what is released has expired, and row and membership
    disagree only between the two writes of a removal or a return.
  * `AftermathProofs`, every invariant of the run and the safety half of its other two properties, with
    requests of every kind in one scene where the run has a scene for each. `AftermathInv` has one part per component; a step of another
    component leaves its requests and the columns it reads alone, which the effect of each step
    states once (`PinEffect`, `FaceEffect`, `PhotoEffect`, `DayEffect`, `StaysBehind`).
    `PinsMarkTheirOwner`: an edition saves a PIN that is still free, and who was found still has it.
    `FailuresAlwaysLock`: the counter of a terminal covers all its recent failures and a PIN is looked
    for only where it is not locked (`misses`, the failures of a terminal as a set, is there for
    this property only). `EnrolmentsWhole`: an enrolment knows what samples are there at each of its
    queries. `HolidaysReach` assumes `StatusKept`, that nobody is made inactive or active again where
    holidays change: an inactive user's rows are not refreshed, so the property is false of one who
    comes back.
    `PhotosKept` (`PhotosAreKept`) and `OutcomesLogged` (`OutcomesAreLogged`) rest on `AftermathKept`. A
    photo belongs to one handler until it is recorded and to one marking after that (`Owned`); at each
    stage of its handler it is known where the file, the row and the evidence are, what may still be
    filled in, and what the sweep read before it deletes anything (`PhotoInv`). That a refused marking leaves
    no photo is claimed of requests that do not overlap and of one failed query: with two, the file
    can stay behind. `MailInv` says the same of an e-mail and the two rows of its outcome.
    `AftermathTypeCorrect` adds how far the counters go (`Bounded`): a capture that is being looked at
    leaves room for one more, and what an enrolment adds was captured.
  * `TenancyProofs`, every property of the run. `TenancyInv` holds whatever overlaps: an e-mail has
    one account, a membership and a link have theirs, what a request has found is still there, and no
    row, link or dump holds a password that was not chosen yet, so that a new one opens no old link
    (`LinksStaySpent`). Of the tab it says that a patient person waits for at most one answer that
    moves them, and which sessions that answer may find (`SessionsAlwaysAgree`; it also gives the types,
    `TenancyTypeCorrect`). In serialized scenes the copies of a request are the rows, and a change that
    has saved its hash holds the hash of its account, by a link one of another password than the link's
    (`TemporaryStaysMarked`). `TransferInv` is about what refers to users: managers and marks are there,
    in the tables, in a backup under way and in a dump, an e-mail has one user in a company, and the
    staging database holds the dump of the only import; `ImportsRestore` follows, a dump's managers,
    e-mails and departments being what makes its rows acceptable. `IdentitiesStayOne` and `EveryCompanyOffered` need
    `CalmInv`: where it is calm accounts, users and memberships stay what they were (`Stable`), so each
    handler is still sure of what it found queries ago (`Sure`: the users of its e-mail, its account,
    the users it has linked), and what it adds is matched (`MatchedAnew`).

Only model-checked: the properties that say what must happen in the end, `RecordIsSummarised`,
`ClosedMonthSettles`, `RestrictionsEnd` beyond `ReleasesAreDue`, `OutcomePasses`, `CameraGoesOff`, and the
`[]<>` halves of `PhotosLastTheirTime` and `MarkingsAreNotified`, since fairness and `ENABLED` are out of
the prover's reach. `TypeOK` of every composition (`TimeClock`, `KioskSession`, `KioskPage`, `Workday`,
`UserAccess`, `Leadership`, `Aftermath`, `Tenancy`) is proved.

## What is not modelled

  * Other lists and exports: the exception queue, pending approvals, labels and statuses, the
    biometric reports, spreadsheet layout, the list of closings. The audit log. Wording, layout,
    attachments, mail transport, CORS and rate limits, static files.
  * `login`, `getCurrentSession`, `requestPasswordReset`, `resetPassword` and `changePassword` of
    `authController.ts` (150-392): no route reaches them; the routed ones are in
    `accountAuthController.ts`.
  * In `Workday`: the rounding of seconds (a marking is on a whole unit), days of 23 or 25 hours, a
    schedule or holiday changed after the day, and a rejected marking that a second review or an
    adjustment brings back (`TimeClock` has that).
  * In `KioskPage`: the picture (light, torch, size and position of a face, distances between
    descriptors), the record type, the company's name and slug, diagnostics. What a terminal's frame
    shows is a choice of the environment.
  * In `Aftermath`: the descriptors' numbers; more than one process.
  * In `Tenancy`: dumps of older versions and the normalisation of their leadership
    (`tenantTransferService.ts` 158-201), the transfer log, name columns, restrictions at login; a second
    tab that shares the stores; the expiry of tokens, beyond a refusal that may come at any time; the
    permissions inside a session. Platform users are constant: no route changes them.
  * The other pages of the web application: forms and tables over one request each.

`PROJECT.json` gives the reason for each part.

## Plan

What remains, in this order:

  1. The record type a terminal sends, with suggestions that age, in `KioskPage`.
  2. Work schedules edited while days are open (`upsertUserSchedule`), as a writer beside `HolidayDesk`.
