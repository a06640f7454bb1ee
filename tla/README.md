# AHCMS in TLA+

AHCMS is a college management system: a FastAPI backend over PostgreSQL
(`src/backend`), two Angular applications (`src/frontend-staff`,
`src/frontend-portal`) and set-up scripts. This directory specifies the
backend's services and the part of the staff application that depends on their
order in TLA+, checks them with TLC and proves most of the safety with TLAPS.
Paths below are relative to `src/backend/app/` unless they start with `src/`.

## 1. The system

The backend keeps all state in PostgreSQL. A request takes one database session
(`db/session.py:get_db`), reads, checks, writes and commits; an exception of any
kind rolls everything back. Nothing serialises two requests except the database:
its row locks, constraints and isolation level (READ COMMITTED, the default).
The hard behaviour of this program is therefore the interleaving of requests
between a check and the write that relies on it.

| Component | State | Operations | Interacts with | What makes it correct |
|---|---|---|---|---|
| Enrolments (`services/enrollments.py`) | `enrollments`, `subject_enrollments` | enroll, move class, set subjects, unenroll | seat accounting, classes, attendance, exams | one class per student, picks offered by the class, no pick without an enrolment |
| Seat accounting (`services/capacity.py`, `db/models/subject.py`) | `subjects.student_count`, `student_limit`, row locks | claim_seat, release_seat | enrolments, subjects, reconcile_counts | counter within the limit, counter equals the rows it caches, no overbooking, no seat lost |
| Subjects, classes (`services/subjects.py`, `classes.py`) | `subjects`, `classes`, `class_subjects` | create, update, set_classes, delete | enrolments, attendance, exams | nothing in use is deleted or detached, a limit never below the takers |
| `cli/reconcile_counts.py` | the counters | recompute | everything that takes seats | repairs, never damages |
| Refresh sessions (`services/auth.py`, `api/v1/auth.py`, `student_portal.py`) | `refresh_sessions`, accounts | login, refresh, logout, revoke, reset password, deactivate | browser clients | a revoked session stays dead, the cap holds, a reset locks everyone out |
| Attendance (`services/attendance.py`, `core/clock.py`) | registers, marks | open, mark, replace, delete, summarise | enrolments (`enrolled_at`), classes, the college's clock | one register a day, only members marked, nothing removed unseen, reports agree with registers |
| Exams (`services/exams.py`) | exams, papers, marks | create, set total, enter marks, delete | subjects, picks, classes, faculty and their accounts | only takers marked, only by a teacher or the office, a mark says one thing, no mark above its total |
| Admissions (`services/sessions.py`, `students.py`) | batches, roll counter, students | create a batch, admit, update, allocate_roll_no | refresh sessions | roll numbers in order, none shared |
| Staff RBAC (`services/users.py`, `api/deps.py`, the migration of the write permissions, `cli/seed_superadmin.py`) | users, roles, permissions, access tokens | create, assign, edit, delete, migrate, seed | every endpoint | super admin role whole, no assignment to nothing, tokens lag by their lifetime |
| Programs, classes, faculty, subjects (`services/programs.py`, `classes.py`, `faculty.py`, `subjects.py`) | rows with unique names and references | create, update, delete | everything that refers to them | references stand, equal names refused |
| Browser clients (`src/frontend-staff`, `src/frontend-portal`) | access token, the refresh in flight, list pages | authorise and replay, save, load a page | refresh sessions | one refresh at a time, a save applied once, the latest query is shown |
| Rate limit, plumbing, scripts | - | - | - | not modelled, see section 8 |

`PROJECT.json` lists each of them with its sources and status, and under
`hazards` what can go wrong at which line.

## 2. Modules

| Module | Models | Extends |
|---|---|---|
| `SeatDb` | the tables seat accounting lives in, the statements of `capacity.py`, row locks, constraints, commit and rollback; the properties of the tables | |
| `SeatAllocation` | abstract: what enrolment promises when each request is one indivisible step and there is no counter | |
| `Enrollments` | the four enrolment endpoints, one SQL statement a step; refines `SeatAllocation` | `SeatDb` |
| `SubjectAdmin` | set_classes, update_subject of the limit, delete_subject, delete_class, reconcile_counts | `SeatDb` |
| `SeatSystem` | enrolment requests and administrative sessions over the same tables | both |
| `SeatSystemProofs` | theorems about the counters, their locks and the rows, whatever overlaps | `SeatSystem` |
| `SeatBalanceProofs` | theorems that need editors of one enrollment kept apart: exact counters, no overbooking, offers, the refinement of `SeatAllocation` | `SeatSystemProofs` |
| `SessionBook` | abstract: a register of refresh sessions with the cap and revocation for good | |
| `RefreshSessions` | logins, refreshes, logouts, revocations, resets and (de)activations, one SQL statement a step, and the cookies in the browsers; refines `SessionBook` | |
| `RefreshSessionsProofs` | theorems about types, revocation, lock-out, eviction, passwords and cookies, and the refinement of `SessionBook` | `RefreshSessions` |
| `Attendance`, `AttendanceProofs` | registers and marks, one SQL statement a step, with joining, leaving, class deletion and time around them; its theorems | |
| `Exams`, `ExamsProofs` | exams, papers and marks, one SQL statement a step, with the college around them; its theorems | |
| `Staff`, `StaffProofs` | accounts, roles, grants, access tokens, the migration of the write permissions and the bootstrap; its theorems | |
| `Registry`, `RegistryProofs` | programs and classes, faculty and subjects, batches and students: create, update, delete, and roll numbers; its theorems | |
| `StaffPage`, `StaffPageProofs` | one page of the staff application: list, form, interceptor, session service, against a server whose answers come in any order; its theorems | |
| `MC...` | constants of the runs | |

The modules are not composed with each other, except where section 2 says how one
stands for another. What two of them share is either a column that each reads once
(`students.is_active`, `faculty.user_id`) or is in both, each time as the steps the
module's own properties depend on: `Attendance` has joining and leaving a class as
single steps, whose own races are those of `Enrollments`; `Exams` has the deletion of
classes and subjects, and the change of teachers and accounts, as single steps, whose
checks are those of `SubjectAdmin` and `Registry`; `StaffPage` has the server's
refresh endpoint as one step, which in `RefreshSessions` has four.

### How the code becomes actions

A request (or the command) is a session with a program counter. Each action is
one SQL statement, so any other session may run between two statements, which is
exactly what READ COMMITTED allows:

    enroll    student -> class -> offer -> seats -> commit
    set       row -> picks -> offer -> seats -> commit
    move      row -> picks -> class -> seats -> commit
    unenroll  row -> picks -> seats -> commit

`view` is what the request has read (`get_enrollment` and its selectin load are
two statements, `ReadRow` and `ReadPicks`), and it may be stale by the time it is
used. At `seats` each step is one `UPDATE subjects` of `claim_seat` or
`release_seat`. `draft` is the counter as the session holding the row sees it,
`count` what is committed, `lock` who holds the row, `todo` the rows still to be
updated, in any order: the code iterates over a Python set. A session that meets
a row held by another waits (its action is disabled). When waiting sessions form
a ring, PostgreSQL aborts one of them (`OnWaitCycle`, `DeadlockAbort`). `Fail` is
every way an exception reaches `get_db`: the rollback and the answer.
`Disconnect` is the process or connection dying at any step.

Flush and commit are one action. The ORM writes (the enrolment row, its links,
a class's or subject's deletion) are flushed at the end of each service function
and only the commit follows, or a re-read of the same row for the answer. A
conflicting writer would wait for the flush and then meet the outcome the merged
step gives it; a reader does not see flushed rows before the commit. What the
constraints decide at that point is in the action: `UNIQUE(student_id)` and the
foreign key on the class (`CommitEnroll`), the foreign key and
`UNIQUE(enrollment_id, subject_id)` on the links (`MayInsertLinks`),
`StaleDataError` when the row to update is gone (`CommitMove`), ON DELETE CASCADE
of the links (`CommitUnenroll`), ON DELETE RESTRICT (`HeldSubject`, `HeldClass`).

`FlushLimit` is the flush of `update_subject`: an ORM UPDATE of the row, which
waits for its holder and meets the CHECK constraints; assigning the value loaded
earlier issues no UPDATE at all. `WriteCount` is also the ORM assignment of
`reconcile_counts`.

Abstracted in the enrolment modules: students are all active; names, codes and teachers of subjects;
`enrolled_at`; which error a refusal returns; permission checks at the endpoint.
A limit is never unlimited in the code (`student_limit > 0`), nor here.

### Attendance and exams

As above, one SQL statement a step. `view` is the marks loaded with the sheet or the
paper (and, in `Exams`, its total and its subject's teacher), and everything later
is decided on them: the ORM deletes and updates rows by primary key and writes only
the columns whose value differs from the one loaded. So a mark is a row with a key,
the `DELETE` of a row that is gone does nothing, the `UPDATE` of one is an error
(`SeenRowStays`), and a new mark meets `UNIQUE(sheet_id, student_id)`. A primary
key is one that no request remembers (`FreshMark`); the assumption of both modules
is that there is always one, as uuid4 gives.

In `Attendance` time is counted in instants; a day has `DayLength` of them and
the college's midnight is `Offset` ahead of the server's. `enrolled[st].at` is the
instant of joining, `Roster` compares it with `EndOfDay` as the code compares the two
timestamps, and the report compares `CollegeDate`s, as the code does. `joined`, and in
`Exams` `took`, `taught` and `linked`, are history: no action reads them.

Abstracted: notes on a mark, the titles, dates and kinds of exams, listings, the
permission checks except the one of the teacher.

### Staff

The consecutive reads of a request are one step and its commit another, because no
property here depends on what comes between two reads. A request that is refused by
what it reads changes nothing and is left out. `CarryGrant` and `DropWrite` are the
two statements of the migration, `Seed` the bootstrap of `scripts/start.sh`, both
before the server serves; a restart can happen at any time and repeats the `Seed`.
A token carries the permissions of its account when it was issued; `Authorised` is
the check of `deps.py`, on the token and on the account as it is now. Which of the
permissions are watched for being out of date is a constant, `Probe`.

### Registry

Six tables, one module, because create, update and delete are the same
check-then-write in each of them and differ in what they trim, lower-case, compare
and refer to: `Checked`, `Stored`, `Folded`, `SameSpace`, `Parent`. A row is the one
of its unique columns that has a check before it, the row it refers to and a roll
number. `office` is the pair of tables an execution is about: tables of two pairs
share no reference and no constraint, so no step of one is enabled or disabled by
the other. `overlap` is history. `Init` is a fresh database.

`Allocate` is the `UPDATE ... RETURNING` of the counter of a batch: it locks the row
until the admission commits or rolls back (`BatchFree`), and the number is only
taken at the commit.

### The page

A callback of the browser is one step, the server's handling of a request another,
the arrival of the answer a third. `call` is the requests of the page, `refresh`
the refresh in flight that those that met a 401 share. A request that the server has
applied may still be answered with an error, which stands for a lost answer.
`Login` is one step: no other request of the page is under way without a token.

### Refresh sessions

A request is a program counter and what it has read:

    login      account -> sessions -> commit -> reply
    refresh    session -> owner -> commit -> reply
    logout     session -> commit -> reply
    logoutAll  account -> sessions -> commit -> reply
    revoke     account -> session -> commit
    reset      account -> sessions -> commit
    activate, deactivate   account -> (sessions ->) commit

`job` is what was asked, `seen` the two columns of the account that are used after
it was loaded, `doomed` the sessions whose `revoked_at` the request has set in its
ORM session. The session factory has `autoflush=False`, so nothing is written
before the flush at the end, and the unit of work writes only the columns whose
value changed: that is why `CommitRotation` leaves `revoked` alone and
`CommitActive` may write nothing. Flush and COMMIT are one step for the reason
given above; two flushes update accounts before sessions and rows in the order of
their keys, so they cannot deadlock. `Deliver` is the answer reaching the browser,
which may be long after the commit and after other answers; `LoseAnswer` is its
loss and `Disconnect` the end of a request before its commit.

The account-wide requests are those that decide about all sessions of an account
from what they have read: login, reset, activate and deactivate (`Deciding`).

Abstracted: a session is its place in the order of `created_at`, a secret the
number of the rotation that made it, which stands for a fresh random string; the
rows have a `revoked_at` or not, and `Expire` is the clock passing `expires_at`, at
any moment. Users and students differ in what the code treats differently: only a
student has a reset, and only a student's deactivation ends sessions. The two
applications have cookies of different names and paths, so `Browsers` are browsers
as one application uses them. The access token that `logout-all` and
`DELETE /sessions/{id}` present is one of the account whose cookie is in the jar.
A refused refresh does not clear the cookie: `delete_cookie` is called on the
injected response, and the handler of the exception that follows builds another.
Left out: the login rate limit, the read-only list of sessions, `expect` (a cookie
of one application is never sent to the other), malformed cookies, the deletion of
accounts.

## 3. What is checked

| Run | Question | Sessions and data |
|---|---|---|
| `enrol_balance` | While no two requests edit one enrolment, do the counters stay exact (`BooksBalance`), is a student enrolled once, and does each request look indivisible (`AllocationSpec`)? | 2 requests, 2 students, 2 classes sharing a subject, 1 seat each, all endpoints |
| `system_races` | What do limits, set_classes, deletions, reconcile_counts and unrestricted requests on one enrolment leave intact? | 2 requests, 1 administrator, 1 subject, limits 1 and 2 |
| `system_balance` | Is nothing overbooked, and does nobody hold a subject their class does not run, while limits change and rows are deleted? | the same with 2 classes, one editor per enrolment |
| `system_answer` | Is every request answered, and does administrative work end? | 1 request and 1 administrator over 2 subjects |
| `sessions_turns` | While account-wide requests take turns, does each request look like one step of the register (`BookSpec`), and does a reset or a deactivation end every session? | 2 requests, 1 student, 2 passwords, a hash to renew, 3 sessions, cap 2, expiry |
| `sessions_races` | What is kept when everything overlaps and answers get lost? | 2 requests, 1 user, 3 sessions, 3 secrets, cap 2 |
| `attendance_marks` | One register a day, only members marked, reports that agree, nothing removed unseen? | 2 requests, 2 students, 2 classes, 2 registers, a day of 2 instants, clocks 1 instant apart |
| `exams_marks` | Does a mark say one thing, of a taker, by someone entitled, on a paper that stands? | a teacher and the office, 1 student, class, subject and exam, totals and scores 1 and 2 |
| `exams_total` | Violated, section 6: may a total fall below a mark? | the same, top scores only |
| `staff_roles` | Does the migration keep access, do administration and tokens stay sound, does the bootstrap repair? | 2 requests, 2 accounts, 2 roles, 3 names, tokens of 1 tick |
| `registry_desks` | Do references stand, are roll numbers in order, are equal names refused? | 2 requests; 2 rows a table, 3 students; a name in 2 cases and with a blank |
| `page_replay` | Is the latest query shown, a save applied once, the session kept, every request ended? | 2 requests at once, 2 queries, 3 loads, 1 save, 2 tokens |

Type invariants are proved (section 5) and not in the runs, except that of the page,
which is in both: its types include that the tickets of the list never run out.

Bounds. Two requests and one administrator are the fewest with every race of the
hazard list: each needs a reader and a writer that comes between. One seat makes
every second claim a refusal; limits 1 and 2 let an administrator raise and lower
it. Three enrolment ids suffice for two students and two requests: at most two
are enrolled while a request still refers to a third that is gone (`Fresh`
excludes those, as uuids are never reused). Nothing in the seat models counts
without a bound. Two administrators at once are not in a run; that links refer only to
rows that exist is proved for any number of them (`ReferencesAlwaysHold`).

In `RefreshSessions` two things grow without end and are bounded: the sessions
opened (`MaxOpened`) and the secrets of one session (`MaxSecrets`). A login or a
rotation beyond them is disabled, so these runs may stop and do not check for
deadlock. Three sessions are one more than a cap of two, so that a login has to
choose what it gives up; with three secrets a cookie can be two rotations old. Two
requests are a check and what comes between it and its commit; the account,
cookie and session of one race are those of any other, so one account is enough.

The sign-out requests of staff (`logoutAll`, `revoke`) run in `sessions_races`; that
they too are steps of the register is proved.

`system_answer` lets a request and reconcile_counts lock the two subject rows in
opposite orders. Two requests that do the same are the same ring of waiting
sessions for `OnWaitCycle`; with the strong fairness of section 4 three sessions
over two rows are too many states for a liveness run.

`attendance_marks` ends one instant after it starts, and that instant is the
college's midnight but not the server's: the last one of a day and the first one of
the next are the two that `Roster` and the report could tell apart differently, and
the proof covers all other days. Two students are needed for a whole-register save
that leaves one out; two classes for a move; two registers for two requests that
create the same one. `MaxJoined` bounds the history `joined`, whose size multiplies
the states: two memberships are a student who moves, or two students of one class.

In `exams_marks` one request is the office and one a teacher with an account, so
that a mark can be changed by either after the other; a score of 2 is above a total
of 1. One student is enough because a save treats each student
alone; it names all it is sent, and a batch is refused or written as a whole. In
`staff_roles` `n0` is the name of the super admin and two other names let a role be
created and renamed to a name that another request takes. In `registry_desks` two
rows of the referring table can be twins, three students make the second number depend
on whether the first was taken, and one name in two cases and with a blank
around it is every distinction `Lower` and `Strip` make. `page_replay` has one load
more than there are places for it, a save with the load after it, and a renewal
after which the next one is refused.

`CHECK_DEADLOCK FALSE` is in the runs that may really stop: the clock at its
bound and no class or register left (`attendance_marks`), everything deleted
(`exams_marks`, `exams_total`), the page at its bounds, and the sessions
as above.

Symmetry is used in safety runs only. Sets whose members a definition picks from
(`FreshMark` in `MarkIds`) or that differ in the model (requests of `Exams`) are
not symmetric.

`OneEditor = TRUE` makes callers never edit one enrolment concurrently. The code
does not enforce it: it is the assumption under which the exact properties hold.
The runs with FALSE show what remains without it (`system_races`)
and section 6 says what is lost. Likewise `system_balance` leaves out `setClasses`
and `reconcile`, whose races section 6 describes; `system_races` covers both with the
properties that hold.

The assumptions of `RefreshSessions` are constants too. `Overlap = FALSE` makes the
account-wide requests of one account take turns, and no session expire under its
rotation: the assumption of `sessions_turns`, which the code
does not enforce; what its absence allows is in section 6. `SingleFlight = TRUE` is what
`AuthService.inFlightRefresh` gives within one page; two tabs have two pages
(section 6). `Lossy = FALSE` in `sessions_turns`, for `CookiesAreCurrent`: when an
answer is lost the browser does keep a stale cookie, by design, and its next refresh
ends the session.

Every property has a mutant in `PROJECT.json`: a plausible slip in one mapped
definition under which TLC finds the property violated by the same run.

## 4. Fairness

`FairSpec` and `FairSystemSpec` give strong fairness to what the server does for
a request that has arrived (`Serve`, `AdminServe`), not to clients arriving or
disconnecting. The event loop runs every ready coroutine, which gives weak
fairness. A session waiting for a row is enabled only while the row is free;
PostgreSQL queues waiters of a row and hands it over in order, so others cannot
take it again and again past a waiter: that is the strong part.

`FairSpec` of `StaffPage` gives weak fairness to the progress of each request of the
page: a request sent is answered or fails, as a browser's fetch does, and its
callbacks run. Typing, saving, expiry and the end of the session are under no
fairness. That a renewal always comes to an end follows from the same fairness; that
`CallsEnd` holds with a bound on tokens means that a request also ends when its
session can no longer be renewed.

Attendance, exams, accounts and the registry state no liveness: their requests wait
for nothing but the row lock of a batch, which ends with its admission.

## 5. What is proved

`SeatSystemProofs` proves, for any sets of students, classes, subjects, sessions
and any limits, with or without `OneEditor`:

- `SystemTypes`: the type invariant;
- `CountsStayWithinLimits`: `[]CountWithinLimit`;
- `DraftsStayLocked`: `[]DraftsAreLocked`;
- `LocksEndWithWork`: `[]HoldersAtWork`;
- `ClaimsStayHeld`: `[]ClaimsAreHeld`;
- `StudentsEnrolOnce`: `[]OneClassPerStudent`;
- `ReferencesAlwaysHold`: `[]ReferencesHold`, from `NothingEverDangles` and
  `LinksAlwaysExist`.

The assumptions are those of the modules: finitely many enrolment ids, positive
limits, `None` not a member of any set and not a row, requests and administrators disjoint sets
of sessions.

The inductive invariant is `SystemInv`. `CountWithinLimit` alone is not inductive:
a commit publishes `draft`, so drafts must be inside the limit too
(`DraftsAreLocked`); changing a limit compares it with `count`, so the row must be
unlocked, where the two agree; and it is unlocked, rather than held by the same
administrator, because rows are held only at `seats` and `fix` (`HoldersAtWork`).
One lemma per statement of `capacity.py` and per end of a transaction shows that
`SeatInv` is kept, whoever the session is; the lemmas on requests and on
administrators only have to show that their arguments have the right types.
`HoldersAtWork` follows from what a step can do to the locks: leave them, free its
own, take one at work (`RequestLocks`, `AdminLocks`).

The invariant of the rows is `RosterInv`. The step that could leave a pick of a
subject that no longer exists is a commit, and nothing at the commit looks at the
`subjects` rows. It cannot happen because a request releases before it claims,
holds each row it has claimed until it commits (`ClaimsAreHeld`) and DELETE waits
for the row; to know that an enrolment adds all the subjects it was asked for, the
invariant also says that a request which has read no picks has none in its view
(`ReadsNothingYet`).

`SeatBalanceProofs` proves, of the same sets. `Spec` is the specification of the enrolment
requests, `SystemSpec` that with administrators:

| Theorem | Under | States |
|---|---|---|
| `RequestsEnrolOnce` | - | `Spec => []OneClassPerStudent` |
| `EnrolmentsBalance` | `OneEditor` | `Spec => []BooksBalance` |
| `EnrolmentImplementsAllocation` | `OneEditor` | `Spec => AllocationSpec`, the refinement |
| `BooksAlwaysBalance`, `SeatsNeverOverbooked` | `KeptApart` | `SystemSpec => []BooksBalance`, `[]NoOverbooking` |
| `PicksStayOffered` | `LinksLeftAlone` | `SystemSpec => []PicksOffered` |

`KeptApart` is `OneEditor` without `reconcile` among the administrators' operations, and
`LinksLeftAlone` that without `setClasses`. Section 6 says what happens without each:
they are the conditions of the code's claims and not conveniences of the proof. All
other administrative operations, deletions included, run freely beside the requests.

A counter and the rows it caches change in different statements, so the
equality of the two holds at no statement in between; what holds is a relation between
what one request has read, locked and written. `BalanceInv` says it in three parts.
`ViewsCurrent`: since nobody else edits the enrolment, what a request read of it is
still so when it commits. `RowsHeld`: a request in its loops holds exactly the rows it
has written, the released ones first. `BooksKept`: a committed counter is the number
of its takers, and the draft of a held row is that number with the holder's own seat
added or taken off. The commit then publishes drafts and rows together, and the two agree
again (`Announced`); a rollback drops both. What a commit does to the takers of a
subject is a fact about cardinalities (`PicksChange`).
`NoOverbooking` follows from `BooksBalance` and `CountWithinLimit`. For the refinement,
a commit's new picks had a seat free because their counters were claimed from below
the limit and are held; every other step of a request is invisible to `SeatAllocation`,
aborted ones included. `PicksOffered` needs that an offer, once read, still stands at the
commit (`WantOK`): deletions only take whole classes and subjects away, which the
foreign keys or the claimed rows then refuse.

`RefreshSessionsProofs` proves, for any accounts, browsers, requests, passwords, any
cap, and any bounds:

- `SessionTypes`: `[]TypeOK`;
- `RevokedStaysRevoked`: `RevokedForGood`, whatever overlaps;
- `ResetLocksOut`, `DeactivationLocksOut`, `OnlyResetsChangePasswords`:
  `OldPasswordLockedOut`, `InactiveHasNoSession` and `ResetSticks`, when account-wide
  requests take turns (`~Overlap`);
- `SessionsImplementBook`: `~Overlap => BookSpec`, the refinement, for every cap;
- `OldestGoFirst`: `EvictsOldest`, whatever overlaps, unless a session can expire
  between the check and the commit of its refresh (`NoneExpireInFlight`);
- `SecretsAreUsedOnce`: `SingleFlight => ReuseIsRefused`, answers lost or not;
- `CookiesStayCurrent`: `[]CookiesAreCurrent` for `SingleFlight` and `~Lossy`, with any
  number of browsers.

`OldPasswordLockedOut` is a statement about committed rows; what makes it true at a
commit is what requests in flight have read. The invariant `LockedOut` therefore
says that a login past its check verified the password that is still in force, and
on an active account; that a reset or a deactivation about to commit has
doomed all live sessions of the account; and that no session is expired under its
rotation. For the refinement the invariant `BookInv` says that the sessions which a
login about to commit gives up are enough of the oldest ones that fewer than
`MaxSessions` live ones are left; that a refresh or a logout may meanwhile end others
only helps. That the right number is left (`EvictionMakesRoom`) is a fact about
finite sets, by induction over the library's proper-subset order.

`EvictsOldest` compares, at the commit, what a login chose with what is live then. What
has changed since the choice is newer (`OpenedInOrder`) or gone, and nothing has come
back: a rotation writes `expires_at` without looking again, so one of a session that
expired after its check would bring an old session back, and `RotatesLive` says that
there is none. That is the hypothesis `NoneExpireInFlight`.

The check of a refresh compares the secret and its commit, two statements later,
replaces it; nothing locks the row. That no secret is exchanged twice rests on where
cookies are. `OneHome` says that the cookie of a session, in the jar, in a request or
in an answer, belongs to one browser, that of the login: an answer to a login carries
a session nobody has yet (`FreshLogin`). With one refresh in flight per browser, no other
request can then be about to rotate the secret, so that the one a refresh has
checked is in force until it commits (`RotatesCurrent`). `CookiesAreCurrent` adds that
the secret in force is in the jar or in an answer on its way there (`JarsCurrent`),
which a lost answer breaks, hence `~Lossy`.

`AttendanceProofs` proves, for any students, classes, registers, requests, mark lists,
length of the day and difference of the clocks:

- `AttendanceTypes`, `RegistersAlwaysStand`, `OnlyMembersMarked`;
- `BlanksAlwaysAgree`: the report's count is the number of registers with a blank;
- `NothingRemovedBlindly`.

Its assumptions are those of the module: finitely many registers, and more primary
keys than the other requests can remember. `AttendanceInv` adds to the properties
what a request past the roster may rely on (`MarksChecked`): that everyone it names
had joined the class by the register's date. That is a statement about the history
and not about the roster, because the student may have left again; it stays true
because joining is never forgotten and a register never changes its class or date.
`ClockAgrees` is the arithmetic: an instant lies before the end of a college day
exactly when its own college day is not later. With it the registers a student is
eligible for are those whose roster they are on, and the report's subtraction is the
cardinality of a set difference.

`ExamsProofs` proves, for any numbers of everything:

- `ExamsTypes`, `PapersAlwaysStand`, `OnlyTakersMarked`, `OnlyTeachersMark`;
- `MarksAlwaysSayOneThing`.

`ExamsInv` says what each stage of a request has established (`MarksChecked`): the
teacher it read taught the subject, its sender may mark once past the check, its
students took the subject once past the roster. `MarkSaysOneThing` needs that the
marks a request loaded say one thing too: a mark asked to become an absence writes
exactly the columns that differ, and `CHECK` refuses the combination of two saves that
would be both, while none can be neither (`WrittenMark`).

`StaffProofs` proves, for any accounts, roles, names, resources, permission sets and
lifetime of a token:

- `StaffTypes`, `SuperAdminStaysIntact`, `AssignmentsAlwaysStand`,
  `TokensLagByTheirLife`, `UpgradeIsFair`, `SeedAlwaysRestores`.

`StaffInv` says that the super admin role carries every permission there is, new or old
(`GrantsKnown`); that during the migration a role with a write permission has
each of the codes already split off it (`WritesCarried`), which is what makes dropping
the write permission harmless; that no request holds the super admin role as
the one to rename, strip or delete (`JobsFit`); and that an account which has the watched
permission is counted as having it now (`Counted`), so that the clock of a lost
permission starts no earlier than the age of the last token that carries it.

`RegistryProofs` proves, for any rows, keys, trimming and lower-casing functions and
any number of requests:

- `RegistryTypes`, `ReferencesAlwaysStand`, `NumbersStayInOrder`,
  `TwinsComeFromOverlap`.

`NumbersInOrder` holds because an admission that has a number holds its batch's row,
so the number is the batch's next one until it commits. `TwinsNeedOverlap` is an
action property: the invariant says that a request that nobody has overtaken still
has the check it made (`SlotFree`) true.

`StaffPageProofs` proves, for any number of requests in flight, queries, loads, saves
and tokens:

- `PageKeepsTypes`: `[]PageTypeOK`;
- `SavesApplyOnce`: `[]AppliedOnce`;
- `ListShowsLatest`: `[]ShowsLatest`;
- `SessionStaysAlive`: `[]SessionSurvives`.

A save can be replayed, so that it was applied at most once has to say what may still
become of it: `SavesHaveRoom` says that a save which is under way, waits for a token or was
refused one has not been applied. Types come with it (`SaveInv`), since the number of
rows saved and of tickets drawn stay in their bounds only because one save at a time
is pending. `ListInv` says that only the load with the newest ticket carries the latest
query, and that its answer was read after every save the page had been told of.
`SecretInv` is the page's side of reuse detection: there is one refresh at a time; the
jar's secret is live except while a renewal has yet to be stored; and the secret a
refresh has sent is the live one until the server answers.

Every safety property of a passing run is the subject of a theorem. Model-checked only:

- `WorkEnds` and `CallsEnd`: liveness under fairness, and so ENABLED, is out of this
  prover's reach;
- `MarksWithinTotal`, which the run `exams_total` violates.

No theorem does an induction over data, and none of the modules uses a recursive
operator. The theorems with a hypothesis say which of the constants
of section 3 they fix; where a hypothesis is not enforced by the code, section 6 gives
the behaviour that shows it is needed.

## 6. Disagreements between the code and what it says

`exams_total` is a run that TLC finds violated, with the line quoted in `PROJECT.json`:
a paper's total is lowered below a mark that commits in between.

The following come from the same missing locks. TLC shows those marked (*) as
violations in the modules here with the constants or the property changed as said;
the others follow from reading the actions next to the line they disagree with.

Seats:

- (*) `BooksBalance`, `NoOverbooking` in `Enrollments` with `OneEditor = FALSE`: seats
  are released from links read without a lock on the enrolment. Two unenrolments of
  one student, or set_subjects beside unenroll, free a seat that is taken, and the
  subject then admits one student too many ("a conditional UPDATE that cannot
  overbook", `db/models/subject.py:65-66`).
- (*) `PicksOffered` with `setClasses`: set_classes counts the holders first and deletes
  the link later; an enrolment in between keeps a subject its class no longer runs
  (`services/subjects.py:217`). With `OneEditor = FALSE` set_subjects beside
  move_class does the same.
- (*) `BooksBalance` with `reconcile`: reconcile_counts writes a tally that is older than
  the counter it replaces, and creates the drift it repairs.

Refresh sessions, with `Overlap = TRUE`:

- (*) `BookSpec`: two logins at the session cap count the same sessions, and the account
  ends with one too many ("never exceeds MAX_SESSIONS_PER_USER", `services/auth.py:160`).
- (*) `OldPasswordLockedOut`: a login that verified the old password opens its session
  after the reset revoked the others ("actually locks out whoever was signed in",
  `services/students.py:190`). `InactiveHasNoSession`: likewise beside a deactivation;
  the session is refused while the student is inactive, and usable again later.
- (*) `ResetSticks` with `OldHashes` not empty: a login renews an outdated hash from the
  password it verified and so undoes a reset that committed in between.
- (*) `ReuseIsRefused` with `SingleFlight = FALSE`: two refreshes with one secret, from
  two tabs, both succeed, and the second use of the secret is not detected.

Attendance and exams:

- The loser of a race for a register gets a 500 from the constraint and not the 409
  with the other's id that `api/v1/attendance.py:73-74` and
  `services/attendance.py:155-156` promise (`CommitOpen`).
- Two saves of one mark that overlap write the columns each found different: the
  status of one beside the `marked_by_id` of the other, where
  `db/models/attendance.py:108-110` says the mark names who stands behind it (`Written`).
- A PUT of the whole register removes the marks of students who have left the class,
  which the client may not name (they are off the roster); `schemas/attendance.py:75-77`
  says such a record is kept (`Removed`, `ValidMarks`).
- A student who moved keeps marks on registers of the old class, which the report
  counts against the registers of the new one: its blanks are too few. `BlanksAgree`
  therefore speaks of students whose marks all lie on registers they belong to.
- `paper_roster` joins picks on the subject only: an exam set for one class may mark
  takers of another class that runs the same subject (`services/exams.py:136-153`).

Staff, registry and page:

- Two overlapping set_role_permissions, or set_user_roles, each write their difference
  to what they read, and the union remains, although `services/users.py:181` says
  "Replace" (`CommitGrants`, `CommitRoles`).
- delete_role counts holders first; an assignment in between is deleted with the role,
  although `services/users.py:163` says the deletion is refused (`CommitDeletion`).
- `db/models/rbac.py:37-38` says that administration "can never be locked out". The role is
  protected, its holders are not: deactivating or reassigning the last of them is legal,
  and the next start of the server repairs it (`Seed`).
- `db/models/academic_session.py:37-39` says a rolled-back admission leaves a gap. The
  counter is rolled back with it: `NumbersInOrder` has no gaps.
- `services/faculty.py:133` checks an employee number as typed and line 137 stores it
  without its blanks; a padded number passes the check. Two requests that overlap can
  do the same with any name in two cases, since the constraints see the case.
- The `catchError` of the interceptor covers the replay as well as the refresh
  (`auth.interceptor.ts:45-52`): a replay answered with 409 or 500 signs the page out,
  where the comment says that the session is over (`GiveUp`).
- A logout beside a refresh in flight presents the secret before the rotation, ends no
  session, and the refresh's answer signs the page in again (`Logout`, `Renewed`).

A `SELECT ... FOR UPDATE` of the enrolment in `get_enrollment` for editors would
give the `OneEditor` assumption; one of the account in the account-wide requests, and
of the session in `rotate_session`, would give `Overlap = FALSE`; one of the paper in
`set_paper_total` and `set_marks` would give `MarksWithinTotal`.

## 7. Plan

The modules of the first plan exist: seats, sessions, attendance, exams, accounts,
registry, page, and the safety their runs check is proved. What is left, in this order:

1. `StaffPage` composed with `RefreshSessions`: the page's refresh as the four
   statements of the server instead of one, with two tabs on one cookie jar.
2. The permission catalogue of the migrations against `core/permissions.py`.

## 8. Not modelled

Response layout, logging, request ids, error envelopes, configuration, health: no
state; that an error rolls back is in every module. Schema validation is
modelled where a service relies on what it trims or rejects. The rate limiter is a
thin wrapper of a library's fixed window. Of the migrations, the split of the write
permissions is modelled, the others create the tables the modules start from; the
one that gives students who were there before a batch and a number runs once over
data no code produces. `update_exam` changes columns no other step reads. Listings,
searches and the read-only endpoints have no state beyond what the page module shows.
The portal's copy of the session service and interceptor is that of the staff
application with other paths. Templates, forms, route guards and styling of the two
Angular applications carry no protocol. Set-up scripts run once, by hand.
