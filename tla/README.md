# Prepper, specified

Prepper is a web server with which a school's science department books practicals: a teacher
picks an *activity* (a list of equipment), books it for a lesson, and technicians prepare it. It is one
Go process (gin, GORM over MySQL) plus some page scripts. These modules specify the parts of it
that keep state and are touched by more than one goroutine. Sources are cited as paths under `src/`.

## 1. Inventory

| component | state | operations | interacts with |
|---|---|---|---|
| booking life cycle: `book.go`, `todo.go`, `data/booking.go` | table `bookings` (status, times, owner, `updated_at`, `deleted_at`) | submit, set status, amend, postpone, cancel | clones activities, pushes notifications |
| activities: `activities.go`, `data/activity.go` | tables `activities`, `equipment_sets` | create, edit, clone, delete with every copy | its deletion takes bookings with it |
| cleaning: `data/booking.go:327-363`, `data/clean.go` | none of its own | `CleanBookings`, `CleanDeleted` | called by maintenance; deletes bookings and their activities |
| maintenance: `maintenance/`, `admin.go` | `Manager.is`, the scheduler's and the interval's goroutines | `Enter`, `Exit`, `Is`, `Run`, `Now` | middleware turns requests away; two administrators' pages |
| notifications: `notifications/`, `api.go:265-293`, `dashboard.js` | a bounded queue per user, in memory | `PushUser`, `PopUser`, poll, show, dismiss | pushed by bookings, polled by pages |
| sessions: `session/`, `front.go` | map from token to session, in memory | `Start`, `New`, `Update`, login, logout | every handler |
| inventory: `inventory.go`, `data/inventory.go`, `api.go:351-479` | table `equipment_items` | usage, net quantity, clashes | reads bookings |
| log ring: `logging/` | 8192 bytes, a head, `wrapped` | `Write`, `Grab`, `Reader`, `Read` | `/admin` shows it |
| timetable: `conf/` | read once | `FindPeriod` | the booking form |
| accounts: `accounts.go`, `data/user.go`, `data/password.go`, `data/cap.go` | table `users` | create, edit, switch, link | capabilities are asked by bookings |
| iSAMS client: `isams/` | read once | timetable of a user | the booking form |
| server: `main.go`, `util.go` | the globals above | start, interrupt, shutdown | everything |

**How they interact.** Every request runs on a goroutine of its own. Handlers share the database and
the three in-memory objects `Notifications`, `Maintenance` and `Sessions`; each of the three is guarded by
a lock that one method call holds. Only `handleActivityDelete` and `Booking.Delete` run several statements
in one transaction. The scheduler's goroutine runs the cleaning beside whatever requests the middleware
had let through before the mode was entered.

**What is hard, and what makes each part correct.**

- *Bookings.* A handler reads a booking, works, and writes it in a later statement, so every pair of
  handlers races. GORM decides what the write does: `Updates` writes the non-zero fields of a whole stale
  copy, but only to a row that is not soft-deleted; `Where(&bk).Update` is a compare-and-set on what was
  read; neither tells the caller that it hit nothing. Correct means: a deleted booking stays deleted,
  a conditional update hits only what was seen, booking and temporary activity go together unless the activity is deleted by its own ID.
- *Cleaning.* Batches are read, then deleted one transaction at a time; some deletions fail; the loop ends
  on a short batch. Correct means: only bookings that are past or were rewritten since their batch was read, all that are past, and the
  loop ends.
- *Maintenance.* `Enter` may fail and is not looked at, `Exit` panics if the mode is off, a panic outside a
  request ends the process, the producer of firings blocks on an unbuffered channel. Correct means:
  the site opens again, firings are taken, `Run` stops when its context does.
- *Notifications.* Several pages of one user pop the same bounded queue; answers get lost; a restart empties
  it. Correct means: in order, at most once, everything accounted for, and a waiting queue is emptied.
- *Sessions.* A handler stores back at its end the copy it read at its start; a new token is looked for under one
  lock and stored under another. Correct means: a browser acts only for accounts it signed in to, and a sign-in
  or logout is undone by nothing but a request that had read the session before.
- *Accounts.* Five handlers write back the whole row they read; names are looked for and taken in two statements.
  An edit decodes its body over any field, the ID included, and a failed query looks like a free name. Correct means:
  apart from these, a link is lost, a password or role changed, a name taken twice only if somebody wrote in between.
- *Inventory.* Usage is a query by two comparisons; the page asks for clashes item by item, then books, in
  no transaction. Correct means: the query is that of overlap, and a booking for which no clash was shown fits, if
  nobody wrote meanwhile and the items are available. An activity's editor matches sets with a form, then saves set by set.
- *Ring and timetable.* Boundaries: an exact fill of the ring, a write longer than it, the edges of periods, the ends of a slice.

`PROJECT.json` lists the hazards line by line.

## 2. Modules

| module | models |
|---|---|
| `BookingRows` | one row of `bookings` and the statements issued against it, as GORM executes them |
| `Bookings` | the requests, the activity deletions and the cleaners over those rows, the activities, their equipment and the notifications |
| `BookingLife` | abstract: what a booking promises (booked once, marked while it lasts, removed for good) |
| `Delivery` | abstract: ordered hand-out of notifications, at most once |
| `Notifications` | the store, `/api/dashboard`, the polling pages |
| `Maintenance` | manager, scheduler, interval, middleware, the administrators' requests |
| `Dmesg` | the log's ring buffer and the page that reads it |
| `Sessions` | the session store, cookies, and the visit of a request to the store |
| `Accounts` | extends `Sessions`: the table of users and the requests that sign in to accounts and change them |
| `Inventory` | items, bookings and what draws on them: the overlap query, usage, net quantity |
| `Templates` | extends `Inventory`: the equipment sets of an activity, and a form copied into them |
| `Stock` | extends `Templates`: booking pages with their clashes, the activity editor, new activities |
| `Timetable` | `/api/period` and the binary search of the layout |
| `MCBookings`, `MCNotifications`, `MCAccounts`, `MCStock`, `MCTimetable` | definitions that `.cfg` files need |
| `BookingsProofs`, `NotificationsProofs`, `MaintenanceProofs`, `DmesgProofs`, `SessionsProofs`, `AccountsProofs`, `StockProofs`, `TimetableProofs` | theorems |

### Bookings

*State and code.* `rows[t]` is the booking of ticket `t`, one ticket per submission; `acts[t]` is the temporary
activity `Activity.Clone` made for it, and `t \in gear` says that this activity has live equipment sets.
`tmpl` are the permanent activities; `Activities` are these and the tickets, which name the temporary ones. `stamp` is the timestamp of the last write and `clock` the time of day.
A request is a record in `req`: where it is (`pc`), the copy `bk` it read, and what it will write.
`del` and `cln` are the same for `/activity/[ID]/delete` and for runs of `CleanBookings`. `note` is the
notification pushed last: a step that pushes several at once (to each technician) is one push here.

| code | actions |
|---|---|
| `handleBookSubmission` | `BeginSubmit`, `Clone`, `NewBooking`, `TellTechnicians` |
| `handleSetStatus` | `BeginStatus`, `WriteStatus`, `TellOwner` |
| `handleBookDoingAmend`, `handleBookPostpone` | `BeginAmend` / `BeginPostpone`, `WriteAmend`, `TellTechnicians` |
| `handleBookCancel` | `BeginCancel`, `WriteCancel`, `TellTechnicians` |
| `handleActivityDelete` | `BeginDelete`, `FindCopies`, `CommitDelete` |
| `handleActivityDoEdit`, the activity's row | `SaveTemplate`, `SaveCopy` |
| `CleanBookings`, `Booking.Delete` | `BeginClean`, `FindPast`, `DeleteBooking`, `DeleteFails`, `NextBatch`, `EndClean` |
| an SQL error, a crash | `Fail`, `Crash` |

*GORM, modelled from its use.* `Updates` leaves `status` alone when the copy says Pending, which is the zero
value, and adds `deleted_at IS NULL`. `Where(&bk)` compares `updated_at`, so it matches only what nobody
wrote since. `Delete` is a soft delete. Timestamps are taken to be different for different writes.
Why a row is deleted (`Gone`) is not a column: the model remembers it to state properties.

*Abstractions.* Location, comments and the number of equipment items are left out; times are hours; the
deadline of amendments is one hour. `WriteAmend` inserts the equipment the form adds in the same step as the update, as
GORM does; an amendment that adds equipment to a booking whose activity was already gone when it was read is left out.
The handlers take the ID of any activity and never look at `Temporary`: `BeginSubmit` may clone, `SaveCopy` edit and
`BeginDelete` delete a temporary one.

*Booking and activity together.* A live booking may lose its activity in one way, the deletion of that very activity;
`ActivityNotPulled` says that there is no other, and that even this one leaves no equipment requisitioned. The strongest invariant is `ActivityGoesWithBooking`: after
cleaning or a cascade the temporary activity is gone with its booking. It holds although a request that read
the booking before goes on writing.

### Notifications

A notification is the number of its push, per user. `store[u]` is `NoQueue` until the first push. `last`,
`handed` and `dropped` count what left the queues, for the properties. `poll[p]` is a request of
`/api/dashboard` with what it has popped so far, `shown[w]` is what page `w` shows. `BeginPoll` is the
timer of `dashboard.js`, `PopUser`/`EndPops` the handler's loop, `Show` the answer, `LoseReply` an answer
that does not arrive, `Restart` the end of the process.

### Maintenance

`closed` is `Manager.is`, with who set it; `thread` are the goroutines; `interval` is the producer inside the
interval. `EnterAndIgnore`, `CallHandler`, `EndWork`, `ExitOrPanic` are `Scheduler.do`, for the scheduler and
for `/admin/runnow` alike. `up` becomes false when `Exit` panics in the scheduler's goroutine; the same panic
in a request is recovered by gin. The handlers themselves are opaque: what `CleanBookings` does is in `Bookings`.
A panic inside a handler of maintenance is not modelled.

### Dmesg

A byte is its number in the stream of all that was ever written (`total` so far), 0 in a new buffer. `buf`, `head` and
`wrapped` are the struct's; `overlong` and `failed` are history. `Write` is one step, since it holds the lock throughout. The page `/admin/logs` holds it
over several calls: `Grab` takes it and makes the reader, each `Read` is one call of `io.ReadAll` with room for `n`
bytes, `Release` is the deferred one. Before the first wrap the code uses a `bytes.Reader` over `buf[:head]`;
the model reads it as a reader with an empty second half, which yields the same bytes and one more empty
read. Writes may be longer than the ring: URIs and posted user names are logged at any length. `advance` wraps once, so
a write that goes past the end by more than the ring's size leaves the head outside it. From then on `Write` and `Reader`
slice out of range: `WritePanics` and `ReaderPanics`, which change nothing, since the lock is freed by `defer`.
`advance` is never called with a negative number.

### Sessions and accounts

`store` is the map of `Store`, `cookie[b]` the cookie of browser `b`. `visit[h]` is the copy of a session that
request `h` works on: `Store.Start` hands out copies, and `Update` puts one back, whole, at the end of the request,
even of one that changed nothing. A session is its account (`SignIn` and `Logout` set `UserID` and `SignedIn` together).
Two variables are history: `meant[k]` is what the last deliberate change made of session `k` (`Spoilt` once a request
with an older copy has overwritten it), `granted[b]` the accounts signed in to from browser `b`.

| code | actions |
|---|---|
| `Store.Start`, `Lookup` | `Arrive`, `Lookup`; the copy is made under the read lock |
| `Store.New` | `NewToken` (the loop under the read lock), `StoreNew` (under the lock) |
| `Store.Update` at the end of a request | `Update` in `Done`; with `SignIn` or `Logout`, `Change` |
| `Authenticator`, `Permissions` | `Guard`, `VisitAgain`, `Done`, `Revoke` |
| `handleLoginAttempt`, `handleLogout`, `handleAccountSwitch` | `Login`, `LoginRefused`, `Switch`, `Enter`, `Logout` |
| password, link, unlink, synchronise | `Read`, then `Write`, `Unlink` or `Fail` |
| `handleAPIEditUser` | `ReadEdit`, then `Write` or `Fail` |
| `handleNewAccount`, `NewUser` | `BeginNew`, `TryName`, `Create` or `Fail` |
| a cookie that expires, a restart | `Forget`, `Restart` |

The middleware of a guarded route visits the session on its own before the handler does. For a signed-in user that
visit writes back, with nobody else's change lost that the handler's own visit would not lose, so `Guard` is a
look at the store; a refused request does visit it, twice if `RequirePermissions` was the one to refuse. A handler
is identified only when it begins to act, so `Routes` has a class per kind of middleware. `Random` says what 32 random
bytes may be: a token of an existing session, which the loop rejects, or one that nobody holds. That two
requests draw the same new token at once is thereby taken to be impossible.

*Writing a row.* `Updates` writes the whole copy that was read, except for zero values, so it never takes a link
away, nor makes anybody a teacher; `Unlink` is a conditional update on all that was read, `updated_at` too. A capability is
the least role that has it, and is asked of the table's row (`Can`).

*An edit* decodes a JSON body over the row it read. A body (`Bodies`) names some fields: the name, the password (taken
from administrators only), the link, the role, `deleted_at`, and the ID, which then says which row `Updates` writes: in a
request `of` is the row read and `u` the one written. A row with `deleted_at` set is `Removed`.

*A new account.* A query of `NewUser` that fails ends the loop like one that finds nobody; `blind` marks such a request.

*Abstractions.* A request reads its own account and the one it is about in one step. The role in a body, which the code does
not check, is one of the three. When the middleware visits a session again (`VisitAgain`), the judgement that follows the
visit is `Done` or `Revoke`, a step of its own, so that a session signed in to meanwhile may be revoked, as
`middleware.go:79-84` would.

### Inventory, templates and stock

Of a booking `Inventory` keeps the times and, for each item, how many sets of its activity have the item and their
total. `InRegion` is the query's `WHERE`, disjunct by disjunct; `Usage` adds the total as often as the join lists the booking.
A sum (`SumOf`) is the number of its units, each a pair of a term and a number up to its value: sums are compared by
comparing sets, without recursion. An item has a quantity and is available or not, which `NetQuantity`, like the code, does
not look at. `EditItem` writes both; the availability in the last of six statements, which is not reached when one before
fails.

`Templates` has the sets of one permanent activity. Keys are pairs of an item and `Important` (the activity's own
equipment or an extra). `CopiesTo` and `Lacking` are `ItemInformation.Copy`: the first set with the key gets the
quantity, further ones none, and a key without a set gets a new one, even if the quantity posted is zero: the editor then
deletes that set again, a booking keeps it. `Asked` is what a form asks of a key, zero if it does not name it. `Mine` is what the editor's request knows of the sets
it read; `Left` are those it has still to save, and `Saving` ends the request when there is none, which is at once for an
empty form on an activity without sets.

| code | actions of `Stock` |
|---|---|
| the booking pages, `booktime.js` | `OpenPage`, `GiveUp` |
| `handleAPIClashes` | for every item `ReadItem`, `AskNet`, `ListClashes`: one query each |
| `handleBookSubmission` | `Submit` (activity read and form copied), `Book` |
| `handleActivityDoEdit` | `OpenEdit`, `Insert` (new sets), `SaveSet` (one statement per set) |
| `handleActivityNew`, `NewActivity` | `OpenNew`, `FindTitle`, `CreateActivity` |
| item handlers, cancellations, renaming | `ChangeStock`, `Rename` |

A request's `clean` is history: nobody has written to what it works on since it first looked. The
life of a booking between submission and cancellation is `Bookings`' matter; here it exists or not.

### Timetable

A slice of the layout is the interval `lo .. hi` of its indices, a step is one call of `bsearch`. The layout in use is
one in time order, as the documentation asks for, or the default, a single nil period. `handleAPIPeriod` goes on after a complaint,
and `status` is that of the first answer it writes.

## 3. Runs

| run | instance | shows |
|---|---|---|
| `booking_races` | 1 ticket, 1 slot, 2 requests, 1 deletion, edits of the template and of the copy, 3 writes, 1 fault | the safety of bookings under every pair of handlers, and that they implement `BookingLife` |
| `booking_cleaning` | 2 tickets, batches of 1, 1 cleaner, 1 request, 1 tick, 1 fault | `CleanBookings` deletes only what is past or was rewritten since its batch was read, all that is past, and ends |
| `amend_after_deadline` | 1 ticket, 1 request | violation, see section 6 |
| `postpone_not_reopened` | 1 ticket, 2 requests | violation |
| `notification_delivery` | 1 user, 2 pages, 2 polls, queue of 2, 4 pushes, 1 fault | order, at most once, accounting, draining |
| `maintenance_mode` | 2 requests, 2 handlers | the mode is left, firings are taken, `Run` returns |
| `maintenance_now` | 1 request, 1 handler | violation |
| `log_ring` | ring of 4, writes of 1 to 6, 12 bytes in all, 2 readers, pieces of 1 and 3 | the page reads the last bytes, in order, and gives the lock back; only after a write longer than the ring does anything panic |
| `log_ring_filled` | ring of 4, writes of 1 to 4, 10 bytes in all, 1 reader | violation |
| `session_and_account_races` | 2 requests at a time, 4 in all, 2 browsers, 3 tokens, 4 accounts, 2 passwords, 1 iSAMS code, 1 new name, 4 bodies, 2 writes | browsers act for accounts they were let into, sign-in and logout stand, stale copies of an account lose nothing that was not written meanwhile, names stay apart |
| `stock_and_clashes` | 2 items, 4 slots, 3 tickets, 2 requests at a time, 3 begun, quantities to 2, 4 sets, forms with a posted zero | usage is that of overlap, an unclashing booking fits, an edit leaves what was posted, a new activity is made |
| `timetable_lookup` | all layouts of up to 4 periods over 5 ticks, and the default | the search finds a period exactly if there is one, with slices that halve |

*Why the bounds are enough.* A race of `booking_races` needs one booking and two writers; with three writes
both writers write after the submission, and the deletion and one fault fall anywhere between; no property of the run
depends on times, so one slot is enough. (A request
begins only while `stamp < MaxStamp`; those that have begun still write.) For cleaning, a batch of one with
two bookings has full, short and empty batches, which is all that distinguishes ten; the slots are one that
is over at the tick and one that has begun and is not. A queue of 2 with 4 pushes fills, drops, empties and
fills again, and `MaxPops` and `MaxShown` of 2 are both reached. Two requests and the scheduler are the fewest for
which two runs of `do` overlap while an administrator closes the site. Twelve bytes go around a ring of 4 up to three times, from
every head by every length; a write of 6 fits from a low head and leaves the ring from a high one, and six more bytes are
left to write or read after it. Pieces of 1 and 3 end before, at and after the end of a half.
In `session_and_account_races` a race needs two requests that overlap and one that came before (to sign in), so four
in all; each of two browsers has a token and a third is free to be drawn; one name is enough for two
creations to race and for all names to be taken. The four bodies are a password with a demotion, a new name with a link and a
promotion, another row's ID, and a removal. In `stock_and_clashes` the slots touch at an end, nest, and are apart, and one
ends before it starts, which no handler refuses; the forms include the empty one, one that posts
a zero for a set that is there and one that posts a zero for one that is not;
quantities of 1 and 2 tell core from extra and stock from demand; three requests are a page with another page
and one change of the inventory, or three edits in a row, which is how duplicated sets come about. Four periods
give slices of every remainder by two at two depths, and five ticks let periods touch, be empty, and leave gaps.

*Deadlock* is checked except where the system really stops: in the bookings runs without a cleaner requests
cease once the bounds are used up, as they do in those of accounts and of stock, and the maintenance scheduler stops when its context is done.

*Symmetry* (`AnyHandler`, `Interchangeable`) is used in `booking_races` and `session_and_account_races` only, where
nothing temporal but safety is checked.

*Fairness.* Goroutines that can go on do: weak fairness of a handler's, a deletion's and a cleaner's steps, and of
answering a poll, of reading the log, and of finding a title and creating the activity. `setInterval` keeps polling while the page is open: weak fairness of `BeginPoll` per page. The
interval fires again and again: weak fairness of `Fire`. Go's `select` picks at random among ready cases, so
the scheduler that again and again finds its context done takes that case: strong fairness of `StopScheduler`.
No user, administrator, crash or SQL error is fair.

*Mutants.* Beside the definition each of them changes stands a definition commented as a mutant: a plausible bug
(a dropped condition, an off-by-one, a forgotten table) under which TLC finds the property violated.

## 4. Proofs

TLC explores the small instances above; the theorems hold for all.

For every number of tickets, requests, deletions, cleaners and times, under the named `ASSUME`s of the modules. These say
that sets of rows are finite, that bounds are numbers and that sizes (a batch, a queue, the ring, the number of names)
are above zero, that the accounts with roles or links at first exist, that tickets are no templates and `"free"` is no reader, that slots, forms and bodies have the shape
forms can have, that the default password is a password, and that layouts configured are in time order where the
module says so. No `ASSUME` relates a bound to a size: writes, for one, are of any length.

- `BookingsProofs`: `TypeCorrect`, the inductive invariant `IInv` and from it `ActivityGoes`, `CancelIsFinal`, `DeletedStays`,
  `StatusSeen`, `ActivityStays` and `Refinement` (`Bookings` implements `BookingLife`); with `CleaningTells`
  beside it, `OnlyPastCleaned` and `AllCleaned`.
- `NotificationsProofs`: `TypeCorrect`, `QueuesInOrder`, `AllAccounted`, `OnceShown` and `Delivers` (`Notifications` implements `Delivery`).
- `MaintenanceProofs`: `TypeCorrect`, `NeverLeftClosed`, `ExclusiveUnattended`.
- `DmesgProofs`: `TypeCorrect`, `InOrder`, `OnlyOverlongFails`.
- `SessionsProofs`: the invariant `SInv` of the session store and the lemmas by which any step of any request keeps it.
- `AccountsProofs`: `TypeCorrect`, `SessionsStand`, `ActsGranted`, `RowsStand`, `NamesStayApart`.
- `StockProofs`: `TypeCorrect`, `Invariance`, `UsageCounts`, `AdviceHolds`, `EditSaves`.
- `TimetableProofs`: `TypeCorrect`, `SearchCorrect`, `ShownCorrect`, `DepthBounded`, for layouts of any length.

*Why `IInv`.* `CancelledIsGone` and `ActivityGoesWithBooking` speak of rows alone, but are kept true by what
requests remember. `IInv` adds: a ticket is booked by one submission, before which it has no row
(`BookedOnce`); a request about to announce a cancellation has a deleted row (`CancelledFirst`); what a
deletion or a cleaner remembers of activities agrees with the activities, which never come back
(`RemembersActs`); a live row with the stamp of a technician's copy equals that copy (`StampsTell`). The last is
what makes the compare-and-set of `handleSetStatus` one: rows with equal stamps are equal because every write
takes a new stamp. In `Maintenance`, `Unattended` adds that without an administrator no request is in `do` and
nobody closed the site by hand. In `Notifications`, `UpToLast` says that whatever is on a page or in an answer is
numbered no higher than the last hand-out; with `QueueInOrder`, which puts every queue behind it, the next one
handed out is new to all of them, which is what `ShownOnce` needs.
In `Dmesg`, `Ring` says where each of the last bytes lies, before and after the head, and `ReadSoFar` that a read in
progress holds the lock, still has the buffer's own halves, and has read a prefix of what the two hold.

*Cleaning.* `CleaningTells` says of a batch read by `CleanBookings` that each member was past or has a later stamp than
the mark, and of a last, short batch without errors that it has every past booking but those with a later stamp.
`OthersTell` shows that no other process breaks this, since a row is left alone, deleted, or given a new stamp (`RowsAge`).

*Sessions.* `ActsForGranted` speaks of browsers, but what keeps it true is who holds a token: `SInv` adds that a
token is held by one browser, in its jar or in its requests (`HeldOnce`), that the token a request is about to store
belongs to nobody else (`Fresh`), that a copy which is not stale agrees with the last deliberate change
(`Copied`), and that stored sessions and copies alike are of accounts granted to whoever holds the token (`LetIn`).
`AInv` adds to it the table: no row is newer than the last stamp (`Stamps`), a copy with the stamp of the row
has the row's password and role, unless the request is there to change them (`Copies`), and a name found free is taken since
only by a row with a later stamp, unless the query failed (`Named`). `ProgramVisits` says that every step of `Accounts` is one of `Sessions` or leaves the
store alone, so that the invariant of the store is proved without the accounts.

*Timetable.* `NothingCutOff` says that a period left of or right of the slice does not hold the time; it uses that
the layout is in time order, `Answered` that an answer stays true until the next request.

*Stock.* Its properties are about sums and about how many sets there are. Sums are cardinalities, so `SumGrows` follows
from inclusion: with `RegionIsOverlap` (the two disjuncts of the query say that the times overlap) it gives that the usage
of an item covers the demand at every instant of the times asked about (`UsageCoversDemand`), and is the demand of the
overlapping bookings (`UsageIsDemand`). The invariant `IInv` of `Stock` has five parts. `TypeOK`. `NoneAsked`: who has no set of an
item asks for none of it. `Pages`: of every item a page has looked at, it has established that nobody has booked it or
that enough is left (`Fitting`), as long as nothing changed; the activity it submits has, of an item with one set, not both
own and extra equipment (`CopiedType`). `FirstUsed`: the IDs of sets in use are the first ones, so that new sets never fall
on old ones. `Edits`: the sets an undisturbed edit has still to save are as it read them, which is what makes its conditional
deletions hit; and from the insertion of the new sets on, each key of the form has exactly one set that will end with its
quantity, and all others will be deleted (`Settled`). `InsertSettles` establishes this (of the sets with one key the
first is taken, by `Smallest`; a key without a set gets one new one, since as many are inserted as there are such keys);
`SaveSettles` keeps it. When no set is left to save, the live sets and the keys of the form are in
bijection (`SettledIsPosted`), which is the claim about their number.

Only model-checked: liveness (`CleanEnds`, `QueueDrains`, `SiteReopens`, `FiringTaken`, `RunReturns`, `ReadEnds`,
`NewActivityEnds`), which the prover does not reach. Every invariant and every action property that a passing run checks,
and both refinements, are theorems. Where a proof needs a least element of a set of numbers it takes it from the
well-foundedness of `<` (`WFMin`); induction in any other form is not needed.

## 5. Not modelled

The iSAMS client, configuration files, templates, password rules and hashing, the listing pages and the stripping of
colours from the log: I/O or data without state that races. `CleanDeleted`, which erases rows soft-deleted weeks before:
no other code reads them. How tokens and cookies are spelled, and that two requests may draw one token (section 2).
The titles, descriptions and categories of activities. Foreign keys and isolation levels of the database beyond "a statement, and a
transaction, is atomic". Graceful shutdown: to the state it is a crash.

## 6. What the documentation says and the code does not do

- `book.go:550-552`: amendments are accepted "up to the deadline or when they are processed".
  `handleBookDoingAmend` never asks `MayAmend`, and writes whatever the form brings (`amend_after_deadline`).
- `book.go:817` tells technicians that a postponed booking "has been automatically re-marked as In Progress".
  If it was Pending when read, and marked Ready before the write, it stays Ready (`postpone_not_reopened`).
- `maintenance/sched.go:80` calls `Now` thread safe. Beside a scheduled run, the second `Exit` panics, and in the
  scheduler's goroutine that ends the server (`maintenance_now`).
- `logging/dmesg.go:14-15`: once the ring is exhausted "the oldest entries are discarded". A write that ends exactly
  at the end resets the head without setting `wrapped`: the first time, everything is hidden (`log_ring_filled`).

Noticed while modelling, without a run of its own, since nothing in the repository says otherwise plainly enough or the
matter is of one line:

- `data/activity.go:57-68`: the loop that should go on "until we find a suffix which doesn't exist" never changes `num`.
  The request repeats one query until somebody renames or deletes the activity; `NewActivityEnds` is stated under
  that condition.
- `data/inventory.go:20`: of an item that is not `Available`, the "quantity is treated as though zero". `NetQuantity`
  (`data/inventory.go:116-121`) uses `Quantity`, and nothing that computes clashes asks; `AdviceIsSound` is stated for available items.
- `logging/dmesg.go:17-20`: reads "always succeed", writes "never fail". After a write that goes past the end by more than
  the ring's size the head is outside, and every later `Write` and `Reader` panics. `dmesg_test.go` writes ten bytes
  more than the ring from head zero, which stays inside. `FailsOnlyOverlong` is what remains of the promise.
- `data/activity.go:45`: temporary activities are "those which have an associated booking". `handleActivityDelete` takes such an
  activity from its booking when given its ID (`activities.go:187-234`), and a cancellation leaves one without a booking.
- `data/user.go:84`: "Break when username not found". Any error of the query breaks, and the name counts as free.
- `api.go:73-106`: the body of an edit may hold another ID than the path, for which alone the right to edit was checked
  (`api.go:236-242` does compare them, for items), and any user may send a role. A role of teacher is not
  written, since it is the zero value: a demotion to teacher is answered as done.
- `Usage` counts a booking's whole quantity once for each set with the item: twice if it is both own equipment and
  extra, be the extra posted at zero. `booktime.js` sends both under one name, and the handler compares the first only. `UsageExact` and `AdviceIsSound`
  are therefore stated for one set of an item.
- `handleAPIClashes` lists the other bookings, not the shortage: more than there is of an item, asked for when nobody else
  has booked it, is an empty answer, and the page submits at once.
- `book.go:400-420` and `api.go:378-405` never ask whether a time ends after it starts. A booking that ends before it starts
  may be counted by the overlap query although it lasts at no instant; `UsageExact` is stated for times that do not.
- `handleAPIEditItem` and `handleAPIPeriod` go on after they have answered with an error.
- `conf/timetable.go:38-41`: `FindPeriod` promises the first period that holds the time; where two touch it may be the second.
- `conf/timetable.go:47-49`: the nil period is "spanning for all of time", so that "an empty timetable may still be used", and
  `conf/conf.go:53` is to "allow for nil period to be used". `FindPeriod` does find it, but `/api/period` takes it for no
  period and answers 404. `ShownIfConfigured` is stated for configured layouts and asserts neither.
- `session/session.go:201`: a logout is undone by an older request of that browser that ends after it. `SessionStands` says
  it is undone by nothing else.
- An unlinking that matches no row is answered as one that did.
- `data/clean.go:28-29` says rows deleted "over a week ago" are erased; it takes three.
- `data/clean.go:33`: the errors of single tables are dropped, so that "the entire operation is rolled back" does not happen.

## 7. Plan

1. `Bookings`, `Notifications`, `Maintenance`, `Dmesg`, `Sessions`, `Accounts`, `Inventory`, `Templates`, `Stock`,
   `Timetable`, and the proofs of all their safety properties and refinements: done.
2. `CleanDeleted`, composed with `Bookings` for the erasure of rows that a stale copy still names, with its proof.
3. Larger instances of the runs that leave time: a second account name, a third request for a page.
