# A TLA+ model of the Banking Management System

The repository is a C client and a multi-threaded C server over five binary
record files (`./db/*.db`). This directory models what changes money, loans,
sessions, users and feedback, and the exchange between client and server,
checks it with TLC on small instances, and proves with TLAPS every safety
property of the passing runs for every value of the constants.

## The system

| Part | State | Operations | Model |
|---|---|---|---|
| Persistence layer (`utils.c`) | record files, `fcntl` locks | `lock_file`, `lock_record`, `find_*_offset`, `atomic_update_*`, `read_*`, `write_*`, `append_*` | `FileLocks`, and steps of `Ledger`, `Loans`, `Users`, `Feedback` |
| Money (`customer_module.c`, parts of `manager_module.c`, `employee_module.c`) | `accounts.db`, `transactions.db` | deposit, withdraw, transfer with rollback, payout of a loan, account status, history | `Ledger`, promise in `AtomicLedger` |
| Loans (`customer_module.c`, `manager_module.c`, `employee_module.c`) | `loans.db` | apply, assign, approve, reject, four listings | `Loans`, composed with `AtomicLedger` |
| Login and sessions (`server.c`, `utils.c`, `client.c`) | `active_sessions`, `current_userId` of each thread, `userId` of each client, the buffer of `crypt()` | LOGIN, LOGOUT, clean-up, the client's login loop | `Sessions` |
| Server lifecycle (`server.c`) | threads, the listening socket | accept, thread per client, exit on SIGINT | in the modules above |
| User registry (`admin_module.c`, `employee_module.c`, `customer_module.c`, `utils.c`) | `users.db`, the opening of accounts in `accounts.db`, the buffer of `crypt()` | add customer, add employee, modify, change role, change password, list | `Users` |
| Feedback (`customer_module.c`, `manager_module.c`, `utils.c`) | `feedback.db` | add, view, batch review | `Feedback` |
| Wire protocol (`server.c`, `client.c`, `server.h`) | the byte streams, the buffers of both sides | one `write` and one `read` per structure, the parsing of every route | `Wire` |
| Client menus, validation (`client.c`) | the menu shown, the response buffers | the entries of four menus, login loop, validators | `Wire`, `Sessions`; not the validators |
| `bootstrap.c` | none of its own | adds the first users | the initial state of `Users` |
| `db_inspector.c` | none | prints the files | not modelled |

How they interact: a client sends one request and waits for the answer. Each
connection has a server thread that receives, calls one handler, and answers.
Handlers meet only in the files, through `utils.c`, and in the session table,
under the mutex `db_lock`. Approving a loan updates an account while the loan
record is locked. There is no callback and no message between threads.

What is hard here: handlers interleave between any two system calls; an
`fcntl` lock does less than the code's comments expect (next section); a
handler makes several updates in turn, any of which may fail; SIGINT makes
`main` return, which ends every thread wherever it stands; a client may vanish
at any point; `crypt()` is not reentrant; adding a user is five sections with a
lock each; a stream socket may deliver part of a structure.

What makes each part correct: no money appears or disappears and no update is
lost (money); a loan is paid once, exactly if approved (loans); one login per
user, and slots that come free (sessions); unique names and ids, one account
for each customer, the password that was typed (users); nothing acknowledged
is lost and nothing is marked unseen (feedback); a request runs at most once
and its own answer is shown (wire).

### What the locks are worth

`FileLocks` states three facts of POSIX record locks that the models rest on:

* the owner of a lock is the process, so threads of one server never exclude
  each other;
* a write lock needs a descriptor open for writing, so `lock_file()` on an
  `O_RDONLY` descriptor fails, and its result is ignored: searches and listings
  hold no lock;
* `close()` of any descriptor of a file drops all locks of the process on that
  file, so a search or a listing drops the locks another thread relies on.

Hence two regimes, chosen by the constant `ProcOf` (in `Users` and `Feedback`
by the initial value of `procOf`, so that one run covers both). *One server* (all threads
in one process) is the program as it is usually run. *Separate processes* (one
thread per process) is the regime in which the locks exclude: servers on
different ports over one `./db`, one connection each. It is not how the program
is deployed: server.c:407 starts a thread for each client of one process and
client.c:687 names one port. A result about separate processes therefore says
what the locking code achieves where the locks work, and little about one
server as it is built. For one server the project has

* the properties that hold all the same, with theorems that do not mention the
  regime: `NoOverdraft`, `TxnIdNeverAhead`, `TransferInAfterOut`,
  `KeptOnlyIfFoiled`, `ApprovedOnlyIfPaid`, `IdentityKept`, `FeedbackKept`,
  `MarkedIsShown`, the first halves of `IdsArePositions` and `AckedIsKept`, and
  everything about `Sessions` and `Wire`;
* a violation run for `UpdateIsolated` (`ledger_lost_update`), and the runs a
  reader gets by changing a line of a configuration (below) for
  `TxnIdIsPosition`, `PaidAccounted` and the account part of `OneAccountEach`.

`NoMoneyCreated`, `RefinesAtomic`, `HistoryExplainsBalance`, `LoanFoundById`,
`Lifecycle`, `ShownOnce` and `BalanceKept` are stated for separate processes
only. The lost update and the repeated id take away what their proofs rest on;
nothing here exhibits their failure.

## Modules

* `FileLocks`: lock tables; `Grantable`, `Lock`, `Close`, `ReadOnlyPass`.
* `AtomicLedger`: the promise of README.md:54 of the repository. A credit, a
  debit from funds that are there, a change of status, or a log entry is one
  step on current data.
* `Ledger`: each thread has a program counter `pc` (the next system call) and a
  `phase` (which update or log entry it belongs to). `Receive` routes a request
  to `deposit_money`, `withdraw_money`, `transfer_funds`, ...;
  `Find`, `LockRecord`, `Read`, `Write`, `Unlock` are the system calls of
  `atomic_update_account()`, and `UpdateReturns` is where each caller goes on.
  `SeekEnd` and `AppendRecord` are `append_transaction()`. `OpenFails`,
  `LockFails`, `IoFails` let a call fail, `Exit` ends a process. `cash` and
  `transit` are history variables, and so is `marred`: the accounts for which a
  rollback was refused or failed, a log record was not written, or an exit came
  between an update and its record. `AtStake` is the account that stays wrong
  when the call a thread is at fails. An unlock and the close after it are one
  step, and so is a whole read-only pass, since no other process can tell.
  `APPROVE_LOAN` stands for the money side of approving a loan, and
  `VIEW_TRANSACTIONS` for both history listings.
* `Sessions`: a connection is a client process and its thread, with one `pc`
  since the client waits for each answer. The two sections under `db_lock` are
  one step each (`TakeSession`, `remove_active_session`). Client actions:
  `Connect`, `SendLogin`, `ReadAnswer` (with the role check of the client),
  `SendLogout`, `LeaveMenu` (the menu returns once LOGOUT is answered),
  `Leave`. Server actions: `Lookup` and `Compare` (the two halves
  of `verify_password()`, around the shared buffer), `TakeSession`, `Logout`,
  `Cleanup`. `Toggle` is a manager changing an account, `Restart` the server.
* `Loans`: as `Ledger`, over `loans.db`: `SeekEnd`, `AppendLoan` are
  `append_loan()`; `FindLoan`, `LockLoan`, `ReadLoan`, ..., `WriteLoan`,
  `UnlockLoan` are `atomic_update_loan()` with the two modifiers inside.
  `Deposit`, `LogDeposit` and `SetStatus` are the steps `ACredit`, `ALog` and
  `ASetStatus` of `AtomicLedger`: what is shown of loans holds of an account
  file that keeps its promise, which `Ledger` examines. `paid` is a history
  variable.
* `Users`: `CheckNew`, `NewId`, `Hash`, `CopyHash`, then `ScanUsers`,
  `SeekUsers`, `PutUser` (`write_user()`) and `ScanAccounts`, `SeekAccounts`,
  `PutAccount` (`write_account()`) are an addition, whose record (`NewUser`) has
  no password until `CopyHash`; `FindUser`, `LockUser`,
  `ReadUser`, `Recheck`, `WriteUser`, `UnlockUser` are `atomic_update_user()`
  with its four modifiers. `Recheck` is the `check_uniqueness()` inside a
  modifier, whose `close()` drops the record lock of the update it is part of.
  History variables: `stale` (what a thread has seen of `users.db`, or of the
  buffer of `crypt()`, has been overwritten), `raced` (a thread wrote on stale
  grounds), `clobbered` (records an addition has replaced). `Deposit` puts
  money into accounts, so that emptying one shows.
* `Feedback`: `SeekEnd`, `AppendFeedback` are `append_feedback()`; `LockFile`,
  `ReadNext`, `MarkReviewed`, `UnlockFile`, `Show` are `review_feedbacks()`,
  one record at a time. `acked`, `shown` and `overflow` are history variables.
* `Wire`: one connection. Each structure travels as three segments (head, text,
  padding) through `up` and `down`; `read()` takes up to three. A structure is
  split between these segments only; what is left of one when the next is read
  overwrites the start of the text behind it (`TextAfter`, `Recv`). A text is its
  number of words: `Words` is what the client sends, `Conversions` and `Wanted`
  what the route converts and insists on. Client: `Login`, `Choose`,
  `SendChangeRole`, `Receive`, `ConnectionLost`, `Leave`, and `RefuseEmployee`
  for the check at client.c:584. Server: `Recv`, `Route`, `SendResponse`,
  `RecvFails`, `Exit`. What handlers do is left to the other modules. The first
  `write()` to a side that is gone does no harm and the second raises SIGPIPE.
* `MCLedger`, `MCSessions`, `MCLoans`, `MCUsers`, `MCFeedback`, `MCWire`: values
  for the constants.
* `LedgerProofs`, `SessionsProofs`, `LoansProofs`, `UsersProofs`,
  `FeedbackProofs`, `WireProofs`: the theorems about each module; `MoneyProofs`:
  those about `Ledger` that add up money or log entries; `SumTheorems`: the
  lemmas on sums they need.

Data is abstracted: amounts are integers (the code uses doubles), user ids and
passwords are model values, a record has the fields the handlers look at, time
stamps and texts are left out. E-mail address and phone number, which the code
treats alike, are one field of `Users`; a hash is the password it was made
from. `Opening` stands for whatever earlier requests
left in an account. Records are read and written whole.

## Runs

Passing runs:

| Run | Regime and bounds | What it shows |
|---|---|---|
| `ledger_isolated` | 2 processes, 2 accounts, 1 unknown id, 3 requests of all kinds, either account may change status | updates are isolated; a transfer that is answered has passed on what it took or given it back, unless the rollback itself was refused (see `ledger_rollback`); transaction ids are positions |
| `ledger_faults` | the same, 2 requests, 2 failing calls, 1 exit, fair | no failure makes money; the history a customer is shown accounts for the balance, but for accounts whose rollback or log record failed; the files change only by atomic steps; every request is answered |
| `ledger_threads` | one server, 3 threads, 3 withdrawals or transfers | without exclusion: still no overdraft, ids never run ahead of positions, `transfer_in` is logged only after its `transfer_out` |
| `sessions_slots` | 2 connections, 2 users, 2 slots, 3 logins, 1 deactivation, 1 restart, fair | a thread frees its own slot only; no user is logged in twice; a slot loses its thread only by a second LOGIN on its connection; the slot of a client that vanishes comes free |
| `loans_separate` | 2 processes, 2 loans, 4 requests, 1 change of status or role, 1 failing call, 1 exit | a loan only moves forward and is assigned once; it is never approved unpaid; it is found by its id; it is paid once exactly if approved, with at most one payment too many for each failure |
| `users_registry` | both regimes, 2 threads, 2 users to start with and 4 at most, 3 requests, deposits, failures or exits | names and contacts are unique until a thread writes on stale grounds or a call fails; ids never run ahead of positions and equal them where the locks exclude; the hash stored is that of the password typed unless `crypt()` was called in between; a customer has one account; no update changes who a user is; opening an account empties none in use |
| `feedback_review` | both regimes, 2 threads, 3 messages, room for 2 in an answer, 5 requests, 1 failure, exit or lost answer, fair | acknowledged feedback is in the file, once; what is marked was shown unless the answer was full; where the lock excludes nothing is shown twice; the batch update damages no record; every request ends |
| `wire_streams` | 4 roles, 3 requests, 1 short `read()`, either side may vanish, fair | no request runs twice; with whole reads every answered request but MODIFY_USER ran with its own payload; answers lag by at most one request for each short read; only a client whose request was split can take the server with it; no client waits for ever |

Runs that end in a violation, each against a line of the repository
(`findings` in `PROJECT.json` quotes it):

| Run | Shows |
|---|---|
| `ledger_lost_update` | one server: an update is lost |
| `ledger_rollback` | the rollback of a transfer is refused if the sender is deactivated meanwhile |
| `users_unique` | separate processes: two additions check and take an id before either writes, and the second is about to replace the user the first has added, under the same name |
| `wire_choices` | the admin's menu turns away the roles it asks for; further on, MODIFY_USER is refused by its own count of fields |

What the models show besides. The first five are repeated by a small change of
a configuration, and TLC finds each within a minute or so:

* `SingleLogin` in `MCSessions_slots.cfg`, with three connections and one slot:
  with every slot of `active_sessions` taken LOGIN answers SUCCESS and records
  nothing (server.c:124), and a user logs in twice. README.md:35 of the
  repository promises otherwise. The theorem `SingleLoginHolds` has the
  hypothesis that there are as many slots as users.
* `TxnIdIsPosition` in `MCLedger_lost_update.cfg`, with
  `Ops = {"DEPOSIT"}`: two log records of one server get one id (utils.c:395).
* `PaidAccounted` in `MCLoans_separate.cfg`, with `ProcOf <- OneServer` and no
  failures: two approvals read ASSIGNED, and a loan is paid twice
  (employee_module.c:55).
* `DedicatedAccount` in `MCUsers_unique.cfg`, with `Regimes <- BothRegimes` and
  two names: two `write_account()`s of one server seek to one end, and one
  customer is left without an account (utils.c:330).
* `AllUnreadShown` in `MCFeedback_review.cfg`: feedback that does not fit into
  the answer, or whose answer is lost, is marked and never shown
  (manager_module.c:126). `MarkedIsShown` says that there is no third way.
* `check_uniqueness()` inside `modify_customer()` drops the record lock of the
  update (employee_module.c:113), also between processes: a password changed
  meanwhile is put back. `IdentityKept` says what cannot be lost that way.
* After a role mismatch the client prompts again without LOGOUT (client.c:760),
  and a second LOGIN leaves the first slot occupied until the server restarts.
  `OrphanOnlyByRelogin` says that nothing else does.
* Two logins at once share the buffer of `crypt()` (utils.c:85): right
  credentials may be refused. In `generate_password_hash()` the same race
  stores the hash of another's password; `PasswordAsTyped` says that a thread
  that nobody has outrun stores its own. (`Users` has the `crypt()` calls of additions and
  password changes, not those of logins; the race is the same.)
* A server that exits between the payout and the write of the loan leaves a
  paid loan ASSIGNED, and it is paid again (employee_module.c:55):
  `PaidAccounted` allows one such payment for each failure.
* `check_uniqueness()` that cannot open the file reports everything unique, and
  `generate_new_userId()` in the same case returns the first id, so that an
  addition replaces the first user (utils.c:529, 540). `IdentityKept` excepts
  exactly those replacements.
* After a short `read()` of a response every later answer comes one request
  late, and the login prompt, whose buffer is not cleared, may act on an old
  SUCCESS (client.c:739). README.md:83 of the repository has short transfers
  prevented; `LagBounded` says how far they reach.

Why the bounds are enough: every handler touches at most two accounts and one
loan, so two accounts and two contenders give every pattern of overlap. The
third request of `ledger_isolated` lets a status change come between the two
updates of a transfer while another handler runs; the threads run has three
threads so that one writer can be overtaken twice. Two failing calls are what
it takes to fail a credit and its rollback; the ledger with failures was also
checked once with three requests, one failing call and one exit (3.9 million
states), which changes nothing. A loan needs an application, an
assignment and a decision, so four requests leave one that competes or comes
again. Two users and two connections give a mismatch, a second login and a
contest for one user. In `users_registry` two additions, or an addition and an
update, contend, and a third event is a failure, a deposit or another request;
in `feedback_review` three messages overflow an answer with room for two, and
five requests leave two reviews that overlap three additions. Three requests
of `wire_streams` are a login, an entry and what follows it, the shortest
sequence in which a delayed answer is taken for a later one; a second short
`read()` was checked too (3.3 million states) and changes nothing. The amounts are one the guards refuse and one
they accept; balances of 2 and amounts of 1 let debits succeed and run out.
The bounds on requests are why the models may stop, hence
`CHECK_DEADLOCK FALSE`; that no handler hangs is `EveryRequestAnswered`.
Threads and connections are interchangeable where `SYMMETRY` is used, and no
liveness property is checked with it.

Fairness: weak fairness of each thread's own steps, justified by the kernel
scheduling every runnable thread and waking a lock's waiter when it is free.
Nothing is assumed of clients, managers, failures or exits. In `Wire` the
server's steps and the client's reading are fair: the kernel delivers what was
sent and reports a connection that is closed; nobody has to type anything. With the number of
requests bounded, weak fairness is enough for lock waiters; with an endless
stream of requests an `F_SETLKW` waiter could in principle be overtaken for
ever, which the code does nothing about.

Every property of a passing run has a mutant, a defective variant of one
definition kept beside it, under which TLC finds the property violated.

## Proofs

Every safety property a passing run checks, invariant or action property, is
also a theorem. The theorems hold for every number of threads, processes,
accounts, users, slots, loans, messages and requests, and for every bound.
Assumptions are the named `ASSUME`s of the modules, which TLC evaluates in the
runs; beyond them a theorem states its hypotheses. `OneThreadPerProcess` (in
`Users` and `Feedback` the state predicate `Exclusive`) is the regime of
separate processes; a theorem that does not mention it holds for one server
with any number of threads as well. `MaxFaults = 0` says that no system call
fails.

Each proof has the same plan: types, with a `Flow` that says which locals go
with each program counter; an invariant local to one thread; a lemma for what a
step of one thread leaves alone in the others; one case for each action.

`LedgerProofs`

* `TypeCorrect`: the types, together with `Flow`, which says in which phases
  and for which request each program counter occurs. Nothing else can be
  proved without it: `Target(t)` must be an account at "lock", "read", "write".
* `NeverOverdrawn`: no overdraft, in every regime. `Solvent` adds that a record
  read and modified and not yet written is solvent too; that is why stale
  writes cannot overdraw.
* `UpdatesIsolated`: with one thread per process, through failures and exits.
  `LockInv` says that a thread between "read" and "unlock" holds its target's
  lock; since no other thread shares the process, no other thread writes the
  record in between.
* `IdsNeverAhead`: an id computed from `lseek()` never exceeds the length the
  file has when it is written, since the file only grows.
* `IdsArePositions` (one thread per process, `MaxFaults = 0`): the id equals
  the position, because `AppendInv` has the lock held from `SeekEnd` on.
* `LedgerIsAtomic`: with one thread per process `Ledger` implements
  `AtomicLedger` under the identity mapping on the two files: `Write` is a
  credit, a debit or a status change by `UpdatesIsolated`, `AppendRecord` a log
  step by `IdsNeverAhead`, and every other step leaves the files alone.

`MoneyProofs`, on the sums of `SumTheorems`

* `MoneyIsNotMade` (one thread per process, with failures and exits): balances
  and transfers under way never exceed what was paid in. `CarryInv` says what
  each thread carries between the debit and the credit of a transfer; a write
  changes one balance by what it changes `transit` or `cash`.
* `TransfersMadeGood` (every regime, with failures and exits, any accounts
  deactivated at any time): a transfer that is answered with money neither
  passed on nor given back is one whose rollback was refused, as the sender had
  been deactivated since the debit, or failed. `RollInv` follows the result of
  the rollback from its last call to the answer; that the sender is in `marred`
  is the only way in which it can be negative. This is the exact complement of
  `ledger_rollback`.
* `HistoryIsComplete` (one thread per process, with failures and exits):
  `TellInv` says that a balance is what the log tells plus what threads have
  written and not logged yet, for every account that is not in `marred`. A
  failed append (`LostAppendTells`) or an exit (`ExitTells`) puts into `marred`
  exactly the accounts whose entry will never be written.
* `PairsInOrder` (`MaxFaults = 0`, any regime, with exits): the records of
  receiving sides, together with the threads between the two appends, never
  outnumber those of sending sides.
* `SumTheorems` derives what `MapThenSumSet` does: the empty sum, a sum without
  one element, a sum in which one term changes, comparison of two sums. The
  fold of the library is a recursive function on subsets; induction is the
  choice of a smallest counterexample among the subsets (`SmallestSubset`).

`SessionsProofs`

* `TypeCorrect`.
* `SlotsAreOwn`: via `SlotInv`: occupied slots are distinct, a thread's user
  has a slot, no two threads have the same user. It also holds when the table
  is full and when logins leave orphaned slots.
* `SingleLoginHolds`: under `EnoughSlots` (no more users than slots), via
  `ClientInv` (what a client believes is what its thread recorded) and a
  pigeonhole argument that the branch which answers SUCCESS without a slot is
  not reached. Without the hypothesis it is false.
* `SlotsLostByReloginOnly`: an action property, from `SlotInv`.

`LoansProofs`

* `TypeCorrect`, with `Counted`: the records of `loans.db` and the applications
  under way never exceed those let in.
* `ApprovedIsPaid`, in every regime: a record about to be written APPROVED has
  been paid for.
* `LifecycleKept`, `PaymentsAccounted` (one thread per process, with failures
  and exits): from `LockInv`, by which the record read is the record written,
  and from `Accounted`, which counts: a loan is paid once if it is approved or
  about to be written so, and at most once more for each failure or exit.
* `LoansFoundById` (one thread per process): as for transactions, under the
  condition of the property itself that no call failed.

`UsersProofs`

* `TypeCorrect`.
* `IdentityIsKept`, in every regime: `Faithful` says that what an update holds
  agrees with the record at its place in all that an update must not change,
  unless an addition has replaced that record; so stale updates do no harm.
* `IdsAreCounted`: ids never exceed positions in every regime (`IdsBounded`)
  and equal them where the locks exclude and nothing fails (`Locked`,
  `IdsExact`).
* `PasswordIsKept`: a thread that is not `stale` has the hash of its own
  request, in the buffer of its process or in its record; nor has any thread
  another's where no two share a process.
* `UniqueIfUnraced`: `Fresh` says that a thread that is not `stale` and has
  passed `check_uniqueness()` holds a name and a contact nobody has; the locks
  play no part.
* `AccountForEach` (where the locks exclude): `AccountsInv` says that a customer's account exists or a
  thread is about to open it, and that owners are distinct.
* `BalanceIsKept`: an action property; `OwnersInv` says that a new customer has
  no account yet, so that `write_account()` writes at the end.

`FeedbackProofs`

* `TypeCorrect`, with `Numbered` and `Counted` on messages handed in.
* `FeedbackIsKept`, in every regime: `Copied` says that what a review holds
  differs from the record in the mark alone.
* `AckedAreKept`: acknowledged messages are in the file once (`Once`, `Kept`)
  and, where the lock excludes, at the id that was told (`Ids`).
* `MarkedAreShown`: `InAnswer` says that what a review is about to mark is in
  its answer.
* `ShownToOne`: `Answers` says that where the lock excludes, two answers have
  nothing in common, and what is in one is marked or about to be.

`WireProofs`

* `TypeCorrect`, with `Flow`: segments on the wire are of messages that exist,
  and a menu is shown only to those who logged in.
* `NothingTwice`: `UpInv` says that a stream carries the last segments of what
  was sent, in order and without gaps (`Carried`: each segment knows its
  place). `RunsInv` says that handlers were called for requests in the order
  sent and with heads that have left the stream. No assumption on how
  `read()` splits the stream.
* `AnswersAreEarned`: `AlignInv` says that while nothing came up short the
  stream starts with a head and the buffer holds a head with its own text;
  `PayloadParses` compares what the menus send with what the routes take, for
  all operations.
* `OnlyTwoRefused`: while nothing comes up short, MODIFY_USER and ADD_EMPLOYEE
  are the only entries that proper input cannot get through. It is the
  complement of the run `wire_choices`: that run shows that the refusals
  happen, this theorem that there are no others.
* `AnswersAreInStep` and `ServerOutlives`: `PaceInv` counts. Each side makes
  one `read()` per message of the other; if `su` of the server's reads and `sd`
  of the client's came up short, the server is at most `su` requests and the
  client at most `sd` answers behind, with `su + sd <= shorts`. `LagInv` adds
  what "Manage User Roles" keeps in its buffer between its two requests;
  `SurviveInv` adds that a client which is gone leaves at most one request to
  be answered, so that there is no second `write()` to it.

Only model-checked: liveness (`EveryRequestAnswered`, `DisconnectFreesSlot`,
`EveryWaitEnds`), which the prover does not do. `PaceInv`, `SurviveInv` and
`LagInv` were checked with TLC before they were proved, with four requests and
two short reads (4.0 million states).

## Not modelled

* `db_inspector.c`, which prints the files, changes nothing and takes no locks.
* The validators of the client and their re-prompt loops: terminal input
  without other state. The menus of `Wire` start from input they accept.
* `write_loan`, `read_loan`, `write_feedback` and `read_feedback`, which have no
  caller.
* Floating point; torn records (a `write()` that stores part of a record); a
  structure split inside a field; `crypt()` returning NULL; answers other than
  the review of feedback being cut at 1024 bytes; the destruction of `db_lock`
  by `server_stop()` while threads still run; socket set-up; `CHANGE_PASSWORD`
  racing a login.

## Plan

1. `Sessions` with `CHANGE_PASSWORD` racing a login, and a login composed with
   `Users`.
2. The theorems of `Loans` rest on `AtomicLedger`; the product of `Loans` and
   `Ledger`, whose `Deposit` is itself several steps, would show that nothing
   is lost by composing them.
3. The exact exception of `ledger_lost_update`, as `TransfersMadeGood` is for
   `ledger_rollback`: which interleavings lose an update, and by how much.
4. A liveness run of `Loans`, whose approval holds a loan record while it waits
   for an account record, the one place where locks nest.
