------------------------------- MODULE Ledger -------------------------------
(***************************************************************************)
(* Money: accounts.db and transactions.db under the handlers that change   *)
(* them (customer_module.c, set_account_status of manager_module.c, the    *)
(* disbursement inside approve_reject_loan_modifier of employee_module.c)  *)
(* and the persistence layer of utils.c.  Every client thread runs the     *)
(* receive/dispatch/respond loop of client_thread_main (server.c) and the  *)
(* steps of concurrent handlers interleave between system calls.           *)
(*                                                                         *)
(* ProcOf says which process a thread lives in.  With all threads in one   *)
(* process this is the server as it is built; with one thread per process  *)
(* (servers on several ports over one ./db, each with one connection) it   *)
(* is the regime in which the fcntl locks exclude.                         *)
(***************************************************************************)
EXTENDS Integers, Sequences, FiniteSets, FiniteSetsExt, FileLocks

CONSTANTS Threads,        \* client threads
          ProcOf,         \* the process each thread belongs to
          Accounts,       \* user ids with a record in accounts.db
          Strangers,      \* user ids without one, that a client may name
          Bank,           \* account id 0 of a transaction record
          Amounts,        \* the amounts clients send
          Opening,        \* the balance each account starts with
          StatusTargets,  \* accounts managers activate and deactivate
          Ops,            \* the requests clients send
          MaxRequests,    \* bound: requests received in a behaviour
          MaxFaults,      \* bound: failing open/fcntl/read/write calls
          MaxExits        \* bound: times a server process exits and restarts

ASSUME ThreadsAssumption  == ProcOf \in [Threads -> Procs]
ASSUME FiniteAssumption   == IsFiniteSet(Threads) /\ IsFiniteSet(Accounts)
ASSUME AmountsAssumption  == Amounts \subseteq Int
ASSUME OpeningAssumption  == Opening \in [Accounts -> Nat]
ASSUME IdsAssumption      == /\ Bank \notin Accounts
                             /\ Strangers \cap Accounts = {}
                             /\ StatusTargets \subseteq Accounts \cup Strangers
ASSUME BoundsAssumption   == MaxRequests \in Nat /\ MaxFaults \in Nat /\ MaxExits \in Nat

\* Each connection is served by a process of its own.
OneThreadPerProcess == \A t, u \in Threads : ProcOf[t] = ProcOf[u] => t = u

VARIABLES
  accounts,   \* accounts.db: user id -> record
  txns,       \* transactions.db
  acctLock,   \* fcntl locks on the records of accounts.db
  txnLock,    \* fcntl lock on transactions.db
  pc,         \* the next system call of each thread
  phase,      \* the record update or log entry that call is part of
  req,        \* the request each thread serves
  tmp,        \* the record read and modified, not yet written
  ok,         \* did the last update (at "reply": the request) succeed
  newId,      \* txn_id computed from lseek, not yet written
  served, faults, exits,   \* counters for the bounds
  cash,       \* history: money paid in minus money paid out
  transit,    \* history: what a transfer has debited and not passed on
  marred      \* history: accounts a rollback or a log record failed

db     == <<accounts, txns>>
locks  == <<acctLock, txnLock>>
counts == <<served, faults, exits>>
ghosts == <<cash, transit, marred>>
vars   == <<db, locks, pc, phase, req, tmp, ok, newId, counts, ghosts>>

-----------------------------------------------------------------------------
Ids == Accounts \cup Strangers

\* What the payloads of the ledger's requests parse to.
Requests ==
  [op : {"DEPOSIT"}, from : {Bank}, to : Ids, amount : Amounts, active : {TRUE}]
  \cup
  [op : {"WITHDRAW"}, from : Ids, to : {Bank}, amount : Amounts, active : {TRUE}]
  \cup
  [op : {"TRANSFER"}, from : Ids, to : Ids, amount : Amounts, active : {TRUE}]
  \cup
  [op : {"APPROVE_LOAN"}, from : {Bank}, to : Ids,
   amount : {n \in Amounts : n > 0}, active : {TRUE}]
  \cup
  [op : {"SET_ACCOUNT_STATUS"}, from : {Bank}, to : StatusTargets, amount : {0},
   active : BOOLEAN]
  \cup
  [op : {"VIEW_BALANCE", "VIEW_TRANSACTIONS"}, from : {Bank}, to : {Bank},
   amount : {0}, active : {TRUE}]

NoRequest == [op |-> "NONE", from |-> Bank, to |-> Bank, amount |-> 0,
              active |-> TRUE]

AccountRec == [balance : Int, active : BOOLEAN]
NoRecord   == [balance |-> 0, active |-> FALSE]

Steps == {"recv", "check", "find", "lock", "read", "write", "unlock",
          "inspect", "history", "seek", "append", "reply"}
Updates    == {"debit", "credit", "undo", "status"}
Narrations == {"deposit", "withdraw", "transfer_out", "transfer_in",
               "loan_deposit"}

\* A txn_rec_t without its id and its timestamp.
TxnEntries == [from : Ids \cup {Bank}, to : Ids \cup {Bank}, amount : Amounts,
               narration : Narrations]
TxnRec == [id : Nat \ {0}, entry : TxnEntries]

\* transactions.db is only ever locked as a whole.
TxnRange == {"file"}

Goto(t, step, ph) ==
  /\ pc' = [pc EXCEPT ![t] = step]
  /\ phase' = [phase EXCEPT ![t] = ph]

Init ==
  /\ accounts = [a \in Accounts |-> [balance |-> Opening[a], active |-> TRUE]]
  /\ txns = << >>
  /\ acctLock = Unlocked(Accounts)
  /\ txnLock = Unlocked(TxnRange)
  /\ pc = [t \in Threads |-> "recv"]
  /\ phase = [t \in Threads |-> "none"]
  /\ req = [t \in Threads |-> NoRequest]
  /\ tmp = [t \in Threads |-> NoRecord]
  /\ ok = [t \in Threads |-> FALSE]
  /\ newId = [t \in Threads |-> 0]
  /\ served = 0 /\ faults = 0 /\ exits = 0
  /\ cash = 0
  /\ transit = [t \in Threads |-> 0]
  /\ marred = {}

-----------------------------------------------------------------------------
(* The handlers, up to their first system call.                            *)

deposit_money(t, r) ==
  /\ r.op = "DEPOSIT"
  /\ \/ r.amount <= 0 /\ Goto(t, "reply", "none")
     \/ r.amount > 0  /\ Goto(t, "find", "credit")

withdraw_money(t, r) ==
  /\ r.op = "WITHDRAW"
  /\ \/ r.amount <= 0 /\ Goto(t, "reply", "none")
     \/ r.amount > 0  /\ Goto(t, "find", "debit")

\* Mutant: the amount is not checked.
transfer_fundsAnyAmount(t, r) ==
  /\ r.op = "TRANSFER"
  /\ \/ r.from = r.to /\ Goto(t, "reply", "none")
     \/ r.from # r.to /\ Goto(t, "check", "none")

transfer_funds(t, r) ==
  /\ r.op = "TRANSFER"
  /\ \/ (r.from = r.to \/ r.amount <= 0)  /\ Goto(t, "reply", "none")
     \/ (r.from # r.to /\ r.amount > 0)   /\ Goto(t, "check", "none")

\* The money side of approving a loan; the loan's amount is positive because
\* apply_loan() refuses any other.
disburse_loan(t, r) == r.op = "APPROVE_LOAN" /\ Goto(t, "check", "none")

set_account_status(t, r) ==
  r.op = "SET_ACCOUNT_STATUS" /\ Goto(t, "find", "status")

view_balance(t, r) == r.op = "VIEW_BALANCE" /\ Goto(t, "inspect", "none")

view_transaction_history(t, r) ==
  r.op = "VIEW_TRANSACTIONS" /\ Goto(t, "history", "none")

\* recv_request() returns and client_thread_main() routes the request.
Receive(t) ==
  /\ pc[t] = "recv"
  /\ served < MaxRequests
  /\ served' = served + 1
  /\ \E r \in Requests :
       /\ r.op \in Ops
       /\ req' = [req EXCEPT ![t] = r]
       /\ \/ deposit_money(t, r)
          \/ withdraw_money(t, r)
          \/ transfer_funds(t, r)
          \/ disburse_loan(t, r)
          \/ set_account_status(t, r)
          \/ view_balance(t, r)
          \/ view_transaction_history(t, r)
  /\ UNCHANGED <<db, locks, tmp, ok, newId, faults, exits, ghosts>>

\* send_response() ends the handler; its locals go out of scope.
Reply(t) ==
  /\ pc[t] = "reply"
  /\ Goto(t, "recv", "none")
  /\ req' = [req EXCEPT ![t] = NoRequest]
  /\ ok' = [ok EXCEPT ![t] = FALSE]
  /\ transit' = [transit EXCEPT ![t] = 0]
  /\ UNCHANGED <<db, locks, tmp, newId, counts, cash, marred>>

-----------------------------------------------------------------------------
(* atomic_update_account(), and where each caller goes on from it.         *)

\* Mutant: the rollback is passed to_id.
TargetRollbackToRecipient(t) ==
  IF phase[t] = "debit" THEN req[t].from ELSE req[t].to

\* The account an update is for: the rollback of a transfer is a deposit
\* back to the sender.
Target(t) == IF phase[t] \in {"debit", "undo"} THEN req[t].from ELSE req[t].to

\* Does the modifier return 1?
Accepts(ph, acc, r) ==
  \/ ph = "status"
  \/ ph \in {"credit", "undo"} /\ acc.active
  \/ ph = "debit" /\ acc.active /\ ~(acc.balance < r.amount)

\* The record deposit_modifier, withdraw_modifier or set_status_modifier
\* leaves behind.
Modified(ph, acc, r) ==
  CASE ph = "status" -> [acc EXCEPT !.active = r.active]
    [] ph = "debit"  -> [acc EXCEPT !.balance = @ - r.amount]
    [] OTHER         -> [acc EXCEPT !.balance = @ + r.amount]

\* Mutant: the two narrations of a transfer mixed up.
FirstNarrationIn(op) ==
  CASE op = "DEPOSIT"      -> "deposit"
    [] op = "WITHDRAW"     -> "withdraw"
    [] op = "APPROVE_LOAN" -> "loan_deposit"
    [] OTHER               -> "transfer_in"

\* The narration of the first record a request logs.
FirstNarration(op) ==
  CASE op = "DEPOSIT"      -> "deposit"
    [] op = "WITHDRAW"     -> "withdraw"
    [] op = "APPROVE_LOAN" -> "loan_deposit"
    [] OTHER               -> "transfer_out"

\* atomic_update_account() returns `done` to the handler.
UpdateReturns(t, done) ==
  /\ tmp' = [tmp EXCEPT ![t] = NoRecord]
  /\ ok' = [ok EXCEPT ![t] = done /\ phase[t] # "undo"]
  /\ \/ /\ phase[t] \in {"status", "undo"}
        /\ Goto(t, "reply", phase[t])
     \/ /\ done /\ phase[t] = "debit" /\ req[t].op = "TRANSFER"
        /\ Goto(t, "find", "credit")
     \/ /\ done
        /\ phase[t] = "credit" \/ (phase[t] = "debit" /\ req[t].op # "TRANSFER")
        /\ Goto(t, "seek", FirstNarration(req[t].op))
     \/ /\ ~done /\ phase[t] = "credit" /\ req[t].op = "TRANSFER"
        /\ Goto(t, "find", "undo")
     \/ /\ ~done /\ phase[t] = "credit" /\ req[t].op = "APPROVE_LOAN"
        /\ Goto(t, "reply", "none")
     \/ /\ ~done
        /\ phase[t] = "debit" \/ (phase[t] = "credit" /\ req[t].op = "DEPOSIT")
        /\ Goto(t, "inspect", "none")

\* find_account_offset(): no lock is had (O_RDONLY), the locks of the process
\* on accounts.db are gone after it.
Find(t) ==
  /\ pc[t] = "find"
  /\ acctLock' = ReadOnlyPass(acctLock, ProcOf[t])
  /\ \/ /\ Target(t) \in Accounts
        /\ Goto(t, "lock", phase[t])
        /\ UNCHANGED <<tmp, ok>>
     \/ /\ Target(t) \notin Accounts
        /\ UpdateReturns(t, FALSE)
  /\ UNCHANGED <<db, txnLock, req, newId, counts, ghosts>>

\* Mutant: F_SETLK for F_SETLKW, its result unchecked.
LockRecordNoWait(t) ==
  /\ pc[t] = "lock"
  /\ acctLock' = IF Grantable(acctLock, {Target(t)}, ProcOf[t])
                   THEN Lock(acctLock, {Target(t)}, ProcOf[t]) ELSE acctLock
  /\ Goto(t, "read", phase[t])
  /\ UNCHANGED <<db, txnLock, req, tmp, ok, newId, counts, ghosts>>

\* open(O_RDWR); lock_record().
LockRecord(t) ==
  /\ pc[t] = "lock"
  /\ Grantable(acctLock, {Target(t)}, ProcOf[t])
  /\ acctLock' = Lock(acctLock, {Target(t)}, ProcOf[t])
  /\ Goto(t, "read", phase[t])
  /\ UNCHANGED <<db, txnLock, req, tmp, ok, newId, counts, ghosts>>

\* read() and the modifier.
Read(t) ==
  /\ pc[t] = "read"
  /\ \/ /\ Accepts(phase[t], accounts[Target(t)], req[t])
        /\ tmp' = [tmp EXCEPT ![t] =
                     Modified(phase[t], accounts[Target(t)], req[t])]
        /\ Goto(t, "write", phase[t])
        /\ UNCHANGED <<ok, marred>>
     \/ /\ ~Accepts(phase[t], accounts[Target(t)], req[t])
        /\ ok' = [ok EXCEPT ![t] = FALSE]
        /\ Goto(t, "unlock", phase[t])
        /\ marred' = IF phase[t] = "undo" /\ ~accounts[req[t].from].active
                       THEN marred \cup {req[t].from} ELSE marred
        /\ UNCHANGED tmp
  /\ UNCHANGED <<db, locks, req, newId, counts, cash, transit>>

\* Money a written update brings into the bank.
PaidIn(t) ==
  CASE phase[t] = "credit" /\ req[t].op # "TRANSFER" -> req[t].amount
    [] phase[t] = "debit"  /\ req[t].op # "TRANSFER" -> 0 - req[t].amount
    [] OTHER -> 0

\* What a transfer holds after a written update.
Holding(t) ==
  IF phase[t] = "debit" /\ req[t].op = "TRANSFER" THEN req[t].amount ELSE 0

\* lseek() and write() of the modified record.
Write(t) ==
  /\ pc[t] = "write"
  /\ accounts' = [accounts EXCEPT ![Target(t)] = tmp[t]]
  /\ ok' = [ok EXCEPT ![t] = TRUE]
  /\ Goto(t, "unlock", phase[t])
  /\ cash' = cash + PaidIn(t)
  /\ transit' = [transit EXCEPT ![t] = Holding(t)]
  /\ UNCHANGED <<txns, locks, req, tmp, newId, counts, marred>>

\* Mutant: the descriptor is not closed and the record stays locked.
UnlockLeaks(t) ==
  /\ pc[t] = "unlock"
  /\ UpdateReturns(t, ok[t])
  /\ UNCHANGED <<db, locks, req, newId, counts, ghosts>>

\* Mutant: success is 1 from the start.
UnlockAlwaysSuccess(t) ==
  /\ pc[t] = "unlock"
  /\ acctLock' = Close(acctLock, ProcOf[t])
  /\ UpdateReturns(t, TRUE)
  /\ UNCHANGED <<db, txnLock, req, newId, counts, ghosts>>

\* unlock_record(); close(); return success.
Unlock(t) ==
  /\ pc[t] = "unlock"
  /\ acctLock' = Close(acctLock, ProcOf[t])
  /\ UpdateReturns(t, ok[t])
  /\ UNCHANGED <<db, txnLock, req, newId, counts, ghosts>>

-----------------------------------------------------------------------------
(* read_account(), as a check and as a report.                             *)

\* The recipient of a transfer, or the customer of a loan, must exist and be
\* active before any money moves.
CheckRecipient(t) ==
  /\ pc[t] = "check"
  /\ acctLock' = ReadOnlyPass(acctLock, ProcOf[t])
  /\ \/ /\ req[t].to \in Accounts
        /\ accounts[req[t].to].active
        /\ Goto(t, "find", IF req[t].op = "TRANSFER" THEN "debit" ELSE "credit")
     \/ /\ ~(req[t].to \in Accounts /\ accounts[req[t].to].active)
        /\ Goto(t, "reply", "none")
  /\ UNCHANGED <<db, txnLock, req, tmp, ok, newId, counts, ghosts>>

\* view_balance(), and the look at the account that words a failure.
Inspect(t) ==
  /\ pc[t] = "inspect"
  /\ acctLock' = ReadOnlyPass(acctLock, ProcOf[t])
  /\ Goto(t, "reply", "none")
  /\ UNCHANGED <<db, txnLock, req, tmp, ok, newId, counts, ghosts>>

\* The scan of view_transaction_history(), and of view_customer_transactions().
ReadHistory(t) ==
  /\ pc[t] = "history"
  /\ txnLock' = ReadOnlyPass(txnLock, ProcOf[t])
  /\ Goto(t, "reply", "none")
  /\ UNCHANGED <<db, acctLock, req, tmp, ok, newId, counts, ghosts>>

-----------------------------------------------------------------------------
(* append_transaction().                                                   *)

\* Mutant: a transfer logs one record only.
AppendReturnsOneSided(t) ==
  /\ newId' = [newId EXCEPT ![t] = 0]
  /\ Goto(t, "reply", "none")

\* A transfer logs transfer_out and then transfer_in; every other request one
\* record.  The return value is ignored.
AppendReturns(t) ==
  /\ newId' = [newId EXCEPT ![t] = 0]
  /\ \/ phase[t] = "transfer_out" /\ Goto(t, "seek", "transfer_in")
     \/ phase[t] # "transfer_out" /\ Goto(t, "reply", "none")

\* Mutant: the id counts from 0.
SeekEndFromZero(t) ==
  /\ pc[t] = "seek"
  /\ Grantable(txnLock, TxnRange, ProcOf[t])
  /\ txnLock' = Lock(txnLock, TxnRange, ProcOf[t])
  /\ newId' = [newId EXCEPT ![t] = Len(txns)]
  /\ Goto(t, "append", phase[t])
  /\ UNCHANGED <<db, acctLock, req, tmp, ok, counts, ghosts>>

\* Mutant: the id is taken before the lock.
SeekEndUnlocked(t) ==
  /\ pc[t] = "seek"
  /\ newId' = [newId EXCEPT ![t] = Len(txns) + 1]
  /\ Goto(t, "append", phase[t])
  /\ UNCHANGED <<db, locks, req, tmp, ok, counts, ghosts>>

\* Mutant: the record about to be written is counted twice.
SeekEndPastEnd(t) ==
  /\ pc[t] = "seek"
  /\ Grantable(txnLock, TxnRange, ProcOf[t])
  /\ txnLock' = Lock(txnLock, TxnRange, ProcOf[t])
  /\ newId' = [newId EXCEPT ![t] = Len(txns) + 2]
  /\ Goto(t, "append", phase[t])
  /\ UNCHANGED <<db, acctLock, req, tmp, ok, counts, ghosts>>

\* open(O_WRONLY | O_APPEND); lock_file(); lseek(SEEK_END).
SeekEnd(t) ==
  /\ pc[t] = "seek"
  /\ Grantable(txnLock, TxnRange, ProcOf[t])
  /\ txnLock' = Lock(txnLock, TxnRange, ProcOf[t])
  /\ newId' = [newId EXCEPT ![t] = Len(txns) + 1]
  /\ Goto(t, "append", phase[t])
  /\ UNCHANGED <<db, acctLock, req, tmp, ok, counts, ghosts>>

\* write() to an O_APPEND descriptor; unlock_file(); close().
AppendRecord(t) ==
  /\ pc[t] = "append"
  /\ txns' = Append(txns, [id |-> newId[t],
                           entry |-> [from |-> req[t].from, to |-> req[t].to,
                                      amount |-> req[t].amount,
                                      narration |-> phase[t]]])
  /\ txnLock' = Close(txnLock, ProcOf[t])
  /\ AppendReturns(t)
  /\ UNCHANGED <<accounts, acctLock, req, tmp, ok, counts, ghosts>>

-----------------------------------------------------------------------------
(* Failing system calls, and the end of a server process.                  *)

Fault == faults < MaxFaults /\ faults' = faults + 1

\* The account that stays wrong when the call a thread is at fails: nobody
\* looks at the result of a rollback or of append_transaction().
AtStake(t) ==
  CASE phase[t] \in {"undo", "withdraw", "transfer_out"}        -> {req[t].from}
    [] phase[t] \in {"deposit", "loan_deposit", "transfer_in"}  -> {req[t].to}
    [] OTHER -> {}

\* The calls before the record is read fail: open(), or the scan of a file
\* opened O_RDONLY, which is then closed.  In find_account_offset() and
\* atomic_update_account() that is "not updated", in read_account() "not
\* found", in append_transaction() a record nobody writes.
OpenFails(t) ==
  /\ Fault
  /\ \/ /\ pc[t] \in {"find", "lock"}
        /\ acctLock' \in {acctLock, Close(acctLock, ProcOf[t])}
        /\ UpdateReturns(t, FALSE)
        /\ UNCHANGED <<txnLock, newId>>
     \/ /\ pc[t] \in {"check", "inspect"}
        /\ acctLock' \in {acctLock, Close(acctLock, ProcOf[t])}
        /\ Goto(t, "reply", "none")
        /\ UNCHANGED <<txnLock, tmp, ok, newId>>
     \/ /\ pc[t] = "history"
        /\ txnLock' \in {txnLock, Close(txnLock, ProcOf[t])}
        /\ Goto(t, "reply", "none")
        /\ UNCHANGED <<acctLock, tmp, ok, newId>>
     \/ /\ pc[t] = "seek"
        /\ AppendReturns(t)
        /\ UNCHANGED <<locks, tmp, ok>>
  /\ marred' = marred \cup AtStake(t)
  /\ UNCHANGED <<db, req, served, exits, cash, transit>>

\* fcntl() returns an error.  atomic_update_account() closes the file and
\* returns "not updated"; append_transaction() goes on without the lock.
LockFails(t) ==
  /\ Fault
  /\ \/ /\ pc[t] = "lock"
        /\ acctLock' = Close(acctLock, ProcOf[t])
        /\ UpdateReturns(t, FALSE)
        /\ marred' = marred \cup AtStake(t)
        /\ UNCHANGED newId
     \/ /\ pc[t] = "seek"
        /\ newId' = [newId EXCEPT ![t] = Len(txns) + 1]
        /\ Goto(t, "append", phase[t])
        /\ UNCHANGED <<acctLock, tmp, ok, marred>>
  /\ UNCHANGED <<db, txnLock, req, served, exits, cash, transit>>

\* read() or write() of a record returns short: success stays 0.  A failed
\* append goes unnoticed.
IoFails(t) ==
  /\ Fault
  /\ \/ /\ pc[t] \in {"read", "write"}
        /\ ok' = [ok EXCEPT ![t] = FALSE]
        /\ Goto(t, "unlock", phase[t])
        /\ UNCHANGED <<txnLock, newId>>
     \/ /\ pc[t] = "append"
        /\ txnLock' = Close(txnLock, ProcOf[t])
        /\ AppendReturns(t)
        /\ UNCHANGED ok
  /\ marred' = marred \cup AtStake(t)
  /\ UNCHANGED <<db, acctLock, req, tmp, served, exits, cash, transit>>

\* sigint_handler() lets server_start() return, main() returns, and the exit
\* ends every client thread where it stands; the kernel drops the locks.  The
\* server is then started again over the same files.
Exit(p) ==
  LET Dead(f, v) == [t \in Threads |-> IF ProcOf[t] = p THEN v ELSE f[t]]
      cut == {t \in Threads : ProcOf[t] = p /\ phase[t] \notin {"none", "status"}}
  IN  /\ exits < MaxExits
      /\ exits' = exits + 1
      /\ acctLock' = Close(acctLock, p)
      /\ txnLock' = Close(txnLock, p)
      /\ pc' = Dead(pc, "recv")
      /\ phase' = Dead(phase, "none")
      /\ req' = Dead(req, NoRequest)
      /\ tmp' = Dead(tmp, NoRecord)
      /\ ok' = Dead(ok, FALSE)
      /\ newId' = Dead(newId, 0)
      /\ transit' = Dead(transit, 0)
      /\ marred' = marred \cup {a \in Accounts :
                                \E t \in cut : a \in {req[t].from, req[t].to}}
      /\ UNCHANGED <<db, served, faults, cash>>

-----------------------------------------------------------------------------
\* A step of the handler a thread is running, when no system call fails.
HandlerStep(t) ==
  \/ Find(t) \/ LockRecord(t) \/ Read(t) \/ Write(t) \/ Unlock(t)
  \/ CheckRecipient(t) \/ Inspect(t) \/ ReadHistory(t)
  \/ SeekEnd(t) \/ AppendRecord(t)
  \/ Reply(t)

Next ==
  \/ \E t \in Threads : \/ Receive(t)
                        \/ HandlerStep(t)
                        \/ OpenFails(t) \/ LockFails(t) \/ IoFails(t)
  \/ \E p \in Procs : Exit(p)

Spec == Init /\ [][Next]_vars

\* A thread that can go on does: the kernel schedules every runnable thread.
FairSpec == Spec /\ \A t \in Threads : WF_vars(HandlerStep(t))

-----------------------------------------------------------------------------
(* Properties.                                                             *)

TypeOK ==
  /\ accounts \in [Accounts -> AccountRec]
  /\ txns \in Seq(TxnRec)
  /\ acctLock \in LockTable(Accounts)
  /\ txnLock \in LockTable(TxnRange)
  /\ pc \in [Threads -> Steps]
  /\ phase \in [Threads -> Updates \cup Narrations \cup {"none"}]
  /\ req \in [Threads -> Requests \cup {NoRequest}]
  /\ tmp \in [Threads -> AccountRec]
  /\ ok \in [Threads -> BOOLEAN]
  /\ newId \in [Threads -> Nat]
  /\ served \in Nat /\ faults \in Nat /\ exits \in Nat
  /\ cash \in Int
  /\ transit \in [Threads -> Int]
  /\ marred \subseteq Ids \cup {Bank}

\* No balance goes below zero: withdraw_modifier() compares before it
\* subtracts.  A writer that overtakes another still writes what it compared.
NoOverdraft == \A a \in Accounts : accounts[a].balance >= 0

\* atomic_update_account() is atomic: the record about to be written is what
\* the modifier makes of the record in the file NOW, so no other update is
\* lost and no stale status or balance was relied on.
UpdateIsolated ==
  \A t \in Threads :
    pc[t] = "write" =>
      /\ Accepts(phase[t], accounts[Target(t)], req[t])
      /\ tmp[t] = Modified(phase[t], accounts[Target(t)], req[t])

\* Record updates and log appends happen in one step each, on current data.
Atomic == INSTANCE AtomicLedger WITH Entries <- TxnEntries
RefinesAtomic == Atomic!ASpec

TotalFunds   == MapThenSumSet(LAMBDA a : accounts[a].balance, Accounts)
TotalTransit == MapThenSumSet(LAMBDA t : transit[t], Threads)
TotalOpening == MapThenSumSet(LAMBDA a : Opening[a], Accounts)

\* No failure makes money: whatever call fails, whenever a server exits, and
\* however a rollback ends, the accounts together with the transfers under
\* way never hold more than was paid in.
NoMoneyCreated == TotalFunds + TotalTransit <= TotalOpening + cash

\* transfer_funds() passes on what it took, or gives it back, before the
\* client is answered.
TransferAllOrNothing ==
  \A t \in Threads : pc[t] = "reply" => transit[t] = 0

\* A transfer that is answered keeps what it took in two cases only: the
\* rollback was tried, and either a call of it failed or it found the sender's
\* own account deactivated since the debit.
KeptOnlyIfFoiled ==
  \A t \in Threads :
    pc[t] = "reply" /\ transit[t] # 0 =>
      phase[t] = "undo" /\ req[t].from \in marred

\* What a transaction record tells the owner of account a, by the cases of
\* view_transaction_history().
HistoryEffect(e, a) ==
  CASE e.narration \in {"deposit", "transfer_in", "loan_deposit"} /\ e.to = a
         -> e.amount
    [] e.narration \in {"withdraw", "transfer_out"} /\ e.from = a
         -> 0 - e.amount
    [] OTHER -> 0

HistoryBalance(a) ==
  Opening[a] +
    MapThenSumSet(LAMBDA i : HistoryEffect(txns[i].entry, a), 1..Len(txns))

\* The history a customer is shown accounts for the balance, whenever no
\* handler is in progress, whatever failed or ended in other requests, and in
\* the customer's own too unless it was the rollback or the log record itself
\* that failed, or an exit came between the updates.
HistoryExplainsBalance ==
  (\A t \in Threads : pc[t] = "recv") =>
    \A a \in Accounts \ marred : accounts[a].balance = HistoryBalance(a)

\* Where lock_file() excludes, the id computed from lseek() is the position
\* at which write() then puts the record, so ids are unique and ascending.
TxnIdIsPosition == \A i \in 1..Len(txns) : txns[i].id = i

\* lseek() and write() of racing appends: a record may repeat an id, but is
\* never numbered beyond its position, and nothing is overwritten.
TxnIdNeverAhead ==
  \A i \in 1..Len(txns) : txns[i].id <= i

CountTransfers(n, e) ==
  Cardinality({i \in 1..Len(txns) :
                 /\ txns[i].entry.narration = n
                 /\ [txns[i].entry EXCEPT !.narration = e.narration] = e})

\* The recipient's side of a transfer is logged only after the sender's,
\* however the two records of concurrent transfers interleave.
TransferInAfterOut ==
  \A i \in 1..Len(txns) :
    txns[i].entry.narration = "transfer_in" =>
      CountTransfers("transfer_in", txns[i].entry)
        <= CountTransfers("transfer_out", txns[i].entry)

\* Every request is answered: no handler waits for a lock forever.
EveryRequestAnswered ==
  \A t \in Threads : (pc[t] # "recv") ~> (pc[t] = "recv")
=============================================================================
