---------------------------- MODULE LedgerProofs ----------------------------
(***************************************************************************)
(* Proofs about Ledger, for every set of threads, accounts and amounts and *)
(* every bound.                                                            *)
(***************************************************************************)
EXTENDS Ledger, TLAPS

\* The requests that move money.
MoneyOps == {"DEPOSIT", "WITHDRAW", "TRANSFER", "APPROVE_LOAN"}

Phases == Updates \cup Narrations \cup {"none"}

-----------------------------------------------------------------------------
(* Lemmas about the operators the model is built from.                     *)

\* What every request has in common, and which amounts get past apply_loan().
LEMMA RequestFields ==
  ASSUME NEW r \in Requests
  PROVE  /\ r.from \in Ids \cup {Bank}
         /\ r.to \in Ids \cup {Bank}
         /\ r.amount \in Int
         /\ r.active \in BOOLEAN
         /\ r.op \in MoneyOps => r.amount \in Amounts
         /\ r.op = "APPROVE_LOAN" => r.amount > 0
<1>1. r.from \in Ids \cup {Bank}
  BY DEF Requests, Ids
<1>2. r.to \in Ids \cup {Bank}
  BY IdsAssumption DEF Requests, Ids
<1>3. r.amount \in Int
  <2>1. r.amount \in Amounts \cup {0}
    BY DEF Requests
  <2>2. \A n \in Amounts \cup {0} : n \in Int
    BY AmountsAssumption
  <2> QED BY <2>1, <2>2
<1>4. r.active \in BOOLEAN
  BY DEF Requests
<1>5. r.op \in MoneyOps => r.amount \in Amounts
  BY DEF Requests, MoneyOps
<1>6. r.op = "APPROVE_LOAN" => r.amount > 0
  BY DEF Requests
<1> QED BY <1>1, <1>2, <1>3, <1>4, <1>5, <1>6

\* Granting and dropping locks leaves a lock table.
LEMMA LockTyped ==
  ASSUME NEW R, NEW tab \in LockTable(R), NEW S, NEW p \in Procs
  PROVE  /\ Lock(tab, S, p) \in LockTable(R)
         /\ Close(tab, p) \in LockTable(R)
         /\ ReadOnlyPass(tab, p) \in LockTable(R)
BY DEF LockTable, Lock, Close, ReadOnlyPass

\* The same for the two lock tables of the ledger.
LEMMA ClosedTyped ==
  ASSUME TypeOK, NEW t \in Threads
  PROVE  /\ Close(acctLock, ProcOf[t]) \in LockTable(Accounts)
         /\ ReadOnlyPass(acctLock, ProcOf[t]) \in LockTable(Accounts)
         /\ Close(txnLock, ProcOf[t]) \in LockTable(TxnRange)
         /\ ReadOnlyPass(txnLock, ProcOf[t]) \in LockTable(TxnRange)
BY LockTyped, ThreadsAssumption DEF TypeOK

\* A file nobody has locked has a lock table.
LEMMA UnlockedTyped ==
  ASSUME NEW R
  PROVE  Unlocked(R) \in LockTable(R)
BY DEF LockTable, Unlocked

\* A jump keeps program counters and phases typed.
LEMMA GotoTyped ==
  ASSUME TypeOK, NEW t \in Threads, NEW s \in Steps, NEW ph \in Phases, Goto(t, s, ph)
  PROVE  pc' \in [Threads -> Steps] /\ phase' \in [Threads -> Phases]
BY DEF TypeOK, Goto, Phases

\* The modifiers keep an account record an account record.
LEMMA ModifiedTyped ==
  ASSUME NEW ph, NEW acc \in AccountRec, NEW r \in Requests
  PROVE  Modified(ph, acc, r) \in AccountRec
BY RequestFields DEF Modified, AccountRec

\* So does a return of atomic_update_account().
LEMMA UpdateReturnsTyped ==
  ASSUME TypeOK, NEW t \in Threads, NEW done \in BOOLEAN, UpdateReturns(t, done)
  PROVE  /\ pc' \in [Threads -> Steps]
         /\ phase' \in [Threads -> Phases]
         /\ tmp' \in [Threads -> AccountRec]
         /\ ok' \in [Threads -> BOOLEAN]
<1>1. tmp' \in [Threads -> AccountRec]
  BY DEF TypeOK, UpdateReturns, NoRecord, AccountRec
<1>2. ok' \in [Threads -> BOOLEAN]
  BY DEF TypeOK, UpdateReturns
<1>3. pc' \in [Threads -> Steps] /\ phase' \in [Threads -> Phases]
  BY DEF TypeOK, UpdateReturns, Goto, FirstNarration, Steps, Phases, Updates, Narrations
<1> QED BY <1>1, <1>2, <1>3

\* The parties of a request are user ids or the bank.
LEMMA PartiesTyped ==
  ASSUME TypeOK, NEW t \in Threads
  PROVE  /\ req[t].from \in Ids \cup {Bank} /\ req[t].to \in Ids \cup {Bank}
         /\ AtStake(t) \subseteq Ids \cup {Bank}
<1>1. req[t].from \in Ids \cup {Bank} /\ req[t].to \in Ids \cup {Bank}
  BY RequestFields DEF TypeOK, NoRequest
<1> QED BY <1>1 DEF AtStake

-----------------------------------------------------------------------------
(* Type correctness.  What a step may assume of its thread is said by      *)
(* Flow: which phase and which request go with which system call.          *)

InUpdate == {"find", "lock", "read", "write", "unlock"}

Flowing(s, ph, r, id) ==
  /\ s \in InUpdate =>
       /\ ph \in Updates
       /\ r \in Requests
       /\ ph # "status" => r.op \in MoneyOps /\ r.amount > 0
  /\ s \in InUpdate \ {"find"} =>
       (IF ph \in {"debit", "undo"} THEN r.from ELSE r.to) \in Accounts
  /\ s \in {"check", "seek", "append"} =>
       r \in Requests /\ r.op \in MoneyOps /\ r.amount > 0
  /\ s \in {"seek", "append"} => ph \in Narrations
  /\ s = "append" => id \in Nat \ {0}

Flow == \A t \in Threads : Flowing(pc[t], phase[t], req[t], newId[t])

TypeInv == TypeOK /\ Flow

\* A step of one thread leaves the others where they are.
LEMMA Frame ==
  ASSUME Flow, NEW t \in Threads,
         \A u \in Threads \ {t} : /\ pc'[u] = pc[u]
                                  /\ phase'[u] = phase[u]
                                  /\ req'[u] = req[u]
                                  /\ newId'[u] = newId[u],
         Flowing(pc'[t], phase'[t], req'[t], newId'[t])
  PROVE  Flow'
<1> SUFFICES ASSUME NEW u \in Threads
             PROVE  Flowing(pc'[u], phase'[u], req'[u], newId'[u])
  BY DEF Flow
<1>1. CASE u = t  BY <1>1
<1>2. CASE u # t  BY <1>2 DEF Flow
<1> QED BY <1>1, <1>2

\* The initial state is typed and follows the control flow.
LEMMA InitTyped == Init => TypeInv
<1> SUFFICES ASSUME Init PROVE TypeInv  OBVIOUS
<1>1. TypeOK
  BY UnlockedTyped, OpeningAssumption
     DEF Init, TypeOK, AccountRec, NoRecord, Steps
<1>2. Flow
  BY DEF Init, Flow, Flowing, InUpdate
<1> QED BY <1>1, <1>2 DEF TypeInv

\* Where a handler stands after its checks of the request.
LEMMA ReceiveTyped ==
  ASSUME TypeInv, NEW t \in Threads, Receive(t)
  PROVE  TypeInv'
<1> USE DEF db, locks, counts, ghosts
<1>1. PICK r \in Requests :
        /\ req' = [req EXCEPT ![t] = r]
        /\ \/ deposit_money(t, r)
           \/ withdraw_money(t, r)
           \/ transfer_funds(t, r)
           \/ disburse_loan(t, r)
           \/ set_account_status(t, r)
           \/ view_balance(t, r)
           \/ view_transaction_history(t, r)
  BY DEF Receive
<1>2. PICK s \in Steps, ph \in Phases :
        /\ Goto(t, s, ph)
        /\ Flowing(s, ph, r, newId[t])
  <2>1. r.amount \in Int /\ (r.op = "APPROVE_LOAN" => r.amount > 0)
    BY RequestFields
  <2> QED
    BY <1>1, <2>1
       DEF deposit_money, withdraw_money, transfer_funds, disburse_loan,
           set_account_status, view_balance, view_transaction_history,
           Flowing, InUpdate, MoneyOps, Steps, Phases, Updates, Narrations
<1>3. pc' \in [Threads -> Steps] /\ phase' \in [Threads -> Phases]
  BY <1>2, GotoTyped DEF TypeInv
<1>4. TypeOK'
  <2>1. req' \in [Threads -> Requests \cup {NoRequest}]
    BY <1>1 DEF TypeInv, TypeOK
  <2>2. served' \in Nat
    BY DEF TypeInv, TypeOK, Receive
  <2>3. UNCHANGED <<db, locks, tmp, ok, newId, faults, exits, ghosts>>
    BY DEF Receive
  <2> QED BY <1>3, <2>1, <2>2, <2>3 DEF TypeInv, TypeOK, Phases
<1>5. Flow'
  BY <1>1, <1>2, Frame DEF TypeInv, TypeOK, Receive, Goto
<1> QED BY <1>4, <1>5 DEF TypeInv

\* Where atomic_update_account() leaves its caller.
LEMMA UpdateReturnsFlows ==
  ASSUME TypeInv, NEW t \in Threads, NEW done \in BOOLEAN, pc[t] \in InUpdate,
         UpdateReturns(t, done), UNCHANGED <<req, newId>>
  PROVE  Flow'
<1>1. /\ phase[t] \in Updates
      /\ req[t] \in Requests
      /\ phase[t] # "status" => req[t].op \in MoneyOps /\ req[t].amount > 0
  BY DEF TypeInv, Flow, Flowing
<1>2. PICK s \in Steps, ph \in Phases :
        Goto(t, s, ph) /\ Flowing(s, ph, req[t], newId[t])
  BY <1>1 DEF UpdateReturns, FirstNarration, Flowing, InUpdate, Steps, Phases,
              Updates, Narrations
<1> QED BY <1>2, Frame DEF TypeInv, TypeOK, Goto

\* find_account_offset() keeps types and control flow.
LEMMA FindTyped ==
  ASSUME TypeInv, NEW t \in Threads, Find(t)
  PROVE  TypeInv'
<1> USE DEF db, locks, counts, ghosts
<1>1. acctLock' \in LockTable(Accounts)
  BY LockTyped, ThreadsAssumption DEF Find, TypeInv, TypeOK
<1>2. pc[t] \in InUpdate
  BY DEF Find, InUpdate
<1>3. CASE Target(t) \in Accounts /\ Goto(t, "lock", phase[t]) /\ UNCHANGED <<tmp, ok>>
  <2>1. pc' \in [Threads -> Steps] /\ phase' \in [Threads -> Phases]
    BY <1>3, GotoTyped DEF TypeInv, TypeOK, Steps, Phases
  <2>2. TypeOK'
    BY <1>1, <1>3, <2>1 DEF Find, TypeInv, TypeOK, Phases
  <2>3. Flowing("lock", phase[t], req[t], newId[t])
    BY <1>2, <1>3 DEF TypeInv, Flow, Flowing, InUpdate, Target
  <2>4. Flow'
    BY <1>3, <2>3, Frame DEF Find, Goto, TypeInv, TypeOK
  <2> QED BY <2>2, <2>4 DEF TypeInv
<1>4. CASE UpdateReturns(t, FALSE)
  <2>1. TypeOK'
    BY <1>1, <1>4, UpdateReturnsTyped DEF Find, TypeInv, TypeOK, Phases
  <2>2. Flow'
    BY <1>2, <1>4, UpdateReturnsFlows DEF Find
  <2> QED BY <2>1, <2>2 DEF TypeInv
<1> QED BY <1>3, <1>4 DEF Find

\* lock_record() keeps types and control flow.
LEMMA LockRecordTyped ==
  ASSUME TypeInv, NEW t \in Threads, LockRecord(t)
  PROVE  TypeInv'
<1> USE DEF db, locks, counts, ghosts
<1>1. acctLock' \in LockTable(Accounts)
  BY LockTyped, ThreadsAssumption DEF LockRecord, TypeInv, TypeOK
<1>2. pc' \in [Threads -> Steps] /\ phase' \in [Threads -> Phases]
  BY GotoTyped DEF LockRecord, TypeInv, TypeOK, Steps, Phases
<1>3. TypeOK'
  BY <1>1, <1>2 DEF LockRecord, TypeInv, TypeOK, Phases
<1>4. Flowing("read", phase[t], req[t], newId[t])
  BY DEF LockRecord, TypeInv, Flow, Flowing, InUpdate
<1>5. Flow'
  BY <1>4, Frame DEF LockRecord, Goto, TypeInv, TypeOK
<1> QED BY <1>3, <1>5 DEF TypeInv

\* Reading and modifying a record keeps types and control flow.
LEMMA ReadTyped ==
  ASSUME TypeInv, NEW t \in Threads, Read(t)
  PROVE  TypeInv'
<1> USE DEF db, locks, counts, ghosts
<1>1. Target(t) \in Accounts /\ req[t] \in Requests
  BY DEF Read, TypeInv, Flow, Flowing, InUpdate, Target
<1>2. PICK s \in {"write", "unlock"} : Goto(t, s, phase[t])
  BY DEF Read
<1>3. pc' \in [Threads -> Steps] /\ phase' \in [Threads -> Phases]
  BY <1>2, GotoTyped DEF TypeInv, TypeOK, Steps, Phases
<1>4. tmp' \in [Threads -> AccountRec]
  <2>1. accounts[Target(t)] \in AccountRec
    BY <1>1 DEF TypeInv, TypeOK
  <2>2. Modified(phase[t], accounts[Target(t)], req[t]) \in AccountRec
    BY <1>1, <2>1, ModifiedTyped
  <2> QED BY <2>2 DEF Read, TypeInv, TypeOK
<1>5. ok' \in [Threads -> BOOLEAN]
  BY DEF Read, TypeInv, TypeOK
<1>0. marred' \subseteq Ids \cup {Bank}
  BY PartiesTyped DEF Read, TypeInv, TypeOK
<1>6. TypeOK'
  BY <1>0, <1>3, <1>4, <1>5 DEF Read, TypeInv, TypeOK, Phases
<1>7. Flowing(s, phase[t], req[t], newId[t])
  BY DEF Read, TypeInv, Flow, Flowing, InUpdate
<1>8. Flow'
  BY <1>2, <1>7, Frame DEF Read, Goto, TypeInv, TypeOK
<1> QED BY <1>6, <1>8 DEF TypeInv

\* Writing a record back keeps types and control flow.
LEMMA WriteTyped ==
  ASSUME TypeInv, NEW t \in Threads, Write(t)
  PROVE  TypeInv'
<1> USE DEF db, locks, counts, ghosts
<1>1. Target(t) \in Accounts /\ req[t] \in Requests
  BY DEF Write, TypeInv, Flow, Flowing, InUpdate, Target
<1>2. pc' \in [Threads -> Steps] /\ phase' \in [Threads -> Phases]
  BY GotoTyped DEF Write, TypeInv, TypeOK, Steps, Phases
<1>3. accounts' \in [Accounts -> AccountRec]
  BY <1>1 DEF Write, TypeInv, TypeOK
<1>4. ok' \in [Threads -> BOOLEAN]
  BY DEF Write, TypeInv, TypeOK
<1>5. cash' \in Int /\ transit' \in [Threads -> Int]
  <2>1. req[t].amount \in Int
    BY <1>1, RequestFields
  <2>2. PaidIn(t) \in Int /\ Holding(t) \in Int
    BY <2>1 DEF PaidIn, Holding
  <2> QED BY <2>2 DEF Write, TypeInv, TypeOK
<1>6. TypeOK'
  BY <1>2, <1>3, <1>4, <1>5 DEF Write, TypeInv, TypeOK, Phases
<1>7. Flowing("unlock", phase[t], req[t], newId[t])
  BY DEF Write, TypeInv, Flow, Flowing, InUpdate
<1>8. Flow'
  BY <1>7, Frame DEF Write, Goto, TypeInv, TypeOK
<1> QED BY <1>6, <1>8 DEF TypeInv

\* Unlocking and returning keeps types and control flow.
LEMMA UnlockTyped ==
  ASSUME TypeInv, NEW t \in Threads, Unlock(t)
  PROVE  TypeInv'
<1> USE DEF db, locks, counts, ghosts
<1>1. acctLock' \in LockTable(Accounts)
  BY LockTyped, ThreadsAssumption DEF Unlock, TypeInv, TypeOK
<1>2. ok[t] \in BOOLEAN /\ pc[t] \in InUpdate
  BY DEF Unlock, TypeInv, TypeOK, InUpdate
<1>3. TypeOK'
  BY <1>1, <1>2, UpdateReturnsTyped DEF Unlock, TypeInv, TypeOK, Phases
<1>4. Flow'
  BY <1>2, UpdateReturnsFlows DEF Unlock
<1> QED BY <1>3, <1>4 DEF TypeInv

\* The steps that only look, and the end of a handler.
LEMMA LookTyped ==
  ASSUME TypeInv, NEW t \in Threads,
         CheckRecipient(t) \/ Inspect(t) \/ ReadHistory(t) \/ Reply(t)
  PROVE  TypeInv'
<1> USE DEF db, locks, counts, ghosts
<1>1. acctLock' \in LockTable(Accounts) /\ txnLock' \in LockTable(TxnRange)
  BY ClosedTyped
     DEF CheckRecipient, Inspect, ReadHistory, Reply, TypeInv, TypeOK
<1>2. CASE CheckRecipient(t)
  <2>1. PICK s \in Steps, ph \in Phases :
          Goto(t, s, ph) /\ Flowing(s, ph, req[t], newId[t])
    <3>1. req[t] \in Requests /\ req[t].op \in MoneyOps /\ req[t].amount > 0
      BY <1>2 DEF CheckRecipient, TypeInv, Flow, Flowing
    <3> QED BY <1>2, <3>1
               DEF CheckRecipient, Flowing, InUpdate, Steps, Phases, Updates, Narrations
  <2>2. pc' \in [Threads -> Steps] /\ phase' \in [Threads -> Phases]
    BY <2>1, GotoTyped DEF TypeInv
  <2>3. TypeOK'
    BY <1>1, <1>2, <2>2 DEF CheckRecipient, TypeInv, TypeOK, Phases
  <2>4. Flow'
    BY <1>2, <2>1, Frame DEF CheckRecipient, Goto, TypeInv, TypeOK
  <2> QED BY <2>3, <2>4 DEF TypeInv
<1>3. CASE Inspect(t) \/ ReadHistory(t)
  <2>1. Goto(t, "reply", "none") /\ Flowing("reply", "none", req[t], newId[t])
    BY <1>3 DEF Inspect, ReadHistory, Flowing, InUpdate
  <2>2. pc' \in [Threads -> Steps] /\ phase' \in [Threads -> Phases]
    BY <2>1, GotoTyped DEF TypeInv, Steps, Phases
  <2>3. TypeOK'
    BY <1>1, <1>3, <2>2 DEF Inspect, ReadHistory, TypeInv, TypeOK, Phases
  <2>4. Flow'
    BY <1>3, <2>1, Frame DEF Inspect, ReadHistory, Goto, TypeInv, TypeOK
  <2> QED BY <2>3, <2>4 DEF TypeInv
<1>4. CASE Reply(t)
  <2>1. Goto(t, "recv", "none") /\ Flowing("recv", "none", NoRequest, newId[t])
    BY <1>4 DEF Reply, Flowing, InUpdate
  <2>2. pc' \in [Threads -> Steps] /\ phase' \in [Threads -> Phases]
    BY <2>1, GotoTyped DEF TypeInv, Steps, Phases
  <2>3. TypeOK'
    <3>1. /\ req' \in [Threads -> Requests \cup {NoRequest}]
          /\ transit' \in [Threads -> Int]
      BY <1>4 DEF Reply, TypeInv, TypeOK
    <3>2. ok' \in [Threads -> BOOLEAN]
      BY <1>4 DEF Reply, TypeInv, TypeOK
    <3> QED BY <1>1, <1>4, <2>2, <3>1, <3>2 DEF Reply, TypeInv, TypeOK, Phases
  <2>4. Flow'
    BY <1>4, <2>1, Frame DEF Reply, Goto, TypeInv, TypeOK
  <2> QED BY <2>3, <2>4 DEF TypeInv
<1> QED BY <1>2, <1>3, <1>4

\* Where append_transaction() leaves its caller.
LEMMA AppendReturnsTyped ==
  ASSUME TypeInv, NEW t \in Threads, pc[t] \in {"seek", "append"},
         AppendReturns(t), UNCHANGED req
  PROVE  /\ pc' \in [Threads -> Steps]
         /\ phase' \in [Threads -> Phases]
         /\ newId' \in [Threads -> Nat]
         /\ Flow'
<1>1. req[t] \in Requests /\ req[t].op \in MoneyOps /\ req[t].amount > 0
  BY DEF TypeInv, Flow, Flowing
<1>2. PICK s \in Steps, ph \in Phases :
        Goto(t, s, ph) /\ Flowing(s, ph, req[t], 0)
  BY <1>1 DEF AppendReturns, Flowing, InUpdate, Steps, Phases, Narrations, Updates
<1>3. pc' \in [Threads -> Steps] /\ phase' \in [Threads -> Phases]
  BY <1>2, GotoTyped DEF TypeInv
<1>4. newId' \in [Threads -> Nat]
  BY DEF AppendReturns, TypeInv, TypeOK
<1>5. Flow'
  BY <1>2, Frame DEF AppendReturns, Goto, TypeInv, TypeOK
<1> QED BY <1>3, <1>4, <1>5

\* Computing a transaction id keeps control flow, lock or no lock.
LEMMA SeekEndTyped ==
  ASSUME TypeInv, NEW t \in Threads, pc[t] = "seek",
         newId' = [newId EXCEPT ![t] = Len(txns) + 1],
         Goto(t, "append", phase[t]), UNCHANGED req
  PROVE  /\ pc' \in [Threads -> Steps]
         /\ phase' \in [Threads -> Phases]
         /\ newId' \in [Threads -> Nat]
         /\ Flow'
<1>1. pc' \in [Threads -> Steps] /\ phase' \in [Threads -> Phases]
  BY GotoTyped DEF TypeInv, TypeOK, Steps, Phases
<1>2. Len(txns) + 1 \in Nat \ {0}
  BY DEF TypeInv, TypeOK
<1>3. newId' \in [Threads -> Nat]
  BY <1>2 DEF TypeInv, TypeOK
<1>4. Flowing("append", phase[t], req[t], Len(txns) + 1)
  BY <1>2 DEF TypeInv, Flow, Flowing, InUpdate
<1>5. Flow'
  BY <1>4, Frame DEF Goto, TypeInv, TypeOK
<1> QED BY <1>1, <1>3, <1>5

\* append_transaction() keeps types and control flow.
LEMMA AppendTyped ==
  ASSUME TypeInv, NEW t \in Threads, SeekEnd(t) \/ AppendRecord(t)
  PROVE  TypeInv'
<1> USE DEF db, locks, counts, ghosts
<1>1. txnLock' \in LockTable(TxnRange)
  BY LockTyped, ThreadsAssumption DEF SeekEnd, AppendRecord, TypeInv, TypeOK
<1>2. CASE SeekEnd(t)
  <2>1. /\ pc' \in [Threads -> Steps]
        /\ phase' \in [Threads -> Phases]
        /\ newId' \in [Threads -> Nat]
        /\ Flow'
    BY <1>2, SeekEndTyped DEF SeekEnd
  <2>2. TypeOK'
    BY <1>1, <1>2, <2>1 DEF SeekEnd, TypeInv, TypeOK, Phases
  <2> QED BY <2>1, <2>2 DEF TypeInv
<1>3. CASE AppendRecord(t)
  <2>1. /\ pc' \in [Threads -> Steps]
        /\ phase' \in [Threads -> Phases]
        /\ newId' \in [Threads -> Nat]
        /\ Flow'
    BY <1>3, AppendReturnsTyped DEF AppendRecord
  <2>2. txns' \in Seq(TxnRec)
    <3>1. /\ req[t] \in Requests
          /\ req[t].op \in MoneyOps
          /\ phase[t] \in Narrations
          /\ newId[t] \in Nat \ {0}
      BY <1>3 DEF AppendRecord, TypeInv, Flow, Flowing
    <3>2. /\ req[t].from \in Ids \cup {Bank}
          /\ req[t].to \in Ids \cup {Bank}
          /\ req[t].amount \in Amounts
      BY <3>1, RequestFields
    <3>3. [id |-> newId[t],
           entry |-> [from |-> req[t].from, to |-> req[t].to,
                      amount |-> req[t].amount, narration |-> phase[t]]] \in TxnRec
      BY <3>1, <3>2 DEF TxnRec, TxnEntries
    <3> QED BY <1>3, <3>3 DEF AppendRecord, TypeInv, TypeOK
  <2>3. TypeOK'
    BY <1>1, <1>3, <2>1, <2>2 DEF AppendRecord, TypeInv, TypeOK, Phases
  <2> QED BY <2>1, <2>3 DEF TypeInv
<1> QED BY <1>2, <1>3

\* A failing open() keeps types and control flow.
LEMMA OpenFailsTyped ==
  ASSUME TypeInv, NEW t \in Threads, OpenFails(t)
  PROVE  TypeInv'
<1> USE DEF db, locks, counts, ghosts
<1>0. marred' \subseteq Ids \cup {Bank}
  BY PartiesTyped DEF OpenFails, TypeInv, TypeOK
<1>1. faults' \in Nat
  BY DEF OpenFails, Fault, TypeInv, TypeOK
<1>2. acctLock' \in LockTable(Accounts) /\ txnLock' \in LockTable(TxnRange)
  BY ClosedTyped DEF OpenFails, TypeInv, TypeOK
<1>3. CASE pc[t] \in {"find", "lock"} /\ UpdateReturns(t, FALSE) /\ UNCHANGED newId
  <2>1. TypeOK'
    BY <1>0, <1>1, <1>2, <1>3, UpdateReturnsTyped DEF OpenFails, TypeInv, TypeOK, Phases
  <2>2. Flow'
    BY <1>3, UpdateReturnsFlows DEF OpenFails, InUpdate
  <2> QED BY <2>1, <2>2 DEF TypeInv
<1>4. CASE Goto(t, "reply", "none") /\ UNCHANGED <<tmp, ok, newId>>
  <2>1. pc' \in [Threads -> Steps] /\ phase' \in [Threads -> Phases]
    BY <1>4, GotoTyped DEF TypeInv, Steps, Phases
  <2>2. TypeOK'
    BY <1>0, <1>1, <1>2, <1>4, <2>1 DEF OpenFails, TypeInv, TypeOK, Phases
  <2>3. Flowing("reply", "none", req[t], newId[t])
    BY DEF Flowing, InUpdate
  <2>4. Flow'
    BY <1>4, <2>3, Frame DEF OpenFails, Goto, TypeInv, TypeOK
  <2> QED BY <2>2, <2>4 DEF TypeInv
<1>5. CASE pc[t] = "seek" /\ AppendReturns(t) /\ UNCHANGED <<locks, tmp, ok>>
  <2>1. /\ pc' \in [Threads -> Steps]
        /\ phase' \in [Threads -> Phases]
        /\ newId' \in [Threads -> Nat]
        /\ Flow'
    BY <1>5, AppendReturnsTyped DEF OpenFails
  <2>2. TypeOK'
    BY <1>0, <1>1, <1>5, <2>1 DEF OpenFails, TypeInv, TypeOK, Phases
  <2> QED BY <2>1, <2>2 DEF TypeInv
<1> QED BY <1>3, <1>4, <1>5 DEF OpenFails

\* A failing fcntl() keeps types and control flow.
LEMMA LockFailsTyped ==
  ASSUME TypeInv, NEW t \in Threads, LockFails(t)
  PROVE  TypeInv'
<1> USE DEF db, locks, counts, ghosts
<1>0. marred' \subseteq Ids \cup {Bank}
  BY PartiesTyped DEF LockFails, TypeInv, TypeOK
<1>1. faults' \in Nat
  BY DEF LockFails, Fault, TypeInv, TypeOK
<1>2. acctLock' \in LockTable(Accounts)
  BY ClosedTyped DEF LockFails, TypeInv, TypeOK
<1>3. CASE pc[t] = "lock" /\ UpdateReturns(t, FALSE) /\ UNCHANGED newId
  <2>1. TypeOK'
    BY <1>0, <1>1, <1>2, <1>3, UpdateReturnsTyped DEF LockFails, TypeInv, TypeOK, Phases
  <2>2. Flow'
    BY <1>3, UpdateReturnsFlows DEF LockFails, InUpdate
  <2> QED BY <2>1, <2>2 DEF TypeInv
<1>4. CASE /\ pc[t] = "seek"
           /\ newId' = [newId EXCEPT ![t] = Len(txns) + 1]
           /\ Goto(t, "append", phase[t])
           /\ UNCHANGED <<acctLock, tmp, ok>>
  <2>1. /\ pc' \in [Threads -> Steps]
        /\ phase' \in [Threads -> Phases]
        /\ newId' \in [Threads -> Nat]
        /\ Flow'
    BY <1>4, SeekEndTyped DEF LockFails
  <2>2. TypeOK'
    BY <1>0, <1>1, <1>4, <2>1 DEF LockFails, TypeInv, TypeOK, Phases
  <2> QED BY <2>1, <2>2 DEF TypeInv
<1> QED BY <1>3, <1>4 DEF LockFails

\* A failing read() or write() keeps types and control flow.
LEMMA IoFailsTyped ==
  ASSUME TypeInv, NEW t \in Threads, IoFails(t)
  PROVE  TypeInv'
<1> USE DEF db, locks, counts, ghosts
<1>0. marred' \subseteq Ids \cup {Bank}
  BY PartiesTyped DEF IoFails, TypeInv, TypeOK
<1>1. faults' \in Nat
  BY DEF IoFails, Fault, TypeInv, TypeOK
<1>2. txnLock' \in LockTable(TxnRange)
  BY ClosedTyped DEF IoFails, TypeInv, TypeOK
<1>3. CASE /\ pc[t] \in {"read", "write"}
           /\ ok' = [ok EXCEPT ![t] = FALSE]
           /\ Goto(t, "unlock", phase[t])
           /\ UNCHANGED <<txnLock, newId>>
  <2>1. pc' \in [Threads -> Steps] /\ phase' \in [Threads -> Phases]
    BY <1>3, GotoTyped DEF TypeInv, TypeOK, Steps, Phases
  <2>2. ok' \in [Threads -> BOOLEAN]
    BY <1>3 DEF TypeInv, TypeOK
  <2>3. TypeOK'
    BY <1>0, <1>1, <1>2, <1>3, <2>1, <2>2 DEF IoFails, TypeInv, TypeOK, Phases
  <2>4. Flowing("unlock", phase[t], req[t], newId[t])
    BY <1>3 DEF TypeInv, Flow, Flowing, InUpdate
  <2>5. Flow'
    BY <1>3, <2>4, Frame DEF IoFails, Goto, TypeInv, TypeOK
  <2> QED BY <2>3, <2>5 DEF TypeInv
<1>4. CASE pc[t] = "append" /\ AppendReturns(t) /\ UNCHANGED ok
  <2>1. /\ pc' \in [Threads -> Steps]
        /\ phase' \in [Threads -> Phases]
        /\ newId' \in [Threads -> Nat]
        /\ Flow'
    BY <1>4, AppendReturnsTyped DEF IoFails
  <2>2. TypeOK'
    BY <1>0, <1>1, <1>2, <1>4, <2>1 DEF IoFails, TypeInv, TypeOK, Phases
  <2> QED BY <2>1, <2>2 DEF TypeInv
<1> QED BY <1>3, <1>4 DEF IoFails

\* The end of a process keeps types and control flow.
LEMMA ExitTyped ==
  ASSUME TypeInv, NEW p \in Procs, Exit(p)
  PROVE  TypeInv'
<1> USE DEF db, locks, counts, ghosts
<1>1. acctLock' \in LockTable(Accounts) /\ txnLock' \in LockTable(TxnRange)
  BY LockTyped DEF Exit, TypeInv, TypeOK
<1>2. pc' \in [Threads -> Steps] /\ phase' \in [Threads -> Phases]
  BY DEF Exit, TypeInv, TypeOK, Steps, Phases
<1>3. req' \in [Threads -> Requests \cup {NoRequest}]
  BY DEF Exit, TypeInv, TypeOK
<1>4. tmp' \in [Threads -> AccountRec]
  BY DEF Exit, TypeInv, TypeOK, NoRecord, AccountRec
<1>5. ok' \in [Threads -> BOOLEAN]
  BY DEF Exit, TypeInv, TypeOK
<1>6. newId' \in [Threads -> Nat] /\ transit' \in [Threads -> Int] /\ exits' \in Nat
  BY DEF Exit, TypeInv, TypeOK
<1>0. marred' \subseteq Ids \cup {Bank}
  BY DEF Exit, TypeInv, TypeOK, Ids
<1>7. TypeOK'
  BY <1>0, <1>1, <1>2, <1>3, <1>4, <1>5, <1>6 DEF Exit, TypeInv, TypeOK, Phases
<1>8. Flow'
  <2> SUFFICES ASSUME NEW u \in Threads
               PROVE  Flowing(pc'[u], phase'[u], req'[u], newId'[u])
    BY DEF Flow
  <2>1. CASE ProcOf[u] = p
    BY <2>1 DEF Exit, Flowing, InUpdate
  <2>2. CASE ProcOf[u] # p
    BY <2>2 DEF Exit, TypeInv, Flow
  <2> QED BY <2>1, <2>2
<1> QED BY <1>7, <1>8 DEF TypeInv

\* Every step keeps types and control flow.
LEMMA NextTyped == TypeInv /\ [Next]_vars => TypeInv'
<1> SUFFICES ASSUME TypeInv, [Next]_vars PROVE TypeInv'  OBVIOUS
<1>1. CASE UNCHANGED vars
  BY <1>1 DEF vars, db, locks, counts, ghosts, TypeInv, TypeOK, Flow
<1>2. ASSUME NEW t \in Threads, Receive(t) PROVE TypeInv'
  BY <1>2, ReceiveTyped
<1>3. ASSUME NEW t \in Threads, HandlerStep(t) PROVE TypeInv'
  BY <1>3, FindTyped, LockRecordTyped, ReadTyped, WriteTyped, UnlockTyped,
     LookTyped, AppendTyped DEF HandlerStep
<1>4. ASSUME NEW t \in Threads, OpenFails(t) \/ LockFails(t) \/ IoFails(t) PROVE TypeInv'
  BY <1>4, OpenFailsTyped, LockFailsTyped, IoFailsTyped
<1>5. ASSUME NEW p \in Procs, Exit(p) PROVE TypeInv'
  BY <1>5, ExitTyped
<1> QED BY <1>1, <1>2, <1>3, <1>4, <1>5 DEF Next

\* Every variable keeps its type and every thread its place in the code:
\* phases, requests and locals are those the next system call goes with.
THEOREM TypeCorrect == Spec => [](TypeOK /\ Flow)
<1>1. Init => TypeInv  BY InitTyped
<1>2. TypeInv /\ [Next]_vars => TypeInv'  BY NextTyped
<1>3. TypeInv => TypeOK /\ Flow  BY DEF TypeInv
<1> QED BY <1>1, <1>2, <1>3, PTL DEF Spec

-----------------------------------------------------------------------------
(* No overdraft, whatever the threads of a process do to each other.       *)

\* All a step other than Read and Write does to accounts.db and to the
\* records about to be written to it.
Quiet ==
  /\ UNCHANGED accounts
  /\ \A u \in Threads :
       pc'[u] = "write" =>
         pc[u] = "write" /\ tmp'[u] = tmp[u] /\ phase'[u] = phase[u] /\ req'[u] = req[u]

\* A thread that does not go to write() disturbs no other that is about to.
LEMMA GotoQuiet ==
  ASSUME TypeOK, NEW t \in Threads, NEW s, NEW ph, s # "write", Goto(t, s, ph),
         UNCHANGED accounts,
         \A u \in Threads \ {t} : tmp'[u] = tmp[u] /\ req'[u] = req[u]
  PROVE  Quiet
<1> SUFFICES ASSUME NEW u \in Threads, pc'[u] = "write"
             PROVE  pc[u] = "write" /\ tmp'[u] = tmp[u] /\ phase'[u] = phase[u] /\ req'[u] = req[u]
  BY DEF Quiet
<1>1. u # t
  BY DEF Goto, TypeOK
<1> QED BY <1>1 DEF Goto, TypeOK

\* A return of atomic_update_account() touches no record.
LEMMA UpdateReturnsQuiet ==
  ASSUME TypeOK, NEW t \in Threads, NEW done, UpdateReturns(t, done),
         UNCHANGED <<accounts, req>>
  PROVE  Quiet
<1>1. PICK s, ph : s \in {"reply", "find", "seek", "inspect"} /\ Goto(t, s, ph)
  BY DEF UpdateReturns
<1>2. \A u \in Threads \ {t} : tmp'[u] = tmp[u] /\ req'[u] = req[u]
  BY DEF UpdateReturns, TypeOK
<1> QED BY <1>1, <1>2, GotoQuiet

\* A return of append_transaction() touches no record.
LEMMA AppendReturnsQuiet ==
  ASSUME TypeOK, NEW t \in Threads, AppendReturns(t), UNCHANGED <<accounts, tmp, req>>
  PROVE  Quiet
BY GotoQuiet DEF AppendReturns

\* Only Read and Write handle records.
LEMMA QuietSteps ==
  ASSUME TypeOK, [Next]_vars, ~ \E t \in Threads : Read(t) \/ Write(t)
  PROVE  Quiet
<1> USE DEF db, locks, counts, ghosts
<1>1. CASE UNCHANGED vars
  BY <1>1 DEF vars, Quiet
<1>2. ASSUME NEW t \in Threads, Receive(t) PROVE Quiet
  <2>1. PICK s, ph : s \in {"reply", "find", "check", "inspect", "history"} /\ Goto(t, s, ph)
    BY <1>2 DEF Receive, deposit_money, withdraw_money, transfer_funds, disburse_loan,
                set_account_status, view_balance, view_transaction_history
  <2>2. UNCHANGED <<accounts, tmp>> /\ \A u \in Threads \ {t} : req'[u] = req[u]
    BY <1>2 DEF Receive, TypeOK
  <2> QED BY <2>1, <2>2, GotoQuiet
<1>3. ASSUME NEW t \in Threads, Find(t) PROVE Quiet
  BY <1>3, GotoQuiet, UpdateReturnsQuiet DEF Find
<1>4. ASSUME NEW t \in Threads, LockRecord(t) PROVE Quiet
  BY <1>4, GotoQuiet DEF LockRecord
<1>5. ASSUME NEW t \in Threads, Unlock(t) PROVE Quiet
  BY <1>5, UpdateReturnsQuiet DEF Unlock
<1>6. ASSUME NEW t \in Threads, CheckRecipient(t) \/ Inspect(t) \/ ReadHistory(t) PROVE Quiet
  BY <1>6, GotoQuiet DEF CheckRecipient, Inspect, ReadHistory
<1>7. ASSUME NEW t \in Threads, Reply(t) PROVE Quiet
  <2>1. \A u \in Threads \ {t} : req'[u] = req[u]
    BY <1>7 DEF Reply, TypeOK
  <2> QED BY <1>7, <2>1, GotoQuiet DEF Reply
<1>8. ASSUME NEW t \in Threads, SeekEnd(t) \/ AppendRecord(t) PROVE Quiet
  BY <1>8, GotoQuiet, AppendReturnsQuiet DEF SeekEnd, AppendRecord
<1>9. ASSUME NEW t \in Threads, OpenFails(t) PROVE Quiet
  BY <1>9, GotoQuiet, UpdateReturnsQuiet, AppendReturnsQuiet DEF OpenFails
<1>10. ASSUME NEW t \in Threads, LockFails(t) PROVE Quiet
  BY <1>10, GotoQuiet, UpdateReturnsQuiet DEF LockFails
<1>11. ASSUME NEW t \in Threads, IoFails(t) PROVE Quiet
  BY <1>11, GotoQuiet, AppendReturnsQuiet DEF IoFails
<1>12. ASSUME NEW p \in Procs, Exit(p) PROVE Quiet
  BY <1>12 DEF Exit, Quiet, TypeOK
<1> QED BY <1>1, <1>2, <1>3, <1>4, <1>5, <1>6, <1>7, <1>8, <1>9, <1>10, <1>11, <1>12
        DEF Next, HandlerStep

\* The strengthening: what is about to be written is not negative either.
Solvent ==
  /\ NoOverdraft
  /\ \A t \in Threads : pc[t] = "write" => tmp[t].balance >= 0

\* What a modifier makes of a solvent record is solvent.
LEMMA ReadSolvent ==
  ASSUME TypeInv, Solvent, NEW t \in Threads, Read(t)
  PROVE  Solvent'
<1> USE DEF db, locks, counts, ghosts
<1>1. /\ Target(t) \in Accounts
      /\ phase[t] \in Updates
      /\ req[t] \in Requests
      /\ phase[t] # "status" => req[t].amount > 0
  BY DEF Read, TypeInv, Flow, Flowing, InUpdate, Target
<1>2. req[t].amount \in Int
  BY <1>1, RequestFields
<1>3. /\ accounts[Target(t)] \in AccountRec
      /\ accounts[Target(t)].balance \in Int
      /\ accounts[Target(t)].balance >= 0
  BY <1>1 DEF TypeInv, TypeOK, AccountRec, Solvent, NoOverdraft
<1>4. Accepts(phase[t], accounts[Target(t)], req[t]) =>
        Modified(phase[t], accounts[Target(t)], req[t]).balance >= 0
  BY <1>1, <1>2, <1>3 DEF Accepts, Modified, Updates, AccountRec
<1>5. NoOverdraft'
  BY DEF Read, Solvent, NoOverdraft
<1>6. ASSUME NEW u \in Threads, pc'[u] = "write" PROVE tmp'[u].balance >= 0
  <2>1. CASE u = t
    BY <1>4, <1>6, <2>1 DEF Read, Goto, TypeInv, TypeOK
  <2>2. CASE u # t
    BY <1>6, <2>2 DEF Read, Goto, TypeInv, TypeOK, Solvent
  <2> QED BY <2>1, <2>2
<1> QED BY <1>5, <1>6 DEF Solvent

\* Writing a solvent record, stale or not, overdraws nothing.
LEMMA WriteSolvent ==
  ASSUME TypeInv, Solvent, NEW t \in Threads, Write(t)
  PROVE  Solvent'
<1> USE DEF db, locks, counts, ghosts
<1>1. NoOverdraft'
  BY DEF Write, Solvent, NoOverdraft, TypeInv, TypeOK
<1>2. \A u \in Threads : pc'[u] = "write" => tmp'[u].balance >= 0
  BY DEF Write, Goto, Solvent, TypeInv, TypeOK
<1> QED BY <1>1, <1>2 DEF Solvent

\* No account is ever overdrawn, with any number of threads in a process and
\* updates that overwrite each other: withdraw_modifier() compares and
\* subtracts in the copy it was given.
THEOREM NeverOverdrawn == Spec => []NoOverdraft
<1>1. Init => Solvent
  BY OpeningAssumption DEF Init, Solvent, NoOverdraft
<1>2. ASSUME TypeInv, Solvent, [Next]_vars PROVE Solvent'
  <2>1. CASE \E t \in Threads : Read(t) \/ Write(t)
    BY <1>2, <2>1, ReadSolvent, WriteSolvent
  <2>2. CASE ~ \E t \in Threads : Read(t) \/ Write(t)
    <3>1. Quiet
      BY <1>2, <2>2, QuietSteps DEF TypeInv
    <3> QED BY <1>2, <3>1 DEF Quiet, Solvent, NoOverdraft
  <2> QED BY <2>1, <2>2
<1>3. Spec => []TypeInv
  BY TypeCorrect, PTL DEF TypeInv
<1>4. Solvent => NoOverdraft
  BY DEF Solvent
<1> QED BY <1>1, <1>2, <1>3, <1>4, PTL DEF Spec

-----------------------------------------------------------------------------
(* One thread per process: the record lock isolates an update.             *)

Held == {"read", "write", "unlock"}

\* From lock_record() to unlock_record() the record is locked by the process.
LockInv == \A t \in Threads : pc[t] \in Held => acctLock[Target(t)] = ProcOf[t]

\* Closing accounts.db drops no lock of another process.
LEMMA CloseKeeps ==
  ASSUME OneThreadPerProcess, TypeOK, NEW t \in Threads, NEW u \in Threads \ {t},
         NEW a \in Accounts, acctLock[a] = ProcOf[u]
  PROVE  /\ Close(acctLock, ProcOf[t])[a] = ProcOf[u]
         /\ ReadOnlyPass(acctLock, ProcOf[t])[a] = ProcOf[u]
BY DEF OneThreadPerProcess, TypeOK, LockTable, Close, ReadOnlyPass

\* A step of t keeps the others' locks and, unless t goes on holding its own,
\* is no concern of LockInv for t.
LEMMA LockFrame ==
  ASSUME OneThreadPerProcess, TypeInv, LockInv, NEW t \in Threads,
         \A u \in Threads \ {t} : /\ pc'[u] = pc[u]
                                  /\ phase'[u] = phase[u]
                                  /\ req'[u] = req[u],
         \A u \in Threads \ {t}, a \in Accounts :
            acctLock[a] = ProcOf[u] => acctLock'[a] = ProcOf[u],
         pc'[t] \in Held => acctLock'[Target(t)'] = ProcOf[t]
  PROVE  LockInv'
<1> SUFFICES ASSUME NEW u \in Threads, pc'[u] \in Held
             PROVE  acctLock'[Target(u)'] = ProcOf[u]
  BY DEF LockInv
<1>1. CASE u = t  BY <1>1
<1>2. CASE u # t
  <2>1. pc[u] \in Held /\ Target(u)' = Target(u)
    BY <1>2 DEF Target
  <2>2. Target(u) \in Accounts
    BY <2>1 DEF TypeInv, Flow, Flowing, InUpdate, Held, Target
  <2> QED BY <1>2, <2>1, <2>2 DEF LockInv
<1> QED BY <1>1, <1>2

\* A thread that leaves its update alone keeps the others' locks.
LEMMA GotoLock ==
  ASSUME OneThreadPerProcess, TypeInv, LockInv, NEW t \in Threads,
         NEW s, NEW ph, s \notin Held, Goto(t, s, ph),
         \A u \in Threads \ {t} : req'[u] = req[u],
         \/ acctLock' = acctLock
         \/ acctLock' = Close(acctLock, ProcOf[t])
         \/ acctLock' = ReadOnlyPass(acctLock, ProcOf[t])
  PROVE  LockInv'
<1>1. \A u \in Threads \ {t} : pc'[u] = pc[u] /\ phase'[u] = phase[u]
  BY DEF Goto, TypeInv, TypeOK
<1>2. pc'[t] \notin Held
  BY DEF Goto, TypeInv, TypeOK
<1>3. \A u \in Threads \ {t}, a \in Accounts :
         acctLock[a] = ProcOf[u] => acctLock'[a] = ProcOf[u]
  BY CloseKeeps DEF TypeInv
<1> QED BY <1>1, <1>2, <1>3, LockFrame

\* A return of atomic_update_account() keeps the others' locks.
LEMMA UpdateReturnsLock ==
  ASSUME OneThreadPerProcess, TypeInv, LockInv, NEW t \in Threads,
         NEW done, UpdateReturns(t, done), UNCHANGED req,
         \/ acctLock' = acctLock
         \/ acctLock' = Close(acctLock, ProcOf[t])
         \/ acctLock' = ReadOnlyPass(acctLock, ProcOf[t])
  PROVE  LockInv'
<1>1. PICK s, ph : s \in {"reply", "find", "seek", "inspect"} /\ Goto(t, s, ph)
  BY DEF UpdateReturns
<1>2. s \notin Held
  BY <1>1 DEF Held
<1> QED BY <1>1, <1>2, GotoLock

\* From one call to the next between lock_record() and unlock_record().
LEMMA HeldLock ==
  ASSUME OneThreadPerProcess, TypeInv, LockInv, NEW t \in Threads,
         NEW s, pc[t] \in Held, Goto(t, s, phase[t]), UNCHANGED <<req, acctLock>>
  PROVE  LockInv'
<1>1. \A u \in Threads \ {t} : pc'[u] = pc[u] /\ phase'[u] = phase[u]
  BY DEF Goto, TypeInv, TypeOK
<1>2. Target(t)' = Target(t)
  BY DEF Goto, TypeInv, TypeOK, Target
<1>3. acctLock'[Target(t)'] = ProcOf[t]
  BY <1>2 DEF LockInv
<1> QED BY <1>1, <1>3, LockFrame

\* Every step keeps the locks of updates in progress.
LEMMA LockStep ==
  ASSUME OneThreadPerProcess, TypeInv, LockInv, [Next]_vars
  PROVE  LockInv'
<1> USE DEF db, locks, counts, ghosts
<1>1. CASE UNCHANGED vars
  BY <1>1 DEF vars, LockInv, Target
<1>2. ASSUME NEW t \in Threads, Receive(t) PROVE LockInv'
  <2>1. PICK s, ph : s \in {"reply", "find", "check", "inspect", "history"} /\ Goto(t, s, ph)
    BY <1>2 DEF Receive, deposit_money, withdraw_money, transfer_funds, disburse_loan,
                set_account_status, view_balance, view_transaction_history
  <2>2. acctLock' = acctLock /\ \A u \in Threads \ {t} : req'[u] = req[u]
    BY <1>2 DEF Receive, TypeInv, TypeOK
  <2>3. s \notin Held
    BY <2>1 DEF Held
  <2> QED BY <2>1, <2>2, <2>3, GotoLock
<1>3. ASSUME NEW t \in Threads, Find(t) PROVE LockInv'
  BY <1>3, GotoLock, UpdateReturnsLock DEF Find, Held
<1>4. ASSUME NEW t \in Threads, LockRecord(t) PROVE LockInv'
  <2>1. \A u \in Threads \ {t} : pc'[u] = pc[u] /\ phase'[u] = phase[u] /\ req'[u] = req[u]
    BY <1>4 DEF LockRecord, Goto, TypeInv, TypeOK
  <2>2. Target(t)' = Target(t) /\ Target(t) \in Accounts
    BY <1>4 DEF LockRecord, Goto, TypeInv, TypeOK, Flow, Flowing, InUpdate, Target
  <2>3. acctLock'[Target(t)'] = ProcOf[t]
    BY <1>4, <2>2 DEF LockRecord, Lock, TypeInv, TypeOK, LockTable
  <2>4. ASSUME NEW u \in Threads \ {t}, NEW a \in Accounts, acctLock[a] = ProcOf[u]
        PROVE  acctLock'[a] = ProcOf[u]
    <3>1. ProcOf[u] # ProcOf[t] /\ ProcOf[u] # NoProc
      BY ThreadsAssumption, NoProcAssumption DEF OneThreadPerProcess
    <3>2. a # Target(t)
      BY <1>4, <2>4, <3>1 DEF LockRecord, Grantable
    <3> QED BY <1>4, <2>4, <3>2 DEF LockRecord, Lock, TypeInv, TypeOK, LockTable
  <2> QED BY <2>1, <2>3, <2>4, LockFrame
<1>5. ASSUME NEW t \in Threads, Read(t) \/ Write(t) PROVE LockInv'
  BY <1>5, HeldLock DEF Read, Write, Held
<1>6. ASSUME NEW t \in Threads, Unlock(t) PROVE LockInv'
  BY <1>6, UpdateReturnsLock DEF Unlock
<1>7. ASSUME NEW t \in Threads, CheckRecipient(t) \/ Inspect(t) \/ ReadHistory(t)
      PROVE  LockInv'
  BY <1>7, GotoLock DEF CheckRecipient, Inspect, ReadHistory, Held
<1>8. ASSUME NEW t \in Threads, Reply(t) PROVE LockInv'
  <2>1. \A u \in Threads \ {t} : req'[u] = req[u]
    BY <1>8 DEF Reply, TypeInv, TypeOK
  <2> QED BY <1>8, <2>1, GotoLock DEF Reply, Held
<1>9. ASSUME NEW t \in Threads, SeekEnd(t) \/ AppendRecord(t) PROVE LockInv'
  BY <1>9, GotoLock DEF SeekEnd, AppendRecord, AppendReturns, Held
<1>10. ASSUME NEW t \in Threads, OpenFails(t) PROVE LockInv'
  BY <1>10, GotoLock, UpdateReturnsLock DEF OpenFails, AppendReturns, Held
<1>11. ASSUME NEW t \in Threads, LockFails(t) PROVE LockInv'
  BY <1>11, GotoLock, UpdateReturnsLock DEF LockFails, Held
<1>12. ASSUME NEW t \in Threads, IoFails(t) PROVE LockInv'
  BY <1>12, GotoLock, HeldLock DEF IoFails, AppendReturns, Held
<1>13. ASSUME NEW p \in Procs, Exit(p) PROVE LockInv'
  <2> SUFFICES ASSUME NEW u \in Threads, pc'[u] \in Held
               PROVE  acctLock'[Target(u)'] = ProcOf[u]
    BY DEF LockInv
  <2>1. ProcOf[u] # p
    BY <1>13 DEF Exit, Held
  <2>2. pc[u] \in Held /\ Target(u)' = Target(u)
    BY <1>13, <2>1 DEF Exit, Target
  <2>3. Target(u) \in Accounts /\ acctLock[Target(u)] = ProcOf[u]
    BY <2>2 DEF TypeInv, Flow, Flowing, InUpdate, Held, Target, LockInv
  <2> QED BY <1>13, <2>1, <2>2, <2>3 DEF Exit, Close, TypeInv, TypeOK, LockTable
<1> QED BY <1>1, <1>2, <1>3, <1>4, <1>5, <1>6, <1>7, <1>8, <1>9, <1>10, <1>11, <1>12,
           <1>13 DEF Next, HandlerStep

\* Two threads inside an update are inside updates of different records.
LEMMA Exclusion ==
  ASSUME OneThreadPerProcess, LockInv, NEW t \in Threads, NEW u \in Threads, t # u,
         pc[t] \in Held, pc[u] \in Held
  PROVE  Target(t) # Target(u)
BY DEF OneThreadPerProcess, LockInv

\* An update that is quiet about u leaves what u has read current.
LEMMA IsolationStep ==
  ASSUME OneThreadPerProcess, TypeInv, LockInv, UpdateIsolated, [Next]_vars
  PROVE  UpdateIsolated'
<1> USE DEF db, locks, counts, ghosts
<1>1. CASE ~ \E t \in Threads : Read(t) \/ Write(t)
  <2>1. Quiet
    BY <1>1, QuietSteps DEF TypeInv
  <2> QED BY <2>1 DEF Quiet, UpdateIsolated, Target
<1>2. ASSUME NEW t \in Threads, Read(t) PROVE UpdateIsolated'
  <2> SUFFICES ASSUME NEW u \in Threads, pc'[u] = "write"
               PROVE  /\ Accepts(phase'[u], accounts'[Target(u)'], req'[u])
                      /\ tmp'[u] = Modified(phase'[u], accounts'[Target(u)'], req'[u])
    BY DEF UpdateIsolated
  <2>0. UNCHANGED <<accounts, req>> /\ phase'[u] = phase[u] /\ Target(u)' = Target(u)
    BY <1>2 DEF Read, Goto, TypeInv, TypeOK, Target
  <2>1. CASE u = t
    <3>1. Accepts(phase[t], accounts[Target(t)], req[t])
      BY <1>2, <2>1 DEF Read, Goto, TypeInv, TypeOK
    <3>2. tmp'[t] = Modified(phase[t], accounts[Target(t)], req[t])
      BY <1>2, <3>1 DEF Read, TypeInv, TypeOK
    <3> QED BY <2>0, <2>1, <3>1, <3>2
  <2>2. CASE u # t
    <3>1. pc[u] = "write" /\ tmp'[u] = tmp[u]
      BY <1>2, <2>2 DEF Read, Goto, TypeInv, TypeOK
    <3> QED BY <2>0, <3>1 DEF UpdateIsolated
  <2> QED BY <2>1, <2>2
<1>3. ASSUME NEW t \in Threads, Write(t) PROVE UpdateIsolated'
  <2> SUFFICES ASSUME NEW u \in Threads, pc'[u] = "write"
               PROVE  /\ Accepts(phase'[u], accounts'[Target(u)'], req'[u])
                      /\ tmp'[u] = Modified(phase'[u], accounts'[Target(u)'], req'[u])
    BY DEF UpdateIsolated
  <2>1. u # t
    BY <1>3 DEF Write, Goto, TypeInv, TypeOK
  <2>2. pc[u] = "write" /\ phase'[u] = phase[u] /\ UNCHANGED <<req, tmp>>
    BY <1>3, <2>1 DEF Write, Goto, TypeInv, TypeOK
  <2>3. Target(u)' = Target(u)
    BY <2>2 DEF Target
  <2>4. Target(u) # Target(t)
    BY <1>3, <2>1, <2>2, Exclusion DEF Write, Held
  <2>5. Target(u) \in Accounts
    BY <2>2 DEF TypeInv, Flow, Flowing, InUpdate, Target
  <2>6. accounts'[Target(u)] = accounts[Target(u)]
    BY <1>3, <2>4, <2>5 DEF Write, TypeInv, TypeOK
  <2> QED BY <2>2, <2>3, <2>6 DEF UpdateIsolated
<1> QED BY <1>1, <1>2, <1>3

\* With one thread per process, what atomic_update_account() writes is always
\* the modification of the record as it then is, through failing calls and
\* exits of other servers: no update is lost.
THEOREM UpdatesIsolated == OneThreadPerProcess /\ Spec => []UpdateIsolated
<1> SUFFICES ASSUME OneThreadPerProcess PROVE Spec => []UpdateIsolated
  OBVIOUS
<1> DEFINE Inv == LockInv /\ UpdateIsolated
<1>1. Init => Inv
  BY DEF Init, LockInv, UpdateIsolated, Held
<1>2. TypeInv /\ Inv /\ [Next]_vars => Inv'
  BY LockStep, IsolationStep
<1>3. Spec => []TypeInv
  BY TypeCorrect, PTL DEF TypeInv
<1>4. Inv => UpdateIsolated
  OBVIOUS
<1> HIDE DEF Inv
<1> QED BY <1>1, <1>2, <1>3, <1>4, PTL DEF Spec

-----------------------------------------------------------------------------
(* transactions.db: ids, in every regime.                                  *)

\* All a step other than lseek() and write() does to transactions.db and to
\* the ids about to be written.
LogQuiet ==
  /\ UNCHANGED txns
  /\ \A u \in Threads : pc'[u] = "append" => pc[u] = "append" /\ newId'[u] = newId[u]

\* A jump elsewhere than to an append computes no id.
LEMMA GotoLogQuiet ==
  ASSUME TypeOK, NEW t \in Threads, NEW s, NEW ph, s # "append", Goto(t, s, ph),
         UNCHANGED txns, \A u \in Threads \ {t} : newId'[u] = newId[u]
  PROVE  LogQuiet
<1> SUFFICES ASSUME NEW u \in Threads, pc'[u] = "append"
             PROVE  pc[u] = "append" /\ newId'[u] = newId[u]
  BY DEF LogQuiet
<1>1. u # t
  BY DEF Goto, TypeOK
<1> QED BY <1>1 DEF Goto, TypeOK

\* A return of atomic_update_account() computes no id.
LEMMA UpdateReturnsLogQuiet ==
  ASSUME TypeOK, NEW t \in Threads, NEW done, UpdateReturns(t, done),
         UNCHANGED <<txns, newId>>
  PROVE  LogQuiet
<1>1. PICK s, ph : s \in {"reply", "find", "seek", "inspect"} /\ Goto(t, s, ph)
  BY DEF UpdateReturns
<1> QED BY <1>1, GotoLogQuiet

\* A return of append_transaction() computes no id.
LEMMA AppendReturnsLogQuiet ==
  ASSUME TypeOK, NEW t \in Threads, AppendReturns(t), UNCHANGED txns
  PROVE  LogQuiet
<1>1. \A u \in Threads \ {t} : newId'[u] = newId[u]
  BY DEF AppendReturns, TypeOK
<1> QED BY <1>1, GotoLogQuiet DEF AppendReturns

\* The id is computed from the length of the file, with or without the lock.
ComputesId(t) ==
  /\ UNCHANGED txns
  /\ newId' = [newId EXCEPT ![t] = Len(txns) + 1]
  /\ Goto(t, "append", phase[t])

\* What a step can do to the log and the ids computed for it.
LEMMA LogSteps ==
  ASSUME TypeOK, [Next]_vars
  PROVE  \/ LogQuiet
         \/ \E t \in Threads : ComputesId(t) /\ pc[t] = "seek"
         \/ \E t \in Threads : AppendRecord(t)
<1> USE DEF db, locks, counts, ghosts
<1>1. CASE UNCHANGED vars
  BY <1>1 DEF vars, LogQuiet
<1>2. ASSUME NEW t \in Threads, Receive(t) PROVE LogQuiet
  <2>1. PICK s, ph : s \in {"reply", "find", "check", "inspect", "history"} /\ Goto(t, s, ph)
    BY <1>2 DEF Receive, deposit_money, withdraw_money, transfer_funds, disburse_loan,
                set_account_status, view_balance, view_transaction_history
  <2>2. UNCHANGED <<txns, newId>>
    BY <1>2 DEF Receive
  <2> QED BY <2>1, <2>2, GotoLogQuiet
<1>3. ASSUME NEW t \in Threads, Find(t) PROVE LogQuiet
  BY <1>3, GotoLogQuiet, UpdateReturnsLogQuiet DEF Find
<1>4. ASSUME NEW t \in Threads, LockRecord(t) \/ Read(t) \/ Write(t) PROVE LogQuiet
  BY <1>4, GotoLogQuiet DEF LockRecord, Read, Write
<1>5. ASSUME NEW t \in Threads, Unlock(t) PROVE LogQuiet
  BY <1>5, UpdateReturnsLogQuiet DEF Unlock
<1>6. ASSUME NEW t \in Threads,
             CheckRecipient(t) \/ Inspect(t) \/ ReadHistory(t) \/ Reply(t)
      PROVE  LogQuiet
  BY <1>6, GotoLogQuiet DEF CheckRecipient, Inspect, ReadHistory, Reply
<1>7. ASSUME NEW t \in Threads, SeekEnd(t) PROVE ComputesId(t) /\ pc[t] = "seek"
  BY <1>7 DEF SeekEnd, ComputesId
<1>8. ASSUME NEW t \in Threads, OpenFails(t) PROVE LogQuiet
  BY <1>8, GotoLogQuiet, UpdateReturnsLogQuiet, AppendReturnsLogQuiet DEF OpenFails
<1>9. ASSUME NEW t \in Threads, LockFails(t)
      PROVE  LogQuiet \/ (ComputesId(t) /\ pc[t] = "seek")
  BY <1>9, UpdateReturnsLogQuiet DEF LockFails, ComputesId
<1>10. ASSUME NEW t \in Threads, IoFails(t) PROVE LogQuiet
  BY <1>10, GotoLogQuiet, AppendReturnsLogQuiet DEF IoFails
<1>11. ASSUME NEW p \in Procs, Exit(p) PROVE LogQuiet
  BY <1>11 DEF Exit, LogQuiet, TypeOK
<1> QED BY <1>1, <1>2, <1>3, <1>4, <1>5, <1>6, <1>7, <1>8, <1>9, <1>10, <1>11
        DEF Next, HandlerStep

\* The strengthening: an id not yet written is not beyond the end either.
IdInv ==
  /\ TxnIdNeverAhead
  /\ \A t \in Threads : pc[t] = "append" => newId[t] <= Len(txns) + 1

\* Every step keeps ids within positions.
LEMMA IdStep ==
  ASSUME TypeInv, IdInv, [Next]_vars
  PROVE  IdInv'
<1> USE DEF db, locks, counts, ghosts
<1>1. CASE LogQuiet
  BY <1>1 DEF LogQuiet, IdInv, TxnIdNeverAhead
<1>2. ASSUME NEW t \in Threads, ComputesId(t) PROVE IdInv'
  <2>1. TxnIdNeverAhead'
    BY <1>2 DEF ComputesId, IdInv, TxnIdNeverAhead
  <2>2. Len(txns) \in Nat
    BY DEF TypeInv, TypeOK
  <2>3. ASSUME NEW u \in Threads, pc'[u] = "append" PROVE newId'[u] <= Len(txns)' + 1
    BY <1>2, <2>2, <2>3 DEF ComputesId, Goto, IdInv, TypeInv, TypeOK
  <2> QED BY <2>1, <2>3 DEF IdInv
<1>3. ASSUME NEW t \in Threads, AppendRecord(t) PROVE IdInv'
  <2> DEFINE rec == [id |-> newId[t],
                     entry |-> [from |-> req[t].from, to |-> req[t].to,
                                amount |-> req[t].amount, narration |-> phase[t]]]
  <2>1. txns' = Append(txns, rec) /\ rec.id = newId[t]
    BY <1>3 DEF AppendRecord
  <2>2. Len(txns) \in Nat /\ txns \in Seq(TxnRec)
    BY DEF TypeInv, TypeOK
  <2> HIDE DEF rec
  <2>3. Len(txns') = Len(txns) + 1
    BY <2>1, <2>2
  <2>4. newId[t] <= Len(txns) + 1
    BY <1>3 DEF AppendRecord, IdInv
  <2>5. TxnIdNeverAhead'
    <3> SUFFICES ASSUME NEW i \in 1..Len(txns') PROVE txns'[i].id <= i
      BY DEF TxnIdNeverAhead
    <3>1. CASE i \in 1..Len(txns)
      BY <2>1, <2>2, <3>1 DEF IdInv, TxnIdNeverAhead
    <3>2. CASE i = Len(txns) + 1
      BY <2>1, <2>2, <2>4, <3>2
    <3> QED BY <2>2, <2>3, <3>1, <3>2
  <2>6. ASSUME NEW u \in Threads, pc'[u] = "append" PROVE newId'[u] <= Len(txns') + 1
    <3>1. u # t
      BY <1>3, <2>6 DEF AppendRecord, AppendReturns, Goto, TypeInv, TypeOK
    <3>2. pc[u] = "append" /\ newId'[u] = newId[u]
      BY <1>3, <2>6, <3>1 DEF AppendRecord, AppendReturns, Goto, TypeInv, TypeOK
    <3>3. newId[u] \in Nat /\ newId[u] <= Len(txns) + 1
      BY <3>2 DEF IdInv, TypeInv, TypeOK
    <3> QED BY <2>2, <2>3, <3>2, <3>3
  <2> QED BY <2>5, <2>6 DEF IdInv
<1> QED BY <1>1, <1>2, <1>3, LogSteps DEF TypeInv

\* However appends race, a record is never numbered beyond its position.
THEOREM IdsNeverAhead == Spec => []TxnIdNeverAhead
<1>1. Init => IdInv
  BY DEF Init, IdInv, TxnIdNeverAhead
<1>2. TypeInv /\ IdInv /\ [Next]_vars => IdInv'
  BY IdStep
<1>3. Spec => []TypeInv
  BY TypeCorrect, PTL DEF TypeInv
<1>4. IdInv => TxnIdNeverAhead
  BY DEF IdInv
<1> QED BY <1>1, <1>2, <1>3, <1>4, PTL DEF Spec

-----------------------------------------------------------------------------
(* One thread per process: updates and appends happen in one step each.    *)

\* A write() is the atomic update its modifier stands for.
LEMMA WriteRefines ==
  ASSUME TypeInv, UpdateIsolated, NEW t \in Threads, Write(t)
  PROVE  Atomic!ANext
<1> USE DEF db, locks, counts, ghosts
<1>1. /\ Target(t) \in Accounts
      /\ phase[t] \in Updates
      /\ req[t] \in Requests
      /\ phase[t] # "status" => req[t].op \in MoneyOps /\ req[t].amount > 0
  BY DEF Write, TypeInv, Flow, Flowing, InUpdate, Target
<1>2. /\ Accepts(phase[t], accounts[Target(t)], req[t])
      /\ accounts' = [accounts EXCEPT ![Target(t)] =
                        Modified(phase[t], accounts[Target(t)], req[t])]
      /\ UNCHANGED txns
  BY DEF Write, UpdateIsolated
<1>3. req[t].amount \in Int /\ req[t].active \in BOOLEAN
  BY <1>1, RequestFields
<1>4. accounts[Target(t)].balance \in Int
  BY <1>1 DEF TypeInv, TypeOK, AccountRec
<1>5. CASE phase[t] = "status"
  <2>1. Atomic!ASetStatus(Target(t), req[t].active)
    BY <1>2, <1>5 DEF Atomic!ASetStatus, Modified
  <2> QED BY <1>1, <1>3, <2>1 DEF Atomic!ANext
<1>6. CASE phase[t] = "debit"
  <2>1. req[t].amount \in Amounts
    BY <1>1, <1>6, RequestFields
  <2>2. Atomic!ADebit(Target(t), req[t].amount)
    BY <1>1, <1>2, <1>3, <1>4, <1>6 DEF Atomic!ADebit, Modified, Accepts
  <2> QED BY <1>1, <2>1, <2>2 DEF Atomic!ANext
<1>7. CASE phase[t] \in {"credit", "undo"}
  <2>1. req[t].amount \in Amounts
    BY <1>1, <1>7, RequestFields
  <2>2. Atomic!ACredit(Target(t), req[t].amount)
    BY <1>1, <1>2, <1>7 DEF Atomic!ACredit, Modified, Accepts
  <2> QED BY <1>1, <2>1, <2>2 DEF Atomic!ANext
<1> QED BY <1>1, <1>5, <1>6, <1>7 DEF Updates

\* A write() to transactions.db is an atomic append.
LEMMA AppendRefines ==
  ASSUME TypeInv, IdInv, NEW t \in Threads, AppendRecord(t)
  PROVE  Atomic!ANext
<1> USE DEF db, locks, counts, ghosts
<1> DEFINE e == [from |-> req[t].from, to |-> req[t].to,
                 amount |-> req[t].amount, narration |-> phase[t]]
<1>1. /\ req[t] \in Requests
      /\ req[t].op \in MoneyOps
      /\ phase[t] \in Narrations
      /\ newId[t] \in Nat \ {0}
  BY DEF AppendRecord, TypeInv, Flow, Flowing
<1>2. e \in TxnEntries
  BY <1>1, RequestFields DEF TxnEntries
<1>3. newId[t] \in 1..(Len(txns) + 1)
  BY <1>1 DEF AppendRecord, IdInv, TypeInv, TypeOK
<1>4. txns' = Append(txns, [id |-> newId[t], entry |-> e]) /\ UNCHANGED accounts
  BY DEF AppendRecord
<1> HIDE DEF e
<1>5. Atomic!ALog(e)
  BY <1>3, <1>4 DEF Atomic!ALog
<1> QED BY <1>2, <1>5 DEF Atomic!ANext

\* With one thread per process the handlers, system call by system call and
\* with failing calls and exits in between, implement the atomic ledger.
THEOREM LedgerIsAtomic == OneThreadPerProcess /\ Spec => RefinesAtomic
<1> SUFFICES ASSUME OneThreadPerProcess PROVE Spec => RefinesAtomic
  OBVIOUS
<1>1. Init => Atomic!AInit
  BY DEF Init, Atomic!AInit
<1>2. ASSUME TypeInv, UpdateIsolated, IdInv, [Next]_vars
      PROVE  [Atomic!ANext]_(Atomic!avars)
  <2>1. CASE \E t \in Threads : Write(t)
    BY <1>2, <2>1, WriteRefines
  <2>2. CASE \E t \in Threads : AppendRecord(t)
    BY <1>2, <2>2, AppendRefines
  <2>3. CASE /\ ~ \E t \in Threads : Write(t)
             /\ ~ \E t \in Threads : AppendRecord(t)
    <3>1. UNCHANGED accounts
      <4>1. CASE \E t \in Threads : Read(t)
        BY <4>1 DEF Read, db
      <4>2. CASE ~ \E t \in Threads : Read(t)
        BY <1>2, <2>3, <4>2, QuietSteps DEF Quiet, TypeInv
      <4> QED BY <4>1, <4>2
    <3>2. UNCHANGED txns
      BY <1>2, <2>3, LogSteps DEF LogQuiet, ComputesId, TypeInv
    <3> QED BY <3>1, <3>2 DEF Atomic!avars
  <2> QED BY <2>1, <2>2, <2>3
<1>3. Spec => []TypeInv
  BY TypeCorrect, PTL DEF TypeInv
<1>4. Spec => []UpdateIsolated
  BY UpdatesIsolated
<1>5. TypeInv /\ IdInv /\ [Next]_vars => IdInv'
  BY IdStep
<1>6. Init => IdInv
  BY DEF Init, IdInv, TxnIdNeverAhead
<1> QED BY <1>1, <1>2, <1>3, <1>4, <1>5, <1>6, PTL DEF Spec, RefinesAtomic, Atomic!ASpec

-----------------------------------------------------------------------------
(* One thread per process, as long as no call has failed: lock_file() makes *)
(* lseek() and write() of an append one step.                              *)

\* The thread between lseek() and write() has the lock, and the end of the
\* file is still where it found it.
AppendInv ==
  faults = 0 =>
    /\ TxnIdIsPosition
    /\ \A t \in Threads :
         pc[t] = "append" => txnLock["file"] = ProcOf[t] /\ newId[t] = Len(txns) + 1

\* What a step other than lseek() and write() does to an append in progress.
AppendQuiet ==
  /\ LogQuiet
  /\ \A u \in Threads :
       pc'[u] = "append" /\ txnLock["file"] = ProcOf[u] => txnLock'["file"] = ProcOf[u]

\* Closing transactions.db drops no lock of another process.
LEMMA TxnCloseKeeps ==
  ASSUME TypeOK, NEW p, NEW u \in Threads, ProcOf[u] # p, txnLock["file"] = ProcOf[u]
  PROVE  Close(txnLock, p)["file"] = ProcOf[u]
BY DEF TypeOK, LockTable, TxnRange, Close

\* A call that fails is counted, and nothing else is.
LEMMA FaultsCount ==
  ASSUME [Next]_vars
  PROVE  UNCHANGED faults \/ Fault
<1> USE DEF db, locks, counts, ghosts
<1>1. CASE UNCHANGED vars
  BY <1>1 DEF vars
<1>2. ASSUME NEW t \in Threads, OpenFails(t) \/ LockFails(t) \/ IoFails(t) PROVE Fault
  BY <1>2 DEF OpenFails, LockFails, IoFails
<1>3. ASSUME NEW t \in Threads, Receive(t) \/ Reply(t) PROVE UNCHANGED faults
  BY <1>3 DEF Receive, Reply
<1>4. ASSUME NEW t \in Threads,
             Find(t) \/ LockRecord(t) \/ Read(t) \/ Write(t) \/ Unlock(t)
      PROVE  UNCHANGED faults
  BY <1>4 DEF Find, LockRecord, Read, Write, Unlock
<1>5. ASSUME NEW t \in Threads,
             \/ CheckRecipient(t) \/ Inspect(t) \/ ReadHistory(t)
             \/ SeekEnd(t) \/ AppendRecord(t)
      PROVE  UNCHANGED faults
  BY <1>5 DEF CheckRecipient, Inspect, ReadHistory, SeekEnd, AppendRecord
<1>6. ASSUME NEW p \in Procs, Exit(p) PROVE UNCHANGED faults
  BY <1>6 DEF Exit
<1> QED BY <1>1, <1>2, <1>3, <1>4, <1>5, <1>6 DEF Next, HandlerStep

\* While none is counted, none has failed.
LEMMA NoFault ==
  ASSUME TypeOK, [Next]_vars, faults' = 0
  PROVE  /\ faults = 0
         /\ \A t \in Threads : ~OpenFails(t) /\ ~LockFails(t) /\ ~IoFails(t)
<1>1. faults \in Nat
  BY DEF TypeOK
<1>2. ~Fault
  BY <1>1 DEF Fault
<1>3. UNCHANGED faults
  BY <1>2, FaultsCount
<1> QED BY <1>2, <1>3 DEF OpenFails, LockFails, IoFails

\* While no call has failed, an append in progress is disturbed by lseek()
\* and write() alone.
LEMMA AppendSteps ==
  ASSUME OneThreadPerProcess, TypeOK, [Next]_vars, faults' = 0
  PROVE  \/ AppendQuiet
         \/ \E t \in Threads : SeekEnd(t)
         \/ \E t \in Threads : AppendRecord(t)
<1> USE DEF db, locks, counts, ghosts
<1>0. CASE \E t \in Threads : SeekEnd(t) \/ AppendRecord(t)
  BY <1>0
<1> SUFFICES ASSUME ~ \E t \in Threads : SeekEnd(t) \/ AppendRecord(t)
             PROVE  AppendQuiet
  BY <1>0
<1>1. LogQuiet
  <2> SUFFICES ASSUME NEW t \in Threads, ComputesId(t), pc[t] = "seek" PROVE LogQuiet
    BY LogSteps
  <2>1. CASE UNCHANGED vars
    BY <2>1 DEF vars, LogQuiet
  <2>2. pc'[t] = "append"
    BY DEF ComputesId, Goto, TypeOK
  <2>3. ASSUME NEW u \in Threads, Receive(u) \/ HandlerStep(u) PROVE LogQuiet
    <3>1. PICK s, ph : s # "append" /\ Goto(u, s, ph)
      BY <2>3 DEF Receive, deposit_money, withdraw_money, transfer_funds, disburse_loan,
           set_account_status, view_balance, view_transaction_history, HandlerStep,
           Find, LockRecord, Read, Write, Unlock, UpdateReturns,
           CheckRecipient, Inspect, ReadHistory, Reply
    <3>2. FALSE
      BY <2>2, <3>1 DEF Goto, TypeOK
    <3> QED BY <3>2
  <2>4. ASSUME NEW p \in Procs, Exit(p) PROVE LogQuiet
    BY <2>4 DEF Exit, LogQuiet, TypeOK
  <2> QED BY <2>1, <2>3, <2>4, NoFault DEF Next
<1>2. ASSUME NEW u \in Threads, pc'[u] = "append", txnLock["file"] = ProcOf[u]
      PROVE  txnLock'["file"] = ProcOf[u]
  <2>1. pc[u] = "append"
    BY <1>1, <1>2 DEF LogQuiet
  <2>2. CASE UNCHANGED txnLock
    BY <1>2, <2>2
  <2>3. ASSUME NEW t \in Threads, ReadHistory(t) PROVE txnLock'["file"] = ProcOf[u]
    <3>1. t # u
      BY <2>1, <2>3 DEF ReadHistory
    <3>2. ProcOf[u] # ProcOf[t]
      BY <3>1 DEF OneThreadPerProcess
    <3> QED BY <1>2, <2>3, <3>2, TxnCloseKeeps DEF ReadHistory, ReadOnlyPass
  <2>4. ASSUME NEW p \in Procs, Exit(p) PROVE txnLock'["file"] = ProcOf[u]
    <3>1. ProcOf[u] # p
      BY <1>2, <2>4 DEF Exit
    <3> QED BY <1>2, <2>4, <3>1, TxnCloseKeeps DEF Exit
  <2>5. ASSUME NEW t \in Threads,
               \/ Receive(t) \/ Find(t) \/ LockRecord(t) \/ Read(t) \/ Write(t)
               \/ Unlock(t) \/ CheckRecipient(t) \/ Inspect(t) \/ Reply(t)
        PROVE  UNCHANGED txnLock
    BY <2>5 DEF Receive, Find, LockRecord, Read, Write, Unlock, CheckRecipient,
                Inspect, Reply
  <2>6. CASE UNCHANGED vars
    BY <2>2, <2>6 DEF vars
  <2> QED BY <2>2, <2>3, <2>4, <2>5, <2>6, NoFault DEF Next, HandlerStep
<1> QED BY <1>1, <1>2 DEF AppendQuiet

\* Every step keeps positions and ids together.
LEMMA AppendStep ==
  ASSUME OneThreadPerProcess, TypeInv, AppendInv, [Next]_vars
  PROVE  AppendInv'
<1> USE DEF db, locks, counts, ghosts
<1> SUFFICES ASSUME faults' = 0
             PROVE  /\ TxnIdIsPosition'
                    /\ \A u \in Threads : pc'[u] = "append" =>
                         txnLock'["file"] = ProcOf[u] /\ newId'[u] = Len(txns') + 1
  BY DEF AppendInv
<1>0. TypeOK /\ Len(txns) \in Nat /\ txns \in Seq(TxnRec)
  BY DEF TypeInv, TypeOK
<1>1. /\ TxnIdIsPosition
      /\ \A u \in Threads : pc[u] = "append" =>
           txnLock["file"] = ProcOf[u] /\ newId[u] = Len(txns) + 1
  BY <1>0, NoFault DEF AppendInv
<1>2. CASE AppendQuiet
  BY <1>1, <1>2 DEF AppendQuiet, LogQuiet, TxnIdIsPosition
<1>3. ASSUME NEW t \in Threads, SeekEnd(t) PROVE /\ TxnIdIsPosition'
                    /\ \A u \in Threads : pc'[u] = "append" =>
                         txnLock'["file"] = ProcOf[u] /\ newId'[u] = Len(txns') + 1
  <2>1. TxnIdIsPosition' /\ txns' = txns
    BY <1>1, <1>3 DEF SeekEnd, TxnIdIsPosition
  <2>2. txnLock'["file"] = ProcOf[t] /\ newId'[t] = Len(txns) + 1
    BY <1>0, <1>3 DEF SeekEnd, Lock, TypeOK, LockTable, TxnRange
  <2>3. ASSUME NEW u \in Threads, u # t, pc'[u] = "append" PROVE FALSE
    <3>1. pc[u] = "append"
      BY <1>0, <1>3, <2>3 DEF SeekEnd, Goto, TypeOK
    <3>2. txnLock["file"] = ProcOf[u]
      BY <1>1, <3>1
    <3>3. ProcOf[u] # ProcOf[t] /\ ProcOf[u] # NoProc
      BY <2>3, ThreadsAssumption, NoProcAssumption DEF OneThreadPerProcess
    <3> QED BY <1>3, <3>2, <3>3 DEF SeekEnd, Grantable, TxnRange
  <2> QED BY <2>1, <2>2, <2>3
<1>4. ASSUME NEW t \in Threads, AppendRecord(t) PROVE /\ TxnIdIsPosition'
                    /\ \A u \in Threads : pc'[u] = "append" =>
                         txnLock'["file"] = ProcOf[u] /\ newId'[u] = Len(txns') + 1
  <2>1. PICK e : txns' = Append(txns, [id |-> newId[t], entry |-> e])
    BY <1>4 DEF AppendRecord
  <2>2. newId[t] = Len(txns) + 1 /\ txnLock["file"] = ProcOf[t]
    BY <1>1, <1>4 DEF AppendRecord
  <2>3. TxnIdIsPosition'
    <3> SUFFICES ASSUME NEW i \in 1..Len(txns') PROVE txns'[i].id = i
      BY DEF TxnIdIsPosition
    <3>1. Len(txns') = Len(txns) + 1
      BY <1>0, <2>1
    <3>2. CASE i \in 1..Len(txns)
      BY <1>0, <1>1, <2>1, <3>2 DEF TxnIdIsPosition
    <3>3. CASE i = Len(txns) + 1
      BY <1>0, <2>1, <2>2, <3>3
    <3> QED BY <1>0, <3>1, <3>2, <3>3
  <2>4. ASSUME NEW u \in Threads, pc'[u] = "append" PROVE FALSE
    <3>1. u # t
      BY <1>0, <1>4, <2>4 DEF AppendRecord, AppendReturns, Goto, TypeOK
    <3>2. pc[u] = "append"
      BY <1>0, <1>4, <2>4, <3>1 DEF AppendRecord, AppendReturns, Goto, TypeOK
    <3> QED BY <1>1, <2>2, <3>1, <3>2 DEF OneThreadPerProcess
  <2> QED BY <2>3, <2>4
<1> QED BY <1>0, <1>2, <1>3, <1>4, AppendSteps

\* Where lock_file() excludes and no system call fails, the id of every
\* transaction is its position in the file, whatever exits cut short.
THEOREM IdsArePositions == OneThreadPerProcess /\ MaxFaults = 0 /\ Spec => []TxnIdIsPosition
<1> SUFFICES ASSUME OneThreadPerProcess, MaxFaults = 0 PROVE Spec => []TxnIdIsPosition
  OBVIOUS
<1> DEFINE Inv == AppendInv /\ faults = 0
<1>1. Init => Inv
  BY DEF Init, AppendInv, TxnIdIsPosition
<1>2. TypeInv /\ Inv /\ [Next]_vars => Inv'
  <2> SUFFICES ASSUME TypeInv, Inv, [Next]_vars PROVE Inv'
    OBVIOUS
  <2>1. faults' = 0
    BY FaultsCount DEF Fault
  <2> QED BY <2>1, AppendStep
<1>3. Spec => []TypeInv
  BY TypeCorrect, PTL DEF TypeInv
<1>4. Inv => TxnIdIsPosition
  BY DEF AppendInv
<1> HIDE DEF Inv
<1> QED BY <1>1, <1>2, <1>3, <1>4, PTL DEF Spec
=============================================================================
