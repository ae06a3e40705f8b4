---------------------------- MODULE MoneyProofs ----------------------------
(***************************************************************************)
(* Proofs about the sums of Ledger: where the money of a transfer is, what *)
(* the accounts hold together, and what the history says of them.          *)
(***************************************************************************)
EXTENDS LedgerProofs, SumTheorems

-----------------------------------------------------------------------------
(* The money of a transfer under way.                                      *)

\* A transfer has debited the sender, and neither credited the recipient nor
\* given the money back.  At "unlock", done tells whether the update was
\* written.
Owing(s, ph, r, done) ==
  /\ r.op = "TRANSFER"
  /\ \/ s \in InUpdate \ {"unlock"} /\ ph \in {"credit", "undo"}
     \/ s = "unlock" /\ ph = "debit" /\ done
     \/ s = "unlock" /\ ph \in {"credit", "undo"} /\ ~done

\* What a thread holds is what its transfer owes; a transfer that could not
\* give it back may be answered while it holds it.
Carrying(s, ph, r, done, x) ==
  /\ x >= 0
  /\ Owing(s, ph, r, done) => x = r.amount
  /\ ~Owing(s, ph, r, done) /\ s # "reply" => x = 0
  /\ s \in InUpdate /\ ph = "undo" => r.op = "TRANSFER"

CarryInv ==
  \A t \in Threads : Carrying(pc[t], phase[t], req[t], ok[t], transit[t])

\* A step of one thread leaves the others what they hold.
LEMMA CarryFrame ==
  ASSUME TypeOK, CarryInv, NEW t \in Threads, NEW s, NEW ph, Goto(t, s, ph),
         \A u \in Threads \ {t} : /\ req'[u] = req[u]
                                  /\ ok'[u] = ok[u]
                                  /\ transit'[u] = transit[u],
         Carrying(s, ph, req'[t], ok'[t], transit'[t])
  PROVE  CarryInv'
<1> SUFFICES ASSUME NEW u \in Threads
             PROVE  Carrying(pc'[u], phase'[u], req'[u], ok'[u], transit'[u])
  BY DEF CarryInv
<1>1. CASE u = t
  BY <1>1 DEF Goto, TypeOK
<1>2. CASE u # t
  <2>1. pc'[u] = pc[u] /\ phase'[u] = phase[u]
    BY <1>2 DEF Goto, TypeOK
  <2> QED BY <1>2, <2>1 DEF CarryInv
<1> QED BY <1>1, <1>2

\* A return of atomic_update_account() hands the money on to the update that
\* comes next.
LEMMA UpdateReturnsCarry ==
  ASSUME TypeInv, CarryInv, NEW t \in Threads, NEW done \in BOOLEAN,
         pc[t] \in InUpdate,
         pc[t] = "unlock" => done = ok[t],
         pc[t] # "unlock" => done = FALSE,
         UpdateReturns(t, done), UNCHANGED <<req, transit>>
  PROVE  CarryInv'
<1>0. TypeOK
  BY DEF TypeInv
<1>1. phase[t] \in Updates /\ ok'[t] \in BOOLEAN
  BY DEF TypeInv, TypeOK, Flow, Flowing, UpdateReturns
<1>2. \A u \in Threads \ {t} : /\ req'[u] = req[u]
                               /\ ok'[u] = ok[u]
                               /\ transit'[u] = transit[u]
  BY <1>0 DEF UpdateReturns, TypeOK
<1>3. Carrying(pc[t], phase[t], req[t], ok[t], transit[t]) /\ ok[t] \in BOOLEAN
  BY <1>0 DEF CarryInv, TypeOK
<1>4. PICK s, ph : Goto(t, s, ph) /\ Carrying(s, ph, req[t], ok'[t], transit[t])
  BY <1>1, <1>3 DEF UpdateReturns, Carrying, Owing, InUpdate, Updates
<1> QED BY <1>0, <1>2, <1>4, CarryFrame

\* So does every other jump that changes neither the request nor the money,
\* from a place where nothing is owed to another.
LEMMA GotoCarry ==
  ASSUME TypeInv, CarryInv, NEW t \in Threads, NEW s, NEW ph,
         pc[t] \notin InUpdate \cup {"reply"}, s # "unlock", Goto(t, s, ph),
         \/ s \notin InUpdate
         \/ ph \in {"debit", "status"}
         \/ ph = "credit" /\ req'[t].op # "TRANSFER",
         \A u \in Threads \ {t} : req'[u] = req[u],
         UNCHANGED <<ok, transit>>
  PROVE  CarryInv'
<1>0. TypeOK
  BY DEF TypeInv
<1>1. transit[t] = 0
  BY DEF CarryInv, Carrying, Owing, InUpdate
<1>2. Carrying(s, ph, req'[t], ok'[t], transit'[t])
  BY <1>1 DEF Carrying, Owing, InUpdate
<1> QED BY <1>0, <1>2, CarryFrame

\* Every step of a thread keeps transfers and what they hold together.
LEMMA ThreadCarries ==
  ASSUME TypeInv, CarryInv, NEW t \in Threads,
         \/ Receive(t) \/ HandlerStep(t)
         \/ OpenFails(t) \/ LockFails(t) \/ IoFails(t)
  PROVE  CarryInv'
<1> USE DEF db, locks, counts, ghosts
<1>0. /\ TypeOK
      /\ Carrying(pc[t], phase[t], req[t], ok[t], transit[t])
      /\ ok[t] \in BOOLEAN
  BY DEF TypeInv, TypeOK, CarryInv
<1>1. CASE Receive(t)
  <2>1. PICK s, ph : /\ Goto(t, s, ph)
                     /\ s # "unlock"
                     /\ \/ s \notin InUpdate
                        \/ ph \in {"debit", "status"}
                        \/ ph = "credit" /\ req'[t].op # "TRANSFER"
    <3>1. PICK r \in Requests :
            /\ req' = [req EXCEPT ![t] = r]
            /\ \/ deposit_money(t, r)
               \/ withdraw_money(t, r)
               \/ transfer_funds(t, r)
               \/ disburse_loan(t, r)
               \/ set_account_status(t, r)
               \/ view_balance(t, r)
               \/ view_transaction_history(t, r)
      BY <1>1 DEF Receive
    <3>2. req'[t] = r
      BY <1>0, <3>1 DEF TypeOK
    <3> QED
      BY <3>1, <3>2
         DEF deposit_money, withdraw_money, transfer_funds, disburse_loan,
             set_account_status, view_balance, view_transaction_history, InUpdate
  <2>2. pc[t] \notin InUpdate \cup {"reply"} /\ UNCHANGED <<ok, transit>>
    BY <1>1 DEF Receive, InUpdate
  <2>3. \A u \in Threads \ {t} : req'[u] = req[u]
    BY <1>0, <1>1 DEF Receive, TypeOK
  <2> QED BY <2>1, <2>2, <2>3, GotoCarry
<1>2. CASE Find(t)
  <2>1. CASE UpdateReturns(t, FALSE)
    BY <1>2, <2>1, UpdateReturnsCarry DEF Find, InUpdate
  <2>2. CASE Goto(t, "lock", phase[t]) /\ UNCHANGED <<tmp, ok>>
    <3>1. Carrying("lock", phase[t], req[t], ok[t], transit[t])
      BY <1>0, <1>2 DEF Find, Carrying, Owing, InUpdate
    <3> QED BY <1>0, <1>2, <2>2, <3>1, CarryFrame DEF Find
  <2> QED BY <1>2, <2>1, <2>2 DEF Find
<1>3. CASE LockRecord(t)
  <2>1. Carrying("read", phase[t], req[t], ok[t], transit[t])
    BY <1>0, <1>3 DEF LockRecord, Carrying, Owing, InUpdate
  <2> QED BY <1>0, <1>3, <2>1, CarryFrame DEF LockRecord
<1>4. CASE Read(t)
  <2>1. PICK s : Goto(t, s, phase[t]) /\ Carrying(s, phase[t], req[t], ok'[t], transit[t])
    BY <1>0, <1>4 DEF Read, Carrying, Owing, InUpdate, TypeOK
  <2>2. UNCHANGED <<req, transit>> /\ \A u \in Threads \ {t} : ok'[u] = ok[u]
    BY <1>0, <1>4 DEF Read, TypeOK
  <2> QED BY <1>0, <2>1, <2>2, CarryFrame
<1>5. CASE Write(t)
  <2>1. req[t].amount \in Int /\ (phase[t] # "status" => req[t].amount > 0)
    BY <1>5, RequestFields DEF Write, TypeInv, Flow, Flowing, InUpdate
  <2>2. Carrying("unlock", phase[t], req[t], TRUE, Holding(t))
    BY <1>0, <1>5, <2>1 DEF Write, Carrying, Owing, InUpdate, Holding
  <2>3. /\ ok'[t] = TRUE /\ transit'[t] = Holding(t) /\ UNCHANGED req
        /\ \A u \in Threads \ {t} : ok'[u] = ok[u] /\ transit'[u] = transit[u]
    BY <1>0, <1>5 DEF Write, TypeOK
  <2> QED BY <1>0, <1>5, <2>2, <2>3, CarryFrame DEF Write
<1>6. CASE Unlock(t)
  BY <1>0, <1>6, UpdateReturnsCarry DEF Unlock, InUpdate
<1>7. CASE CheckRecipient(t) \/ Inspect(t) \/ ReadHistory(t) \/ SeekEnd(t)
  BY <1>7, GotoCarry DEF CheckRecipient, Inspect, ReadHistory, SeekEnd, InUpdate
<1>8. CASE AppendRecord(t)
  BY <1>8, GotoCarry DEF AppendRecord, AppendReturns, InUpdate
<1>9. CASE Reply(t)
  <2>1. Carrying("recv", "none", NoRequest, FALSE, 0)
    BY DEF Carrying, Owing, InUpdate
  <2>2. /\ req'[t] = NoRequest /\ ok'[t] = FALSE /\ transit'[t] = 0
        /\ \A u \in Threads \ {t} :
             req'[u] = req[u] /\ ok'[u] = ok[u] /\ transit'[u] = transit[u]
    BY <1>0, <1>9 DEF Reply, TypeOK
  <2> QED BY <1>0, <1>9, <2>1, <2>2, CarryFrame DEF Reply
<1>10. CASE OpenFails(t)
  <2>1. CASE pc[t] \in {"find", "lock"} /\ UpdateReturns(t, FALSE)
    BY <1>10, <2>1, UpdateReturnsCarry DEF OpenFails, InUpdate
  <2>2. CASE pc[t] \in {"check", "inspect", "history"} /\ Goto(t, "reply", "none") /\ UNCHANGED ok
    BY <1>10, <2>2, GotoCarry DEF OpenFails, InUpdate
  <2>3. CASE pc[t] = "seek" /\ AppendReturns(t) /\ UNCHANGED ok
    BY <1>10, <2>3, GotoCarry DEF OpenFails, AppendReturns, InUpdate
  <2> QED BY <1>10, <2>1, <2>2, <2>3 DEF OpenFails
<1>11. CASE LockFails(t)
  <2>1. CASE pc[t] = "lock" /\ UpdateReturns(t, FALSE)
    BY <1>11, <2>1, UpdateReturnsCarry DEF LockFails, InUpdate
  <2>2. CASE pc[t] = "seek" /\ Goto(t, "append", phase[t]) /\ UNCHANGED ok
    BY <1>11, <2>2, GotoCarry DEF LockFails, InUpdate
  <2> QED BY <1>11, <2>1, <2>2 DEF LockFails
<1>12. CASE IoFails(t)
  <2>1. CASE /\ pc[t] \in {"read", "write"}
             /\ ok' = [ok EXCEPT ![t] = FALSE]
             /\ Goto(t, "unlock", phase[t])
    <3>1. Carrying("unlock", phase[t], req[t], FALSE, transit[t])
      BY <1>0, <2>1 DEF Carrying, Owing, InUpdate
    <3>2. ok'[t] = FALSE /\ \A u \in Threads \ {t} : ok'[u] = ok[u]
      BY <1>0, <2>1 DEF TypeOK
    <3> QED BY <1>0, <1>12, <2>1, <3>1, <3>2, CarryFrame DEF IoFails
  <2>2. CASE pc[t] = "append" /\ AppendReturns(t) /\ UNCHANGED ok
    BY <1>12, <2>2, GotoCarry DEF IoFails, AppendReturns, InUpdate
  <2> QED BY <1>12, <2>1, <2>2 DEF IoFails
<1> QED BY <1>1, <1>2, <1>3, <1>4, <1>5, <1>6, <1>7, <1>8, <1>9, <1>10, <1>11, <1>12
        DEF HandlerStep

\* So does every step.
LEMMA NextCarries ==
  ASSUME TypeInv, CarryInv, [Next]_vars
  PROVE  CarryInv'
<1> USE DEF db, locks, counts, ghosts
<1>1. CASE UNCHANGED vars
  BY <1>1 DEF vars, CarryInv
<1>2. ASSUME NEW p \in Procs, Exit(p) PROVE CarryInv'
  <2> SUFFICES ASSUME NEW u \in Threads
               PROVE  Carrying(pc'[u], phase'[u], req'[u], ok'[u], transit'[u])
    BY DEF CarryInv
  <2>1. CASE ProcOf[u] = p
    BY <1>2, <2>1 DEF Exit, Carrying, Owing, InUpdate
  <2>2. CASE ProcOf[u] # p
    BY <1>2, <2>2 DEF Exit, CarryInv
  <2> QED BY <2>1, <2>2
<1> QED BY <1>1, <1>2, ThreadCarries DEF Next

\* Nobody holds anything at the start.
LEMMA InitCarries == Init => CarryInv
BY DEF Init, CarryInv, Carrying, Owing, InUpdate

-----------------------------------------------------------------------------
(* No money is made.                                                       *)

Funds(acc) == MapThenSumSet(LAMBDA a : acc[a].balance, Accounts)

\* The totals of Ledger as sums of functions, before and after a step.
LEMMA Totals ==
  /\ TotalFunds = Funds(accounts) /\ TotalFunds' = Funds(accounts')
  /\ TotalTransit = Sum(transit, Threads) /\ TotalTransit' = Sum(transit', Threads)
  /\ TotalOpening = Sum(Opening, Accounts) /\ TotalOpening' = Sum(Opening, Accounts)
<1> USE DEF MapThenSumSet, MapThenFoldSet
<1>1. TotalFunds = Funds(accounts) /\ TotalFunds' = Funds(accounts')
  BY DEF TotalFunds, Funds
<1>2. TotalTransit = Sum(transit, Threads) /\ TotalTransit' = Sum(transit', Threads)
  BY DEF TotalTransit, Sum
<1>3. TotalOpening = Sum(Opening, Accounts) /\ TotalOpening' = Sum(Opening, Accounts)
  BY DEF TotalOpening, Sum
<1> QED BY <1>1, <1>2, <1>3

\* The sum of the opening balances is a number.
LEMMA OpeningInt == Sum(Opening, Accounts) \in Int
<1>1. \A a \in Accounts : Opening[a] \in Int
  BY OpeningAssumption
<1> QED BY <1>1, SumInt, FiniteAssumption

\* The sum of the balances as a sum of a function.
LEMMA FundsSum ==
  ASSUME NEW acc
  PROVE  Funds(acc) = Sum([a \in Accounts |-> acc[a].balance], Accounts)
<1> DEFINE f == [a \in Accounts |-> acc[a].balance]
           Balanced(g) == g = [s \in SUBSET Accounts |->
                                IF s = {} THEN 0
                                ELSE acc[Pick(s)].balance + g[s \ {Pick(s)}]]
           m == CHOOSE g : Balanced(g)
<1>1. Funds(acc) = m[Accounts]
  BY DEF Funds, MapThenSumSet, MapThenFoldSet, Pick
<1>2. ASSUME NEW g PROVE Balanced(g) <=> Adds(g, f, Accounts)
  <2>1. \A s \in SUBSET Accounts : s # {} => f[Pick(s)] = acc[Pick(s)].balance
    BY PickIn
  <2>2. [s \in SUBSET Accounts |->
           IF s = {} THEN 0 ELSE acc[Pick(s)].balance + g[s \ {Pick(s)}]]
        = [s \in SUBSET Accounts |-> IF s = {} THEN 0 ELSE f[Pick(s)] + g[s \ {Pick(s)}]]
    <3> HIDE DEF f
    <3> QED BY <2>1
  <2> HIDE DEF f
  <2> QED BY <2>2 DEF Adds
<1>3. \E g : Adds(g, f, Accounts)
  <2> HIDE DEF f
  <2> QED BY AddsExists, FiniteAssumption
<1>4. Adds(m, f, Accounts)
  <2> HIDE DEF f
  <2>1. \E g : Balanced(g)
    <3> HIDE DEF Balanced
    <3> QED BY <1>2, <1>3
  <2>2. Balanced(m)
    <3> HIDE DEF Balanced
    <3> QED BY <2>1
  <2> HIDE DEF m, Balanced
  <2> QED BY <1>2, <2>2
<1> HIDE DEF m, f
<1>5. Sum(f, Accounts) = m[Accounts]
  BY <1>4, SumAdds, FiniteAssumption
<1> QED BY <1>1, <1>5 DEF f

\* What an update changes in the sum of the balances.
LEMMA FundsChange ==
  ASSUME NEW acc \in [Accounts -> AccountRec], NEW a \in Accounts, NEW rec \in AccountRec
  PROVE  /\ Funds(acc) \in Int
         /\ Funds([acc EXCEPT ![a] = rec]) = Funds(acc) + (rec.balance - acc[a].balance)
<1> DEFINE new == [acc EXCEPT ![a] = rec]
           f == [b \in Accounts |-> acc[b].balance]
           h == [b \in Accounts |-> new[b].balance]
<1>1. \A b \in Accounts : f[b] \in Int /\ h[b] \in Int
  BY DEF AccountRec
<1>2. \A b \in Accounts \ {a} : f[b] = h[b]
  OBVIOUS
<1>3. f[a] = acc[a].balance /\ h[a] = rec.balance
  OBVIOUS
<1>4. Funds(acc) = Sum(f, Accounts)
  BY FundsSum
<1>5. Funds(new) = Sum(h, Accounts)
  <2> HIDE DEF new
  <2> QED BY FundsSum
<1> HIDE DEF f, h
<1>6. Sum(f, Accounts) \in Int
  BY <1>1, SumInt, FiniteAssumption
<1>7. Sum(h, Accounts) = Sum(f, Accounts) + (h[a] - f[a])
  BY <1>1, <1>2, SumChange, FiniteAssumption
<1> QED BY <1>3, <1>4, <1>5, <1>6, <1>7

\* All that steps other than a write() do to money: a thread that answers, or
\* that ends with its process, loses what its transfer holds.
LEMMA MoneySteps ==
  ASSUME TypeOK, [Next]_vars, ~ \E t \in Threads : Write(t)
  PROVE  /\ UNCHANGED <<accounts, cash>>
         /\ \A u \in Threads : transit'[u] \in {transit[u], 0}
<1> USE DEF db, locks, counts, ghosts
<1>1. CASE UNCHANGED vars
  BY <1>1 DEF vars
<1>2. ASSUME NEW t \in Threads, Reply(t)
      PROVE  /\ UNCHANGED <<accounts, cash>>
             /\ \A u \in Threads : transit'[u] \in {transit[u], 0}
  BY <1>2 DEF Reply, TypeOK
<1>3. ASSUME NEW p \in Procs, Exit(p)
      PROVE  /\ UNCHANGED <<accounts, cash>>
             /\ \A u \in Threads : transit'[u] \in {transit[u], 0}
  BY <1>3 DEF Exit
<1>4. ASSUME NEW t \in Threads, Receive(t) \/ Find(t) \/ LockRecord(t) \/ Read(t) \/ Unlock(t)
      PROVE  UNCHANGED <<accounts, cash, transit>>
  BY <1>4 DEF Receive, Find, LockRecord, Read, Unlock
<1>5. ASSUME NEW t \in Threads,
             \/ CheckRecipient(t) \/ Inspect(t) \/ ReadHistory(t)
             \/ SeekEnd(t) \/ AppendRecord(t)
      PROVE  UNCHANGED <<accounts, cash, transit>>
  BY <1>5 DEF CheckRecipient, Inspect, ReadHistory, SeekEnd, AppendRecord
<1>6. ASSUME NEW t \in Threads, OpenFails(t) \/ LockFails(t) \/ IoFails(t)
      PROVE  UNCHANGED <<accounts, cash, transit>>
  BY <1>6 DEF OpenFails, LockFails, IoFails
<1> QED BY <1>1, <1>2, <1>3, <1>4, <1>5, <1>6 DEF Next, HandlerStep

\* A write() moves money between accounts, transfers and customers, and makes
\* none: what it credits was paid in, or held by the transfer.
LEMMA WriteMakesNoMoney ==
  ASSUME TypeInv, CarryInv, UpdateIsolated, NoMoneyCreated, NEW t \in Threads, Write(t)
  PROVE  NoMoneyCreated'
<1> USE DEF db, locks, counts, ghosts
<1> DEFINE a   == Target(t)
           amt == req[t].amount
           rec == Modified(phase[t], accounts[a], req[t])
<1>0. TypeOK
  BY DEF TypeInv
<1>1. /\ a \in Accounts
      /\ phase[t] \in Updates
      /\ req[t] \in Requests
      /\ phase[t] # "status" => req[t].op \in MoneyOps /\ amt > 0
  BY DEF Write, TypeInv, Flow, Flowing, InUpdate, Target
<1>2. amt \in Int
  BY <1>1, RequestFields
<1>3. accounts \in [Accounts -> AccountRec] /\ accounts[a] \in AccountRec
  BY <1>0, <1>1 DEF TypeOK
<1>4. rec \in AccountRec
  BY <1>1, <1>3, ModifiedTyped
<1>5. accounts' = [accounts EXCEPT ![a] = rec]
  BY DEF Write, UpdateIsolated
<1>6. accounts[a].balance \in Int /\ rec.balance \in Int
  BY <1>3, <1>4 DEF AccountRec
<1>7. rec.balance - accounts[a].balance =
        CASE phase[t] = "status" -> 0
          [] phase[t] = "debit"  -> 0 - amt
          [] OTHER               -> amt
  BY <1>2, <1>3, <1>6 DEF Modified, AccountRec
<1> HIDE DEF rec
<1>8. TotalFunds' = TotalFunds + (rec.balance - accounts[a].balance) /\ TotalFunds \in Int
  <2> HIDE DEF a
  <2> QED BY <1>1, <1>3, <1>4, <1>5, Totals, FundsChange
<1>9. /\ TotalTransit \in Int
      /\ TotalTransit' = TotalTransit + (Holding(t) - transit[t])
  <2>1. TotalTransit = Sum(transit, Threads) /\ TotalTransit' = Sum(transit', Threads)
    BY Totals
  <2>2. Holding(t) \in Int
    BY <1>2 DEF Holding
  <2>3. transit' = [transit EXCEPT ![t] = Holding(t)]
    BY DEF Write
  <2>4. /\ \A u \in Threads : transit[u] \in Int /\ transit'[u] \in Int
        /\ \A u \in Threads \ {t} : transit[u] = transit'[u]
        /\ transit'[t] = Holding(t)
    BY <1>0, <2>2, <2>3 DEF TypeOK
  <2>5. Sum(transit, Threads) \in Int
    BY <2>4, SumInt, FiniteAssumption
  <2>6. Sum(transit', Threads) = Sum(transit, Threads) + (transit'[t] - transit[t])
    BY <2>4, SumChange, FiniteAssumption
  <2> QED BY <2>1, <2>4, <2>5, <2>6
<1>10. cash' = cash + PaidIn(t) /\ cash \in Int
  BY <1>0 DEF Write, TypeOK
<1>11. transit[t] \in Int /\ transit[t] >= 0
  BY <1>0 DEF TypeOK, CarryInv, Carrying
<1>12. (rec.balance - accounts[a].balance) + (Holding(t) - transit[t]) <= PaidIn(t)
  <2>1. CASE phase[t] = "status"
    BY <1>7, <1>11, <2>1 DEF Holding, PaidIn
  <2>2. CASE phase[t] = "debit"
    BY <1>2, <1>7, <1>11, <2>2 DEF Holding, PaidIn
  <2>3. CASE phase[t] = "credit" /\ req[t].op # "TRANSFER"
    BY <1>2, <1>7, <1>11, <2>3 DEF Holding, PaidIn
  <2>4. CASE phase[t] \in {"credit", "undo"} /\ req[t].op = "TRANSFER"
    <3>1. transit[t] = amt
      BY <2>4 DEF Write, CarryInv, Carrying, Owing, InUpdate
    <3> QED BY <1>2, <1>7, <2>4, <3>1 DEF Holding, PaidIn
  <2>5. phase[t] = "undo" => req[t].op = "TRANSFER"
    BY DEF Write, CarryInv, Carrying, InUpdate
  <2> QED BY <1>1, <2>1, <2>2, <2>3, <2>4, <2>5 DEF Updates
<1>13. TotalOpening \in Int /\ TotalOpening' = TotalOpening
  BY Totals, OpeningInt
<1>14. PaidIn(t) \in Int /\ Holding(t) \in Int
  BY <1>2 DEF PaidIn, Holding
<1> HIDE DEF a, amt
<1> QED BY <1>6, <1>8, <1>9, <1>10, <1>11, <1>12, <1>13, <1>14 DEF NoMoneyCreated

\* A step that only forgets what a transfer held makes no money.
LEMMA OtherStepsMakeNoMoney ==
  ASSUME TypeInv, CarryInv, NoMoneyCreated, TypeInv', [Next]_vars, ~ \E t \in Threads : Write(t)
  PROVE  NoMoneyCreated'
<1>1. /\ UNCHANGED <<accounts, cash>>
      /\ \A u \in Threads : transit'[u] \in {transit[u], 0}
  BY MoneySteps DEF TypeInv
<1>2. \A u \in Threads : /\ transit[u] \in Int /\ transit'[u] \in Int
                         /\ transit'[u] <= transit[u]
  <2> SUFFICES ASSUME NEW u \in Threads
               PROVE  /\ transit[u] \in Int /\ transit'[u] \in Int
                      /\ transit'[u] <= transit[u]
    OBVIOUS
  <2>1. transit[u] \in Int /\ transit[u] >= 0
    BY DEF TypeInv, TypeOK, CarryInv, Carrying
  <2> QED BY <1>1, <2>1
<1>3. Sum(transit', Threads) <= Sum(transit, Threads)
  BY <1>2, SumLeq, FiniteAssumption
<1>4. Sum(transit', Threads) \in Int /\ Sum(transit, Threads) \in Int
  BY <1>2, SumInt, FiniteAssumption
<1>5. Funds(accounts) \in Int
  <2>1. Funds(accounts) = Sum([b \in Accounts |-> accounts[b].balance], Accounts)
    BY FundsSum
  <2>2. \A b \in Accounts : [c \in Accounts |-> accounts[c].balance][b] \in Int
    BY DEF TypeInv, TypeOK, AccountRec
  <2> QED BY <2>1, <2>2, SumInt, FiniteAssumption
<1>6. accounts' = accounts /\ cash' = cash /\ cash \in Int
  BY <1>1 DEF TypeInv, TypeOK
<1>7. TotalTransit' <= TotalTransit /\ TotalTransit' \in Int /\ TotalTransit \in Int
  BY <1>3, <1>4, Totals
<1>8. /\ TotalFunds' = TotalFunds /\ TotalFunds \in Int
      /\ TotalOpening' = TotalOpening /\ TotalOpening \in Int
  BY <1>5, <1>6, Totals, OpeningInt
<1>9. TotalFunds + TotalTransit <= TotalOpening + cash
  BY DEF NoMoneyCreated
<1>10. TotalFunds + TotalTransit' <= TotalOpening + cash
  <2>1. \A f, x, y, m \in Int : y <= x /\ f + x <= m => f + y <= m
    OBVIOUS
  <2>2. TotalOpening + cash \in Int
    BY <1>6, <1>8
  <2> QED BY <1>7, <1>8, <1>9, <2>1, <2>2
<1>11. TotalFunds' + TotalTransit' <= TotalOpening' + cash'
  BY <1>6, <1>8, <1>10
<1> QED BY <1>11 DEF NoMoneyCreated

\* The accounts start with what was paid in.
LEMMA InitHasNoMoreMoney == Init => NoMoneyCreated
<1> SUFFICES ASSUME Init PROVE NoMoneyCreated  OBVIOUS
<1> DEFINE f == [a \in Accounts |-> accounts[a].balance]
<1>1. TotalFunds = Sum(f, Accounts)
  BY Totals, FundsSum
<1>2. \A a \in Accounts : f[a] = Opening[a]
  BY DEF Init
<1> HIDE DEF f
<1>3. Sum(f, Accounts) = Sum(Opening, Accounts)
  BY <1>2, SumSame, FiniteAssumption
<1>4. \A t \in Threads : transit[t] = 0
  BY DEF Init
<1>5. Sum(transit, Threads) = 0
  BY <1>4, SumZero, FiniteAssumption
<1>6. TotalFunds = TotalOpening /\ TotalOpening \in Int /\ TotalTransit = 0
  BY <1>1, <1>3, <1>5, Totals, OpeningInt
<1>7. cash = 0
  BY DEF Init
<1> QED BY <1>6, <1>7 DEF NoMoneyCreated

\* Where the record lock excludes, no failing call, no exit in the middle of a
\* transfer, and no rollback that fails puts more money into the accounts
\* than customers and loans brought in, for any number of servers and
\* accounts.
THEOREM MoneyIsNotMade == OneThreadPerProcess /\ Spec => []NoMoneyCreated
<1> SUFFICES ASSUME OneThreadPerProcess PROVE Spec => []NoMoneyCreated
  OBVIOUS
<1> DEFINE Inv == CarryInv /\ NoMoneyCreated
<1>1. Init => Inv
  BY InitCarries, InitHasNoMoreMoney
<1>2. TypeInv /\ TypeInv' /\ UpdateIsolated /\ Inv /\ [Next]_vars => Inv'
  BY NextCarries, WriteMakesNoMoney, OtherStepsMakeNoMoney
<1>3. Spec => []TypeInv
  BY TypeCorrect, PTL DEF TypeInv
<1>4. Spec => []UpdateIsolated
  BY UpdatesIsolated
<1>5. Inv => NoMoneyCreated
  OBVIOUS
<1> HIDE DEF Inv
<1> QED BY <1>1, <1>2, <1>3, <1>4, <1>5, PTL DEF Spec

-----------------------------------------------------------------------------
(* What an answered transfer keeps.                                        *)

\* A rollback has a record to go to, the sender's; if it was not written, the
\* sender is among the marred, and stays there.
Rolling(s, ph, r, done, x, m) ==
  /\ s \in InUpdate /\ ph \in {"credit", "undo"} /\ r.op = "TRANSFER" =>
       r.from \in Accounts
  /\ s = "unlock" /\ ph = "undo" /\ ~done => r.from \in m
  /\ s = "reply" /\ x # 0 => ph = "undo" /\ r.from \in m

RollInv ==
  \A t \in Threads : Rolling(pc[t], phase[t], req[t], ok[t], transit[t], marred)

\* Nobody leaves the marred.
LEMMA MarredGrows ==
  ASSUME [Next]_vars
  PROVE  marred \subseteq marred'
<1> USE DEF db, locks, counts, ghosts
<1>1. CASE UNCHANGED vars
  BY <1>1 DEF vars
<1>2. ASSUME NEW p \in Procs, Exit(p) PROVE marred \subseteq marred'
  BY <1>2 DEF Exit
<1>3. ASSUME NEW t \in Threads, Receive(t) \/ Find(t) \/ LockRecord(t) \/ Write(t) \/ Unlock(t)
      PROVE  marred \subseteq marred'
  BY <1>3 DEF Receive, Find, LockRecord, Write, Unlock
<1>4. ASSUME NEW t \in Threads,
             \/ CheckRecipient(t) \/ Inspect(t) \/ ReadHistory(t)
             \/ SeekEnd(t) \/ AppendRecord(t) \/ Reply(t)
      PROVE  marred \subseteq marred'
  BY <1>4 DEF CheckRecipient, Inspect, ReadHistory, SeekEnd, AppendRecord, Reply
<1>5. ASSUME NEW t \in Threads, Read(t) PROVE marred \subseteq marred'
  BY <1>5 DEF Read
<1>6. ASSUME NEW t \in Threads, OpenFails(t) \/ LockFails(t) \/ IoFails(t)
      PROVE  marred \subseteq marred'
  BY <1>6 DEF OpenFails, LockFails, IoFails
<1> QED BY <1>1, <1>2, <1>3, <1>4, <1>5, <1>6 DEF Next, HandlerStep

\* A step of one thread leaves the others where they are.
LEMMA RollFrame ==
  ASSUME TypeOK, RollInv, NEW t \in Threads, NEW s, NEW ph, Goto(t, s, ph),
         marred \subseteq marred',
         \A u \in Threads \ {t} : /\ req'[u] = req[u]
                                  /\ ok'[u] = ok[u]
                                  /\ transit'[u] = transit[u],
         Rolling(s, ph, req'[t], ok'[t], transit'[t], marred')
  PROVE  RollInv'
<1> SUFFICES ASSUME NEW u \in Threads
             PROVE  Rolling(pc'[u], phase'[u], req'[u], ok'[u], transit'[u], marred')
  BY DEF RollInv
<1>1. CASE u = t
  BY <1>1 DEF Goto, TypeOK
<1>2. CASE u # t
  <2>1. pc'[u] = pc[u] /\ phase'[u] = phase[u]
    BY <1>2 DEF Goto, TypeOK
  <2>2. Rolling(pc[u], phase[u], req[u], ok[u], transit[u], marred)
    BY DEF RollInv
  <2> QED BY <1>2, <2>1, <2>2 DEF Rolling
<1> QED BY <1>1, <1>2

\* Where atomic_update_account() returns to.  A rollback returns "not updated"
\* for one of the reasons that mar its sender.
LEMMA UpdateReturnsRoll ==
  ASSUME TypeInv, CarryInv, RollInv, NEW t \in Threads, NEW done \in BOOLEAN,
         pc[t] \in {"find", "lock", "unlock"},
         pc[t] = "unlock" => done = ok[t],
         pc[t] # "unlock" => done = FALSE,
         pc[t] # "unlock" /\ phase[t] = "undo" => req[t].from \in marred',
         marred \subseteq marred',
         UpdateReturns(t, done), UNCHANGED <<req, transit>>
  PROVE  RollInv'
<1>0. TypeOK
  BY DEF TypeInv
<1>1. phase[t] \in Updates /\ ok'[t] \in BOOLEAN /\ ok[t] \in BOOLEAN
  BY DEF TypeInv, TypeOK, Flow, Flowing, InUpdate, UpdateReturns
<1>2. \A u \in Threads \ {t} : /\ req'[u] = req[u]
                               /\ ok'[u] = ok[u]
                               /\ transit'[u] = transit[u]
  BY <1>0 DEF UpdateReturns, TypeOK
<1>3. /\ Rolling(pc[t], phase[t], req[t], ok[t], transit[t], marred)
      /\ Carrying(pc[t], phase[t], req[t], ok[t], transit[t])
      /\ pc[t] \in InUpdate
  BY DEF RollInv, CarryInv, InUpdate
<1>4. pc[t] = "unlock" => Target(t) \in Accounts
  BY DEF TypeInv, Flow, Flowing, InUpdate, Target
<1>5. PICK s, ph : Goto(t, s, ph) /\ Rolling(s, ph, req[t], ok'[t], transit[t], marred')
  <2>1. CASE phase[t] = "status"
    <3>1. Goto(t, "reply", "status")
      BY <2>1 DEF UpdateReturns
    <3>2. transit[t] = 0
      BY <1>3, <2>1 DEF Carrying, Owing, InUpdate
    <3> QED BY <3>1, <3>2 DEF Rolling, InUpdate
  <2>2. CASE phase[t] = "undo"
    <3>1. Goto(t, "reply", "undo")
      BY <2>2 DEF UpdateReturns
    <3>2. CASE pc[t] = "unlock" /\ ok[t]
      <4>1. transit[t] = 0
        BY <1>3, <2>2, <3>2 DEF Carrying, Owing
      <4> QED BY <3>1, <4>1 DEF Rolling, InUpdate
    <3>3. CASE ~(pc[t] = "unlock" /\ ok[t])
      <4>1. req[t].from \in marred'
        BY <1>3, <2>2, <3>3 DEF Rolling
      <4> QED BY <3>1, <4>1 DEF Rolling, InUpdate
    <3> QED BY <3>2, <3>3
  <2>3. CASE phase[t] = "debit"
    <3>1. CASE done /\ req[t].op = "TRANSFER"
      <4>1. Goto(t, "find", "credit")
        BY <2>3, <3>1 DEF UpdateReturns
      <4>2. req[t].from \in Accounts
        BY <1>1, <1>4, <2>3, <3>1 DEF Target
      <4> QED BY <4>1, <4>2 DEF Rolling, InUpdate
    <3>2. CASE ~(done /\ req[t].op = "TRANSFER")
      <4>1. PICK s, ph : s \in {"seek", "inspect"} /\ Goto(t, s, ph)
        BY <2>3, <3>2 DEF UpdateReturns
      <4> QED BY <4>1 DEF Rolling, InUpdate
    <3> QED BY <3>1, <3>2
  <2>4. CASE phase[t] = "credit"
    <3>1. CASE ~done /\ req[t].op = "TRANSFER"
      <4>1. Goto(t, "find", "undo")
        BY <2>4, <3>1 DEF UpdateReturns
      <4>2. req[t].from \in Accounts
        BY <1>3, <2>4, <3>1 DEF Rolling
      <4> QED BY <4>1, <4>2 DEF Rolling, InUpdate
    <3>2. CASE done
      <4>1. PICK ph : Goto(t, "seek", ph)
        BY <2>4, <3>2 DEF UpdateReturns
      <4> QED BY <4>1 DEF Rolling, InUpdate
    <3>3. CASE ~done /\ req[t].op # "TRANSFER"
      <4>1. PICK s : s \in {"reply", "inspect"} /\ Goto(t, s, "none")
        BY <2>4, <3>3 DEF UpdateReturns
      <4>2. transit[t] = 0
        BY <1>3, <3>3 DEF Carrying, Owing, InUpdate
      <4> QED BY <4>1, <4>2 DEF Rolling, InUpdate
    <3> QED BY <3>1, <3>2, <3>3
  <2> QED BY <1>1, <2>1, <2>2, <2>3, <2>4 DEF Updates
<1> QED BY <1>0, <1>2, <1>5, RollFrame

\* Jumps from where nothing is owed.
LEMMA GotoRoll ==
  ASSUME TypeInv, CarryInv, RollInv, NEW t \in Threads, NEW s, NEW ph,
         pc[t] \notin InUpdate \cup {"reply"}, Goto(t, s, ph),
         \/ s \notin InUpdate
         \/ s # "unlock" /\ ph \in {"debit", "status"}
         \/ s # "unlock" /\ ph = "credit" /\ req'[t].op # "TRANSFER",
         marred \subseteq marred',
         \A u \in Threads \ {t} : req'[u] = req[u],
         UNCHANGED <<ok, transit>>
  PROVE  RollInv'
<1>0. TypeOK
  BY DEF TypeInv
<1>1. transit[t] = 0
  BY DEF CarryInv, Carrying, Owing, InUpdate
<1>2. Rolling(s, ph, req'[t], ok'[t], transit'[t], marred')
  BY <1>1 DEF Rolling, InUpdate
<1> QED BY <1>0, <1>2, RollFrame

\* The steps of a thread.
LEMMA ThreadRolls ==
  ASSUME TypeInv, CarryInv, RollInv, NEW t \in Threads, marred \subseteq marred',
         \/ Receive(t) \/ HandlerStep(t)
         \/ OpenFails(t) \/ LockFails(t) \/ IoFails(t)
  PROVE  RollInv'
<1> USE DEF db, locks, counts, ghosts
<1>0. /\ TypeOK
      /\ Rolling(pc[t], phase[t], req[t], ok[t], transit[t], marred)
      /\ Carrying(pc[t], phase[t], req[t], ok[t], transit[t])
      /\ ok[t] \in BOOLEAN
  BY DEF TypeInv, TypeOK, CarryInv, RollInv
<1>1. CASE Receive(t)
  <2>1. PICK r \in Requests :
          /\ req' = [req EXCEPT ![t] = r]
          /\ \/ deposit_money(t, r)
             \/ withdraw_money(t, r)
             \/ transfer_funds(t, r)
             \/ disburse_loan(t, r)
             \/ set_account_status(t, r)
             \/ view_balance(t, r)
             \/ view_transaction_history(t, r)
    BY <1>1 DEF Receive
  <2>2. req'[t] = r /\ \A u \in Threads \ {t} : req'[u] = req[u]
    BY <1>0, <2>1 DEF TypeOK
  <2>3. transit[t] = 0 /\ UNCHANGED <<ok, transit, marred>>
    BY <1>0, <1>1 DEF Receive, Carrying, Owing, InUpdate
  <2>4. PICK s, ph : Goto(t, s, ph) /\ Rolling(s, ph, r, ok[t], 0, marred)
    BY <2>1 DEF deposit_money, withdraw_money, transfer_funds, disburse_loan,
                set_account_status, view_balance, view_transaction_history,
                Rolling, InUpdate
  <2> QED BY <1>0, <2>2, <2>3, <2>4, RollFrame
<1>2. CASE Find(t)
  <2>1. CASE Target(t) \notin Accounts /\ UpdateReturns(t, FALSE)
    <3>1. pc[t] = "find" /\ phase[t] # "undo"
      BY <1>0, <1>2, <2>1 DEF Find, Rolling, Carrying, InUpdate, Target
    <3> QED BY <1>2, <2>1, <3>1, UpdateReturnsRoll DEF Find
  <2>2. CASE Goto(t, "lock", phase[t]) /\ UNCHANGED <<tmp, ok>>
    <3>1. Rolling("lock", phase[t], req[t], ok[t], transit[t], marred)
      BY <1>0, <1>2 DEF Find, Rolling, InUpdate
    <3> QED BY <1>0, <1>2, <2>2, <3>1, RollFrame DEF Find
  <2> QED BY <1>2, <2>1, <2>2 DEF Find
<1>3. CASE LockRecord(t)
  <2>1. Rolling("read", phase[t], req[t], ok[t], transit[t], marred)
    BY <1>0, <1>3 DEF LockRecord, Rolling, InUpdate
  <2> QED BY <1>0, <1>3, <2>1, RollFrame DEF LockRecord
<1>4. CASE Read(t)
  <2>1. UNCHANGED <<req, transit>> /\ \A u \in Threads \ {t} : ok'[u] = ok[u]
    BY <1>0, <1>4 DEF Read, TypeOK
  <2>2. CASE Accepts(phase[t], accounts[Target(t)], req[t])
    <3>1. Goto(t, "write", phase[t]) /\ ok' = ok
      BY <1>4, <2>2 DEF Read
    <3>2. Rolling("write", phase[t], req[t], ok[t], transit[t], marred')
      BY <1>0, <1>4 DEF Read, Rolling, InUpdate
    <3> QED BY <1>0, <2>1, <3>1, <3>2, RollFrame
  <2>3. CASE ~Accepts(phase[t], accounts[Target(t)], req[t])
    <3>1. Goto(t, "unlock", phase[t]) /\ ok'[t] = FALSE
      BY <1>0, <1>4, <2>3 DEF Read, TypeOK
    <3>2. phase[t] = "undo" => req[t].from \in marred'
      BY <1>4, <2>3 DEF Read, Accepts, Target
    <3>3. Rolling("unlock", phase[t], req[t], FALSE, transit[t], marred')
      BY <1>0, <1>4, <3>2 DEF Read, Rolling, InUpdate
    <3> QED BY <1>0, <2>1, <3>1, <3>3, RollFrame
  <2> QED BY <2>2, <2>3
<1>5. CASE Write(t)
  <2>1. Rolling("unlock", phase[t], req[t], TRUE, Holding(t), marred)
    BY <1>0, <1>5 DEF Write, Rolling, InUpdate
  <2>2. /\ ok'[t] = TRUE /\ transit'[t] = Holding(t) /\ UNCHANGED <<req, marred>>
        /\ \A u \in Threads \ {t} : ok'[u] = ok[u] /\ transit'[u] = transit[u]
    BY <1>0, <1>5 DEF Write, TypeOK
  <2> QED BY <1>0, <1>5, <2>1, <2>2, RollFrame DEF Write
<1>6. CASE Unlock(t)
  BY <1>0, <1>6, UpdateReturnsRoll DEF Unlock
<1>7. CASE CheckRecipient(t) \/ Inspect(t) \/ ReadHistory(t) \/ SeekEnd(t)
  BY <1>7, GotoRoll DEF CheckRecipient, Inspect, ReadHistory, SeekEnd, InUpdate
<1>8. CASE AppendRecord(t)
  BY <1>8, GotoRoll DEF AppendRecord, AppendReturns, InUpdate
<1>9. CASE Reply(t)
  <2>1. Rolling("recv", "none", NoRequest, FALSE, 0, marred)
    BY DEF Rolling, InUpdate
  <2>2. /\ req'[t] = NoRequest /\ ok'[t] = FALSE /\ transit'[t] = 0 /\ marred' = marred
        /\ \A u \in Threads \ {t} :
             req'[u] = req[u] /\ ok'[u] = ok[u] /\ transit'[u] = transit[u]
    BY <1>0, <1>9 DEF Reply, TypeOK
  <2> QED BY <1>0, <1>9, <2>1, <2>2, RollFrame DEF Reply
<1>10. CASE OpenFails(t)
  <2>1. CASE pc[t] \in {"find", "lock"} /\ UpdateReturns(t, FALSE)
    <3>1. phase[t] = "undo" => req[t].from \in marred'
      BY <1>10 DEF OpenFails, AtStake
    <3> QED BY <1>10, <2>1, <3>1, UpdateReturnsRoll DEF OpenFails
  <2>2. CASE pc[t] \in {"check", "inspect", "history"} /\ Goto(t, "reply", "none") /\ UNCHANGED ok
    BY <1>10, <2>2, GotoRoll DEF OpenFails, InUpdate
  <2>3. CASE pc[t] = "seek" /\ AppendReturns(t) /\ UNCHANGED ok
    BY <1>10, <2>3, GotoRoll DEF OpenFails, AppendReturns, InUpdate
  <2> QED BY <1>10, <2>1, <2>2, <2>3 DEF OpenFails
<1>11. CASE LockFails(t)
  <2>1. CASE pc[t] = "lock" /\ UpdateReturns(t, FALSE) /\ marred' = marred \cup AtStake(t)
    <3>1. phase[t] = "undo" => req[t].from \in marred'
      BY <2>1 DEF AtStake
    <3> QED BY <1>11, <2>1, <3>1, UpdateReturnsRoll DEF LockFails
  <2>2. CASE pc[t] = "seek" /\ Goto(t, "append", phase[t]) /\ UNCHANGED ok
    BY <1>11, <2>2, GotoRoll DEF LockFails, InUpdate
  <2> QED BY <1>11, <2>1, <2>2 DEF LockFails
<1>12. CASE IoFails(t)
  <2>1. CASE /\ pc[t] \in {"read", "write"}
             /\ ok' = [ok EXCEPT ![t] = FALSE]
             /\ Goto(t, "unlock", phase[t])
    <3>1. phase[t] = "undo" => req[t].from \in marred'
      BY <1>12 DEF IoFails, AtStake
    <3>2. Rolling("unlock", phase[t], req[t], FALSE, transit[t], marred')
      BY <1>0, <2>1, <3>1 DEF Rolling, InUpdate
    <3>3. ok'[t] = FALSE /\ \A u \in Threads \ {t} : ok'[u] = ok[u]
      BY <1>0, <2>1 DEF TypeOK
    <3> QED BY <1>0, <1>12, <2>1, <3>2, <3>3, RollFrame DEF IoFails
  <2>2. CASE pc[t] = "append" /\ AppendReturns(t) /\ UNCHANGED ok
    BY <1>12, <2>2, GotoRoll DEF IoFails, AppendReturns, InUpdate
  <2> QED BY <1>12, <2>1, <2>2 DEF IoFails
<1> QED BY <1>1, <1>2, <1>3, <1>4, <1>5, <1>6, <1>7, <1>8, <1>9, <1>10, <1>11, <1>12
        DEF HandlerStep

\* The facts about the money of transfers.
WholeInv == CarryInv /\ RollInv

\* Every step keeps them.
LEMMA NextWhole ==
  ASSUME TypeInv, WholeInv, [Next]_vars
  PROVE  WholeInv'
<1> USE DEF db, locks, counts, ghosts
<1>1. CarryInv'
  BY NextCarries DEF WholeInv
<1>2. marred \subseteq marred'
  BY MarredGrows
<1>3. RollInv'
  <2>1. CASE UNCHANGED vars
    BY <2>1 DEF vars, WholeInv, RollInv
  <2>2. ASSUME NEW p \in Procs, Exit(p) PROVE RollInv'
    <3> SUFFICES ASSUME NEW u \in Threads
                 PROVE  Rolling(pc'[u], phase'[u], req'[u], ok'[u], transit'[u], marred')
      BY DEF RollInv
    <3>1. CASE ProcOf[u] = p
      BY <2>2, <3>1 DEF Exit, Rolling, InUpdate
    <3>2. CASE ProcOf[u] # p
      <4>1. /\ pc'[u] = pc[u] /\ phase'[u] = phase[u] /\ req'[u] = req[u]
            /\ ok'[u] = ok[u] /\ transit'[u] = transit[u]
        BY <2>2, <3>2 DEF Exit
      <4>2. Rolling(pc[u], phase[u], req[u], ok[u], transit[u], marred)
        BY DEF WholeInv, RollInv
      <4> QED BY <1>2, <4>1, <4>2 DEF Rolling
    <3> QED BY <3>1, <3>2
  <2> QED BY <1>2, <2>1, <2>2, ThreadRolls DEF Next, WholeInv
<1> QED BY <1>1, <1>3 DEF WholeInv

\* Nothing is under way at the start.
LEMMA InitWhole == Init => WholeInv
<1> SUFFICES ASSUME Init PROVE WholeInv  OBVIOUS
<1>1. RollInv
  BY DEF Init, RollInv, Rolling, InUpdate
<1> QED BY <1>1, InitCarries DEF WholeInv

\* However many threads share a process, whatever calls fail, whichever
\* accounts managers deactivate and wherever servers exit, a transfer that is
\* answered keeps what it took only if transfer_funds() tried the rollback
\* and a call of the rollback failed, or the rollback found the sender's own
\* account deactivated.
THEOREM TransfersMadeGood == Spec => []KeptOnlyIfFoiled
<1>1. Init => WholeInv
  BY InitWhole
<1>2. TypeInv /\ WholeInv /\ [Next]_vars => WholeInv'
  BY NextWhole
<1>3. Spec => []TypeInv
  BY TypeCorrect, PTL DEF TypeInv
<1>4. WholeInv => KeptOnlyIfFoiled
  BY DEF WholeInv, RollInv, Rolling, KeptOnlyIfFoiled
<1> QED BY <1>1, <1>2, <1>3, <1>4, PTL DEF Spec

-----------------------------------------------------------------------------
(* The history accounts for the balances.                                  *)

\* What the records of a log tell the owner of account a together.
Told(log, a) == MapThenSumSet(LAMBDA i : HistoryEffect(log[i].entry, a), 1..Len(log))

Effects(log, a) == [i \in 1..Len(log) |-> HistoryEffect(log[i].entry, a)]

\* The history of Ledger, before and after a step.
LEMMA Histories ==
  ASSUME NEW a
  PROVE  /\ HistoryBalance(a) = Opening[a] + Told(txns, a)
         /\ HistoryBalance(a)' = Opening[a] + Told(txns', a)
BY DEF HistoryBalance, Told, HistoryEffect, MapThenSumSet, MapThenFoldSet

\* What a log tells as a sum of a function.
LEMMA ToldSum ==
  ASSUME NEW log, NEW a, Len(log) \in Nat
  PROVE  Told(log, a) = Sum(Effects(log, a), 1..Len(log))
<1> DEFINE D == 1..Len(log)
           f == [i \in D |-> HistoryEffect(log[i].entry, a)]
           Telling(g) == g = [s \in SUBSET D |->
                               IF s = {} THEN 0
                               ELSE HistoryEffect(log[Pick(s)].entry, a) + g[s \ {Pick(s)}]]
           m == CHOOSE g : Telling(g)
<1>0. IsFiniteSet(D)
  BY FS_Interval
<1>1. Told(log, a) = m[D]
  BY DEF Told, MapThenSumSet, MapThenFoldSet, Pick
<1>2. ASSUME NEW g PROVE Telling(g) <=> Adds(g, f, D)
  <2>1. \A s \in SUBSET D : s # {} => f[Pick(s)] = HistoryEffect(log[Pick(s)].entry, a)
    <3> HIDE DEF D
    <3> QED BY PickIn
  <2>2. [s \in SUBSET D |->
           IF s = {} THEN 0 ELSE HistoryEffect(log[Pick(s)].entry, a) + g[s \ {Pick(s)}]]
        = [s \in SUBSET D |-> IF s = {} THEN 0 ELSE f[Pick(s)] + g[s \ {Pick(s)}]]
    <3> HIDE DEF f, D
    <3> QED BY <2>1
  <2> HIDE DEF f, D
  <2> QED BY <2>2 DEF Adds
<1>3. \E g : Adds(g, f, D)
  <2> HIDE DEF f, D
  <2> QED BY <1>0, AddsExists
<1>4. Adds(m, f, D)
  <2> HIDE DEF f, D
  <2>1. \E g : Telling(g)
    <3> HIDE DEF Telling
    <3> QED BY <1>2, <1>3
  <2>2. Telling(m)
    <3> HIDE DEF Telling
    <3> QED BY <2>1
  <2> HIDE DEF m, Telling
  <2> QED BY <1>2, <2>2
<1>5. Effects(log, a) = f
  BY DEF Effects
<1>6. Sum(f, D) = m[D]
  <2> HIDE DEF m, f, D
  <2> QED BY <1>0, <1>4, SumAdds
<1> HIDE DEF m, f
<1> QED BY <1>1, <1>5, <1>6

\* What a record tells is a number.
LEMMA EffectInt ==
  ASSUME NEW e, e.amount \in Int, NEW a
  PROVE  HistoryEffect(e, a) \in Int
BY DEF HistoryEffect

\* A record appended to a log adds what it tells.
LEMMA ToldAppend ==
  ASSUME NEW log \in Seq(TxnRec), NEW rec \in TxnRec, NEW a
  PROVE  /\ Told(log, a) \in Int
         /\ Told(Append(log, rec), a) = Told(log, a) + HistoryEffect(rec.entry, a)
<1> DEFINE n == Len(log)
           new == Append(log, rec)
           f == Effects(log, a)
           h == Effects(new, a)
<1>1. n \in Nat /\ Len(new) = n + 1
  OBVIOUS
<1>2. /\ \A i \in 1..n : new[i] = log[i] /\ log[i] \in TxnRec
      /\ new[n + 1] = rec
  OBVIOUS
<1>3. \A r \in TxnRec : HistoryEffect(r.entry, a) \in Int
  <2> SUFFICES ASSUME NEW r \in TxnRec PROVE HistoryEffect(r.entry, a) \in Int
    OBVIOUS
  <2>1. r.entry.amount \in Int
    BY AmountsAssumption DEF TxnRec, TxnEntries
  <2> QED BY <2>1, EffectInt
<1> HIDE DEF n, new
<1>4. \A i \in 1..(n + 1) : i \in 1..n \/ i = n + 1
  BY <1>1
<1>5. \A i \in 1..n : i \in 1..(n + 1)
  BY <1>1
<1>6. \A i \in 1..n : f[i] = HistoryEffect(log[i].entry, a)
  BY DEF Effects, n
<1>7. \A i \in 1..(n + 1) : h[i] = HistoryEffect(new[i].entry, a)
  BY <1>1 DEF Effects
<1> HIDE DEF f, h
<1>8. \A i \in 1..(n + 1) : h[i] \in Int
  BY <1>2, <1>3, <1>4, <1>7
<1>9. \A i \in 1..n : f[i] = h[i] /\ f[i] \in Int
  BY <1>2, <1>3, <1>5, <1>6, <1>7
<1>10. Sum(h, 1..(n + 1)) = Sum(f, 1..n) + h[n + 1]
  BY <1>1, <1>8, <1>9, SumNext
<1>11. h[n + 1] = HistoryEffect(rec.entry, a)
  BY <1>1, <1>2, <1>7
<1>12. Told(log, a) = Sum(f, 1..n)
  BY <1>1, ToldSum DEF f, n
<1>13. Told(new, a) = Sum(h, 1..(n + 1))
  BY <1>1, ToldSum DEF h
<1>14. Sum(f, 1..n) \in Int
  <2>1. IsFiniteSet(1..n)
    BY <1>1, FS_Interval
  <2> QED BY <1>9, <2>1, SumInt
<1> QED BY <1>10, <1>11, <1>12, <1>13, <1>14 DEF new

\* An empty log tells nothing.
LEMMA ToldEmpty ==
  ASSUME NEW a
  PROVE  Told(<< >>, a) = 0
<1>1. 1..Len(<< >>) = {} /\ Len(<< >>) \in Nat
  OBVIOUS
<1>2. Sum(Effects(<< >>, a), {}) = 0
  BY SumEmpty
<1> QED BY <1>1, <1>2, ToldSum

\* A request has taken money from its sender that the log does not tell of:
\* it is owed, or has been written, or is about to be logged.
Taken(s, ph, r, done) ==
  \/ Owing(s, ph, r, done)
  \/ s = "unlock" /\ ph = "debit" /\ done
  \/ s = "unlock" /\ ph = "credit" /\ done /\ r.op = "TRANSFER"
  \/ s \in {"seek", "append"} /\ ph \in {"withdraw", "transfer_out"}

\* A request has paid its recipient and the log does not tell.
Given(s, ph, done) ==
  \/ s = "unlock" /\ ph = "credit" /\ done
  \/ /\ s \in {"seek", "append"}
     /\ ph \in {"deposit", "loan_deposit", "transfer_out", "transfer_in"}

\* What a request has done to account a that is not in the log.
Untold(s, ph, r, done, a) ==
  (IF Given(s, ph, done) /\ r.to = a THEN r.amount ELSE 0)
  - (IF Taken(s, ph, r, done) /\ r.from = a THEN r.amount ELSE 0)

Pending(a) == [t \in Threads |-> Untold(pc[t], phase[t], req[t], ok[t], a)]

\* The requests that each update belongs to.
Kind(s, ph, r) ==
  /\ s = "check" => r.op \in {"TRANSFER", "APPROVE_LOAN"}
  /\ s \in InUpdate /\ ph = "credit" => r.op \in {"DEPOSIT", "APPROVE_LOAN", "TRANSFER"}
  /\ s \in InUpdate /\ ph = "debit" => r.op \in {"WITHDRAW", "TRANSFER"}

KindInv == \A t \in Threads : Kind(pc[t], phase[t], req[t])

\* The balance is what the history tells and what is not yet told, unless a
\* rollback or a log record of the account failed.
TellInv ==
  \A a \in Accounts \ marred :
    accounts[a].balance = HistoryBalance(a) + Sum(Pending(a), Threads)

\* Amounts are numbers, so is what is not told of them.
LEMMA UntoldInt ==
  ASSUME NEW s, NEW ph, NEW r, r.amount \in Int, NEW done, NEW a
  PROVE  Untold(s, ph, r, done, a) \in Int
BY DEF Untold

\* A step of one thread changes what is not told by what it does itself.
LEMMA PendingChange ==
  ASSUME TypeOK, NEW t \in Threads, NEW s, NEW ph, Goto(t, s, ph),
         \A u \in Threads \ {t} : req'[u] = req[u] /\ ok'[u] = ok[u],
         req'[t].amount \in Int, NEW a
  PROVE  /\ Sum(Pending(a), Threads) \in Int
         /\ Sum(Pending(a)', Threads) =
              Sum(Pending(a), Threads) + (Untold(s, ph, req'[t], ok'[t], a)
                                          - Untold(pc[t], phase[t], req[t], ok[t], a))
<1> DEFINE f == Pending(a)
           h == [u \in Threads |-> Untold(pc'[u], phase'[u], req'[u], ok'[u], a)]
<1>0. Pending(a)' = h
  BY DEF Pending, Untold, Given, Taken, Owing
<1>1. \A u \in Threads : req[u].amount \in Int
  BY RequestFields DEF TypeOK, NoRequest
<1>2. \A u \in Threads : f[u] = Untold(pc[u], phase[u], req[u], ok[u], a) /\ f[u] \in Int
  BY <1>1, UntoldInt DEF Pending
<1>3. pc'[t] = s /\ phase'[t] = ph
  BY DEF Goto, TypeOK
<1>4. \A u \in Threads \ {t} :
        /\ pc'[u] = pc[u] /\ phase'[u] = phase[u]
        /\ req'[u] = req[u] /\ ok'[u] = ok[u]
  BY DEF Goto, TypeOK
<1>5. h[t] = Untold(s, ph, req'[t], ok'[t], a) /\ h[t] \in Int
  BY <1>3, UntoldInt
<1>6. \A u \in Threads \ {t} : f[u] = h[u]
  BY <1>2, <1>4
<1> HIDE DEF f, h
<1>7. \A u \in Threads : f[u] \in Int /\ h[u] \in Int
  BY <1>2, <1>5, <1>6
<1>8. Sum(h, Threads) = Sum(f, Threads) + (h[t] - f[t])
  BY <1>6, <1>7, SumChange, FiniteAssumption
<1>9. Sum(f, Threads) \in Int
  BY <1>7, SumInt, FiniteAssumption
<1> QED BY <1>0, <1>2, <1>5, <1>8, <1>9 DEF f

\* What a log tells is a number.
LEMMA ToldInt ==
  ASSUME NEW log \in Seq(TxnRec), NEW a
  PROVE  Told(log, a) \in Int
<1>1. Len(log) \in Nat /\ \A i \in 1..Len(log) : log[i] \in TxnRec
  OBVIOUS
<1>2. ASSUME NEW i \in 1..Len(log) PROVE Effects(log, a)[i] \in Int
  <2>1. log[i].entry.amount \in Int
    BY <1>1, AmountsAssumption DEF TxnRec, TxnEntries
  <2>2. Effects(log, a)[i] = HistoryEffect(log[i].entry, a)
    BY DEF Effects
  <2> QED BY <2>1, <2>2, EffectInt
<1>3. IsFiniteSet(1..Len(log))
  BY <1>1, FS_Interval
<1>4. Sum(Effects(log, a), 1..Len(log)) \in Int
  BY <1>2, <1>3, SumInt
<1> QED BY <1>1, <1>4, ToldSum

\* A step keeps the account if what it adds to the balance is what it adds to
\* the history and to what is not told.
LEMMA TellFrame ==
  ASSUME TypeInv, TypeInv', TellInv, NEW t \in Threads, NEW s, NEW ph, Goto(t, s, ph),
         \A u \in Threads \ {t} : req'[u] = req[u] /\ ok'[u] = ok[u],
         req'[t].amount \in Int, marred \subseteq marred',
         \A a \in Accounts \ marred' :
           \E d, e \in Int :
             /\ accounts'[a].balance = accounts[a].balance + d
             /\ Told(txns', a) = Told(txns, a) + e
             /\ d = e + (Untold(s, ph, req'[t], ok'[t], a)
                         - Untold(pc[t], phase[t], req[t], ok[t], a))
  PROVE  TellInv'
<1> SUFFICES ASSUME NEW a \in Accounts \ marred'
             PROVE  accounts'[a].balance = HistoryBalance(a)' + Sum(Pending(a)', Threads)
  BY DEF TellInv
<1> DEFINE new == Untold(s, ph, req'[t], ok'[t], a)
           old == Untold(pc[t], phase[t], req[t], ok[t], a)
<1>1. PICK d, e \in Int : /\ accounts'[a].balance = accounts[a].balance + d
                          /\ Told(txns', a) = Told(txns, a) + e
                          /\ d = e + (new - old)
  OBVIOUS
<1>2. /\ Sum(Pending(a), Threads) \in Int
      /\ Sum(Pending(a)', Threads) = Sum(Pending(a), Threads) + (new - old)
  BY PendingChange DEF TypeInv
<1>3. new \in Int /\ old \in Int
  <2>1. req[t].amount \in Int
    BY RequestFields DEF TypeInv, TypeOK, NoRequest
  <2> QED BY <2>1, UntoldInt
<1>4. Told(txns, a) \in Int
  BY ToldInt DEF TypeInv, TypeOK
<1>5. Opening[a] \in Int
  BY OpeningAssumption
<1>6. accounts[a].balance = (Opening[a] + Told(txns, a)) + Sum(Pending(a), Threads)
  BY Histories DEF TellInv
<1>7. HistoryBalance(a)' = Opening[a] + (Told(txns, a) + e)
  BY <1>1, Histories
<1> HIDE DEF new, old
<1>8. accounts[a].balance + d =
        (Opening[a] + (Told(txns, a) + e)) + (Sum(Pending(a), Threads) + (new - old))
  BY <1>1, <1>2, <1>3, <1>4, <1>5, <1>6
<1> QED BY <1>1, <1>2, <1>7, <1>8

\* A step of one thread leaves the others where they are.
LEMMA KindFrame ==
  ASSUME TypeOK, KindInv, NEW t \in Threads, NEW s, NEW ph, Goto(t, s, ph),
         \A u \in Threads \ {t} : req'[u] = req[u],
         Kind(s, ph, req'[t])
  PROVE  KindInv'
<1> SUFFICES ASSUME NEW u \in Threads PROVE Kind(pc'[u], phase'[u], req'[u])
  BY DEF KindInv
<1>1. CASE u = t
  BY <1>1 DEF Goto, TypeOK
<1>2. CASE u # t
  <2>1. pc'[u] = pc[u] /\ phase'[u] = phase[u]
    BY <1>2 DEF Goto, TypeOK
  <2> QED BY <1>2, <2>1 DEF KindInv
<1> QED BY <1>1, <1>2

\* A jump that writes nothing, of a request that stays as far as it is, except
\* towards an account that is marred.
LEMMA QuietTells ==
  ASSUME TypeInv, TypeInv', KindInv, TellInv,
         NEW t \in Threads, NEW s, NEW ph, Goto(t, s, ph),
         \A u \in Threads \ {t} : req'[u] = req[u] /\ ok'[u] = ok[u],
         UNCHANGED <<accounts, txns>>, Kind(s, ph, req'[t]), marred \subseteq marred',
         \/ /\ req'[t] = req[t]
            /\ \/ req[t].to \in marred'
               \/ Given(s, ph, ok'[t]) <=> Given(pc[t], phase[t], ok[t])
            /\ \/ req[t].from \in marred'
               \/ Taken(s, ph, req[t], ok'[t]) <=> Taken(pc[t], phase[t], req[t], ok[t])
         \/ /\ ~Given(s, ph, ok'[t]) /\ ~Given(pc[t], phase[t], ok[t])
            /\ ~Taken(s, ph, req'[t], ok'[t]) /\ ~Taken(pc[t], phase[t], req[t], ok[t])
  PROVE  KindInv' /\ TellInv'
<1>0. TypeOK
  BY DEF TypeInv
<1>1. req[t].amount \in Int /\ req'[t].amount \in Int
  BY RequestFields DEF TypeInv, TypeOK, NoRequest
<1>2. ASSUME NEW a \in Accounts \ marred'
      PROVE  \E d, e \in Int :
               /\ accounts'[a].balance = accounts[a].balance + d
               /\ Told(txns', a) = Told(txns, a) + e
               /\ d = e + (Untold(s, ph, req'[t], ok'[t], a)
                           - Untold(pc[t], phase[t], req[t], ok[t], a))
  <2>1. Untold(s, ph, req'[t], ok'[t], a) = Untold(pc[t], phase[t], req[t], ok[t], a)
    BY DEF Untold
  <2>2. accounts[a].balance \in Int /\ Told(txns, a) \in Int
    BY <1>0, ToldInt DEF TypeOK, AccountRec
  <2>3. Untold(pc[t], phase[t], req[t], ok[t], a) \in Int
    BY <1>1, UntoldInt
  <2> WITNESS 0 \in Int, 0 \in Int
  <2> QED BY <2>1, <2>2, <2>3
<1>3. TellInv'
  BY <1>1, <1>2, TellFrame
<1> QED BY <1>0, <1>3, KindFrame

\* A return of atomic_update_account() tells nothing and forgets nothing: a
\* rollback that was needed was written, or its sender is marred.
LEMMA UpdateReturnsTells ==
  ASSUME TypeInv, TypeInv', CarryInv, RollInv, KindInv, TellInv,
         NEW t \in Threads, NEW done \in BOOLEAN,
         pc[t] \in {"find", "lock", "unlock"},
         pc[t] = "unlock" => done = ok[t],
         pc[t] # "unlock" => done = FALSE,
         pc[t] # "unlock" /\ phase[t] = "undo" => req[t].from \in marred',
         marred \subseteq marred',
         UpdateReturns(t, done), UNCHANGED <<accounts, txns, req>>
  PROVE  KindInv' /\ TellInv'
<1>0. TypeOK
  BY DEF TypeInv
<1>1. phase[t] \in Updates /\ ok[t] \in BOOLEAN /\ pc[t] \in InUpdate
  BY DEF TypeInv, TypeOK, Flow, Flowing, InUpdate
<1>2. \A u \in Threads \ {t} : req'[u] = req[u] /\ ok'[u] = ok[u]
  BY <1>0 DEF UpdateReturns, TypeOK
<1>3. /\ Rolling(pc[t], phase[t], req[t], ok[t], transit[t], marred)
      /\ Carrying(pc[t], phase[t], req[t], ok[t], transit[t])
      /\ Kind(pc[t], phase[t], req[t])
  BY DEF RollInv, CarryInv, KindInv
<1>4. ok'[t] \in BOOLEAN
  BY <1>0 DEF TypeInv, TypeOK
<1>5. PICK s, ph :
        /\ Goto(t, s, ph)
        /\ Kind(s, ph, req[t])
        /\ Given(s, ph, ok'[t]) <=> Given(pc[t], phase[t], ok[t])
        /\ \/ req[t].from \in marred'
           \/ Taken(s, ph, req[t], ok'[t]) <=> Taken(pc[t], phase[t], req[t], ok[t])
  <2>1. CASE phase[t] = "status"
    <3>1. Goto(t, "reply", "status")
      BY <2>1 DEF UpdateReturns
    <3> QED BY <1>1, <2>1, <3>1 DEF Kind, Given, Taken, Owing, InUpdate
  <2>2. CASE phase[t] = "undo"
    <3>1. Goto(t, "reply", "undo")
      BY <2>2 DEF UpdateReturns
    <3>2. CASE pc[t] = "unlock" /\ ok[t]
      BY <2>2, <3>1, <3>2 DEF Kind, Given, Taken, Owing, InUpdate
    <3>3. CASE ~(pc[t] = "unlock" /\ ok[t])
      <4>1. req[t].from \in marred'
        BY <1>3, <2>2, <3>3 DEF Rolling
      <4> QED BY <2>2, <3>1, <4>1 DEF Kind, Given, InUpdate
    <3> QED BY <3>2, <3>3
  <2>3. CASE phase[t] = "debit" /\ done
    <3>1. pc[t] = "unlock" /\ ok[t] /\ req[t].op \in {"WITHDRAW", "TRANSFER"}
      BY <1>1, <1>3, <2>3 DEF Kind, InUpdate
    <3>2. CASE req[t].op = "TRANSFER"
      <4>1. Goto(t, "find", "credit")
        BY <2>3, <3>2 DEF UpdateReturns
      <4> QED BY <2>3, <3>1, <3>2, <4>1 DEF Kind, Given, Taken, Owing, InUpdate
    <3>3. CASE req[t].op = "WITHDRAW"
      <4>1. Goto(t, "seek", "withdraw")
        BY <2>3, <3>3 DEF UpdateReturns, FirstNarration
      <4> QED BY <2>3, <3>1, <3>3, <4>1 DEF Kind, Given, Taken, Owing, InUpdate
    <3> QED BY <3>1, <3>2, <3>3
  <2>4. CASE phase[t] = "debit" /\ ~done
    <3>1. Goto(t, "inspect", "none")
      BY <2>4 DEF UpdateReturns
    <3> QED BY <1>1, <2>4, <3>1 DEF Kind, Given, Taken, Owing, InUpdate
  <2>5. CASE phase[t] = "credit" /\ done
    <3>1. pc[t] = "unlock" /\ ok[t] /\ req[t].op \in {"DEPOSIT", "APPROVE_LOAN", "TRANSFER"}
      BY <1>1, <1>3, <2>5 DEF Kind, InUpdate
    <3>2. Goto(t, "seek", FirstNarration(req[t].op))
      BY <2>5 DEF UpdateReturns
    <3>3. CASE req[t].op = "TRANSFER"
      <4>1. Goto(t, "seek", "transfer_out")
        BY <3>2, <3>3 DEF FirstNarration
      <4> QED BY <2>5, <3>1, <3>3, <4>1 DEF Kind, Given, Taken, Owing, InUpdate
    <3>4. CASE req[t].op # "TRANSFER"
      <4>1. PICK ph \in {"deposit", "loan_deposit"} : Goto(t, "seek", ph)
        BY <3>1, <3>2, <3>4 DEF FirstNarration
      <4> QED BY <2>5, <3>1, <3>4, <4>1 DEF Kind, Given, Taken, Owing, InUpdate
    <3> QED BY <3>3, <3>4
  <2>6. CASE phase[t] = "credit" /\ ~done
    <3>1. CASE req[t].op = "TRANSFER"
      <4>1. Goto(t, "find", "undo")
        BY <2>6, <3>1 DEF UpdateReturns
      <4> QED BY <1>1, <2>6, <3>1, <4>1 DEF Kind, Given, Taken, Owing, InUpdate
    <3>2. CASE req[t].op # "TRANSFER"
      <4>1. PICK s : s \in {"reply", "inspect"} /\ Goto(t, s, "none")
        BY <2>6, <3>2 DEF UpdateReturns
      <4> QED BY <1>1, <2>6, <3>2, <4>1 DEF Kind, Given, Taken, Owing, InUpdate
    <3> QED BY <3>1, <3>2
  <2> QED BY <1>1, <2>1, <2>2, <2>3, <2>4, <2>5, <2>6 DEF Updates
<1> QED BY <1>2, <1>5, QuietTells

\* write() of a record: the balance changes by what is not told any more, or
\* not told yet.
LEMMA WriteTells ==
  ASSUME TypeInv, TypeInv', CarryInv, KindInv, UpdateIsolated, TellInv,
         marred \subseteq marred', NEW t \in Threads, Write(t)
  PROVE  KindInv' /\ TellInv'
<1> USE DEF db, locks, counts, ghosts
<1> DEFINE b   == Target(t)
           amt == req[t].amount
           rec == Modified(phase[t], accounts[b], req[t])
           gain == CASE phase[t] = "status" -> 0
                     [] phase[t] = "debit"  -> 0 - amt
                     [] OTHER               -> amt
<1>0. TypeOK
  BY DEF TypeInv
<1>1. b \in Accounts /\ phase[t] \in Updates /\ req[t] \in Requests
  BY DEF Write, TypeInv, Flow, Flowing, InUpdate, Target
<1>2. amt \in Int
  BY <1>1, RequestFields
<1>3. accounts \in [Accounts -> AccountRec] /\ accounts[b] \in AccountRec
  BY <1>0, <1>1 DEF TypeOK
<1>4. accounts' = [accounts EXCEPT ![b] = rec]
  BY DEF Write, UpdateIsolated
<1>5. rec.balance = accounts[b].balance + gain /\ gain \in Int
  BY <1>2, <1>3 DEF Modified, AccountRec
<1>6. /\ UNCHANGED <<txns, req>> /\ ok'[t] = TRUE
      /\ \A u \in Threads \ {t} : req'[u] = req[u] /\ ok'[u] = ok[u]
  BY <1>0 DEF Write, TypeOK
<1>7. Goto(t, "unlock", phase[t]) /\ pc[t] = "write"
  BY DEF Write
<1>8. Kind("write", phase[t], req[t]) /\ (phase[t] = "undo" => req[t].op = "TRANSFER")
  BY <1>7 DEF KindInv, CarryInv, Carrying, InUpdate
<1>9. ASSUME NEW a \in Accounts
      PROVE  Untold("unlock", phase[t], req[t], TRUE, a)
               - Untold("write", phase[t], req[t], ok[t], a)
             = IF a = b THEN gain ELSE 0
  <2>1. CASE phase[t] = "status"
    BY <1>2, <2>1 DEF Untold, Given, Taken, Owing
  <2>2. CASE phase[t] = "debit"
    BY <1>2, <2>2 DEF Untold, Given, Taken, Owing, Target
  <2>3. CASE phase[t] = "credit" /\ req[t].op = "TRANSFER"
    BY <1>2, <2>3 DEF Untold, Given, Taken, Owing, InUpdate, Target
  <2>4. CASE phase[t] = "credit" /\ req[t].op # "TRANSFER"
    BY <1>2, <2>4 DEF Untold, Given, Taken, Owing, InUpdate, Target
  <2>5. CASE phase[t] = "undo"
    BY <1>2, <1>8, <2>5 DEF Untold, Given, Taken, Owing, InUpdate, Target
  <2> QED BY <1>1, <2>1, <2>2, <2>3, <2>4, <2>5 DEF Updates
<1> HIDE DEF rec, gain
<1>10. ASSUME NEW a \in Accounts
       PROVE  \E d, e \in Int :
                /\ accounts'[a].balance = accounts[a].balance + d
                /\ Told(txns', a) = Told(txns, a) + e
                /\ d = e + (Untold("unlock", phase[t], req'[t], ok'[t], a)
                            - Untold(pc[t], phase[t], req[t], ok[t], a))
  <2> DEFINE d == IF a = b THEN gain ELSE 0
  <2>1. d \in Int
    BY <1>5
  <2>2. accounts'[a].balance = accounts[a].balance + d
    BY <1>1, <1>3, <1>4, <1>5 DEF AccountRec
  <2>3. Told(txns', a) = Told(txns, a) + 0
    BY <1>0, <1>6, ToldInt DEF TypeOK
  <2>4. d = 0 + (Untold("unlock", phase[t], req'[t], ok'[t], a)
                 - Untold(pc[t], phase[t], req[t], ok[t], a))
    <3>1. Untold("unlock", phase[t], req'[t], ok'[t], a)
            - Untold(pc[t], phase[t], req[t], ok[t], a) = d
      BY <1>6, <1>7, <1>9
    <3> HIDE DEF d
    <3> QED BY <2>1, <3>1
  <2> HIDE DEF d
  <2> QED BY <2>1, <2>2, <2>3, <2>4
<1>11. req'[t].amount \in Int
  BY <1>2, <1>6
<1>12. TellInv'
  BY <1>6, <1>7, <1>10, <1>11, TellFrame
<1>13. KindInv'
  <2>1. Kind("unlock", phase[t], req'[t])
    BY <1>6, <1>8 DEF Kind, InUpdate
  <2> QED BY <1>0, <1>6, <1>7, <2>1, KindFrame
<1> QED BY <1>12, <1>13

\* write() of a log record: it tells what was not told.
LEMMA AppendTells ==
  ASSUME TypeInv, TypeInv', KindInv, TellInv, marred \subseteq marred',
         NEW t \in Threads, AppendRecord(t)
  PROVE  KindInv' /\ TellInv'
<1> USE DEF db, locks, counts, ghosts
<1> DEFINE entry == [from |-> req[t].from, to |-> req[t].to,
                     amount |-> req[t].amount, narration |-> phase[t]]
           rec == [id |-> newId[t], entry |-> entry]
<1>0. TypeOK
  BY DEF TypeInv
<1>1. /\ phase[t] \in Narrations
      /\ req[t] \in Requests
      /\ req[t].op \in MoneyOps
      /\ newId[t] \in Nat \ {0}
  BY DEF AppendRecord, TypeInv, Flow, Flowing
<1>2. req[t].amount \in Int
  BY <1>1, RequestFields
<1>3. rec \in TxnRec
  BY <1>1, RequestFields DEF TxnRec, TxnEntries
<1>4. txns' = Append(txns, rec) /\ txns \in Seq(TxnRec)
  BY <1>0 DEF AppendRecord, TypeOK
<1>5. rec.entry = entry
  OBVIOUS
<1>6. PICK s, ph : /\ Goto(t, s, ph)
                   /\ \/ phase[t] = "transfer_out" /\ s = "seek" /\ ph = "transfer_in"
                      \/ phase[t] # "transfer_out" /\ s = "reply" /\ ph = "none"
  BY DEF AppendRecord, AppendReturns
<1>7. UNCHANGED <<accounts, req, ok>> /\ pc[t] = "append"
  BY DEF AppendRecord
<1>8. ASSUME NEW a \in Accounts
      PROVE  0 = HistoryEffect(entry, a)
                 + (Untold(s, ph, req[t], ok[t], a) - Untold("append", phase[t], req[t], ok[t], a))
  <2>1. CASE phase[t] = "transfer_out"
    BY <1>2, <1>6, <2>1 DEF HistoryEffect, Untold, Given, Taken, Owing, InUpdate
  <2>2. CASE phase[t] = "withdraw"
    BY <1>2, <1>6, <2>2 DEF HistoryEffect, Untold, Given, Taken, Owing, InUpdate
  <2>3. CASE phase[t] \in {"deposit", "loan_deposit", "transfer_in"}
    BY <1>2, <1>6, <2>3 DEF HistoryEffect, Untold, Given, Taken, Owing, InUpdate
  <2> QED BY <1>1, <2>1, <2>2, <2>3 DEF Narrations
<1>9. entry.amount \in Int
  BY <1>2
<1> HIDE DEF entry
<1>10. ASSUME NEW a \in Accounts
       PROVE  \E d, e \in Int :
                /\ accounts'[a].balance = accounts[a].balance + d
                /\ Told(txns', a) = Told(txns, a) + e
                /\ d = e + (Untold(s, ph, req'[t], ok'[t], a)
                            - Untold(pc[t], phase[t], req[t], ok[t], a))
  <2>1. HistoryEffect(entry, a) \in Int
    BY <1>9, EffectInt
  <2>2. Told(txns', a) = Told(txns, a) + HistoryEffect(entry, a)
    <3> HIDE DEF rec
    <3> QED BY <1>3, <1>4, <1>5, ToldAppend
  <2>3. accounts'[a].balance = accounts[a].balance + 0
    BY <1>0, <1>7 DEF TypeOK, AccountRec
  <2>4. 0 = HistoryEffect(entry, a) + (Untold(s, ph, req'[t], ok'[t], a)
                                       - Untold(pc[t], phase[t], req[t], ok[t], a))
    BY <1>7, <1>8
  <2> QED BY <2>1, <2>2, <2>3, <2>4
<1>11. req'[t].amount \in Int
  BY <1>2, <1>7
<1>12. TellInv'
  BY <1>6, <1>7, <1>10, <1>11, TellFrame
<1>13. KindInv'
  <2>1. Kind(s, ph, req'[t])
    BY <1>6 DEF Kind, InUpdate
  <2> QED BY <1>0, <1>6, <1>7, <2>1, KindFrame
<1> QED BY <1>12, <1>13

\* A log record that is never written: what it would have told stays untold,
\* of the account that is marred by it.
LEMMA LostAppendTells ==
  ASSUME TypeInv, TypeInv', KindInv, TellInv, NEW t \in Threads,
         pc[t] \in {"seek", "append"}, AppendReturns(t),
         marred' = marred \cup AtStake(t), UNCHANGED <<accounts, txns, req, ok>>
  PROVE  KindInv' /\ TellInv'
<1>1. phase[t] \in Narrations
  BY DEF TypeInv, Flow, Flowing
<1>2. PICK s, ph : /\ Goto(t, s, ph)
                   /\ \/ phase[t] = "transfer_out" /\ s = "seek" /\ ph = "transfer_in"
                      \/ phase[t] # "transfer_out" /\ s = "reply" /\ ph = "none"
  BY DEF AppendReturns
<1>3. Kind(s, ph, req[t])
  BY <1>2 DEF Kind, InUpdate
<1>4. /\ \/ req[t].to \in marred'
         \/ Given(s, ph, ok'[t]) <=> Given(pc[t], phase[t], ok[t])
      /\ \/ req[t].from \in marred'
         \/ Taken(s, ph, req[t], ok'[t]) <=> Taken(pc[t], phase[t], req[t], ok[t])
  <2>1. CASE phase[t] = "transfer_out"
    BY <1>2, <2>1 DEF AtStake, Given, Taken, Owing, InUpdate
  <2>2. CASE phase[t] = "withdraw"
    BY <1>2, <2>2 DEF AtStake, Given, Taken, Owing, InUpdate
  <2>3. CASE phase[t] \in {"deposit", "loan_deposit", "transfer_in"}
    BY <1>2, <2>3 DEF AtStake, Given, Taken, Owing, InUpdate
  <2> QED BY <1>1, <2>1, <2>2, <2>3 DEF Narrations
<1>5. marred \subseteq marred' /\ req'[t] = req[t]
  OBVIOUS
<1>6. \A u \in Threads \ {t} : req'[u] = req[u] /\ ok'[u] = ok[u]
  OBVIOUS
<1> QED BY <1>2, <1>3, <1>4, <1>5, <1>6, QuietTells

\* The steps of a thread.
LEMMA ThreadTells ==
  ASSUME TypeInv, TypeInv', CarryInv, RollInv, KindInv, UpdateIsolated, TellInv,
         marred \subseteq marred', NEW t \in Threads,
         \/ Receive(t) \/ HandlerStep(t)
         \/ OpenFails(t) \/ LockFails(t) \/ IoFails(t)
  PROVE  KindInv' /\ TellInv'
<1> USE DEF db, locks, counts, ghosts
<1>0. /\ TypeOK
      /\ Kind(pc[t], phase[t], req[t])
      /\ ok[t] \in BOOLEAN /\ ok'[t] \in BOOLEAN
  BY DEF TypeInv, TypeOK, KindInv
<1>1. CASE Receive(t)
  <2>1. PICK r \in Requests :
          /\ req' = [req EXCEPT ![t] = r]
          /\ \/ deposit_money(t, r)
             \/ withdraw_money(t, r)
             \/ transfer_funds(t, r)
             \/ disburse_loan(t, r)
             \/ set_account_status(t, r)
             \/ view_balance(t, r)
             \/ view_transaction_history(t, r)
    BY <1>1 DEF Receive
  <2>2. req'[t] = r /\ \A u \in Threads \ {t} : req'[u] = req[u]
    BY <1>0, <2>1 DEF TypeOK
  <2>3. pc[t] = "recv" /\ UNCHANGED <<accounts, txns, ok>>
    BY <1>1 DEF Receive
  <2>4. PICK s, ph : /\ Goto(t, s, ph)
                     /\ s \notin {"unlock", "seek", "append"}
                     /\ Kind(s, ph, r)
                     /\ ~Owing(s, ph, r, ok[t])
    BY <2>1 DEF deposit_money, withdraw_money, transfer_funds, disburse_loan,
                set_account_status, view_balance, view_transaction_history,
                Kind, Owing, InUpdate
  <2>5. /\ ~Given(s, ph, ok'[t]) /\ ~Given(pc[t], phase[t], ok[t])
        /\ ~Taken(s, ph, r, ok'[t]) /\ ~Taken(pc[t], phase[t], req[t], ok[t])
    BY <2>3, <2>4 DEF Given, Taken, Owing, InUpdate
  <2> QED BY <2>2, <2>3, <2>4, <2>5, QuietTells
<1>2. CASE Find(t)
  <2>1. CASE Target(t) \notin Accounts /\ UpdateReturns(t, FALSE)
    <3>1. pc[t] = "find" /\ phase[t] # "undo"
      BY <1>2, <2>1 DEF Find, RollInv, Rolling, CarryInv, Carrying, InUpdate, Target
    <3> QED BY <1>2, <2>1, <3>1, UpdateReturnsTells DEF Find
  <2>2. CASE Goto(t, "lock", phase[t]) /\ UNCHANGED <<tmp, ok>>
    <3>1. /\ Kind("lock", phase[t], req[t])
          /\ Given("lock", phase[t], ok[t]) <=> Given(pc[t], phase[t], ok[t])
          /\ Taken("lock", phase[t], req[t], ok[t]) <=> Taken(pc[t], phase[t], req[t], ok[t])
      BY <1>0, <1>2 DEF Find, Kind, Given, Taken, Owing, InUpdate
    <3> QED BY <1>2, <2>2, <3>1, QuietTells DEF Find
  <2> QED BY <1>2, <2>1, <2>2 DEF Find
<1>3. CASE LockRecord(t)
  <2>1. /\ Kind("read", phase[t], req[t])
        /\ Given("read", phase[t], ok[t]) <=> Given(pc[t], phase[t], ok[t])
        /\ Taken("read", phase[t], req[t], ok[t]) <=> Taken(pc[t], phase[t], req[t], ok[t])
    BY <1>0, <1>3 DEF LockRecord, Kind, Given, Taken, Owing, InUpdate
  <2> QED BY <1>3, <2>1, QuietTells DEF LockRecord
<1>4. CASE Read(t)
  <2>1. /\ UNCHANGED <<accounts, txns, req>> /\ pc[t] = "read"
        /\ \A u \in Threads \ {t} : req'[u] = req[u] /\ ok'[u] = ok[u]
    BY <1>0, <1>4 DEF Read, TypeOK
  <2>2. PICK s \in {"write", "unlock"} : Goto(t, s, phase[t]) /\ (s = "unlock" => ~ok'[t])
    BY <1>0, <1>4 DEF Read, TypeOK
  <2>3. phase[t] \in Updates
    BY <2>1 DEF TypeInv, Flow, Flowing, InUpdate
  <2>4. /\ Kind(s, phase[t], req[t])
        /\ Given(s, phase[t], ok'[t]) <=> Given(pc[t], phase[t], ok[t])
        /\ Taken(s, phase[t], req[t], ok'[t]) <=> Taken(pc[t], phase[t], req[t], ok[t])
    BY <1>0, <2>1, <2>2, <2>3 DEF Kind, Given, Taken, Owing, InUpdate, Updates
  <2> QED BY <2>1, <2>2, <2>4, QuietTells
<1>5. CASE Write(t)
  BY <1>5, WriteTells
<1>6. CASE Unlock(t)
  BY <1>0, <1>6, UpdateReturnsTells DEF Unlock
<1>7. CASE CheckRecipient(t)
  <2>1. UNCHANGED <<accounts, txns, req, ok>> /\ pc[t] = "check"
    BY <1>7 DEF CheckRecipient
  <2>2. PICK s, ph : /\ Goto(t, s, ph)
                     /\ s \in {"find", "reply"}
                     /\ s = "find" =>
                          ph = IF req[t].op = "TRANSFER" THEN "debit" ELSE "credit"
    BY <1>7 DEF CheckRecipient
  <2>3. Kind(s, ph, req[t])
    BY <1>0, <2>1, <2>2 DEF Kind, InUpdate
  <2>4. /\ ~Given(s, ph, ok'[t]) /\ ~Given(pc[t], phase[t], ok[t])
        /\ ~Taken(s, ph, req'[t], ok'[t]) /\ ~Taken(pc[t], phase[t], req[t], ok[t])
    BY <2>1, <2>2 DEF Given, Taken, Owing, InUpdate
  <2> QED BY <2>1, <2>2, <2>3, <2>4, QuietTells
<1>8. CASE Inspect(t) \/ ReadHistory(t)
  <2>1. /\ UNCHANGED <<accounts, txns, req, ok>> /\ pc[t] \in {"inspect", "history"}
        /\ Goto(t, "reply", "none")
    BY <1>8 DEF Inspect, ReadHistory
  <2>2. /\ Kind("reply", "none", req[t])
        /\ ~Given("reply", "none", ok'[t]) /\ ~Given(pc[t], phase[t], ok[t])
        /\ ~Taken("reply", "none", req'[t], ok'[t]) /\ ~Taken(pc[t], phase[t], req[t], ok[t])
    BY <2>1 DEF Kind, Given, Taken, Owing, InUpdate
  <2> QED BY <2>1, <2>2, QuietTells
<1>9. CASE SeekEnd(t)
  <2>1. /\ UNCHANGED <<accounts, txns, req, ok>> /\ pc[t] = "seek"
        /\ Goto(t, "append", phase[t])
    BY <1>9 DEF SeekEnd
  <2>2. /\ Kind("append", phase[t], req[t])
        /\ Given("append", phase[t], ok[t]) <=> Given(pc[t], phase[t], ok[t])
        /\ Taken("append", phase[t], req[t], ok[t]) <=> Taken(pc[t], phase[t], req[t], ok[t])
    BY <2>1 DEF Kind, Given, Taken, Owing, InUpdate
  <2> QED BY <2>1, <2>2, QuietTells
<1>10. CASE AppendRecord(t)
  BY <1>10, AppendTells
<1>11. CASE Reply(t)
  <2>1. /\ UNCHANGED <<accounts, txns>> /\ pc[t] = "reply"
        /\ Goto(t, "recv", "none")
        /\ \A u \in Threads \ {t} : req'[u] = req[u] /\ ok'[u] = ok[u]
    BY <1>0, <1>11 DEF Reply, TypeOK
  <2>2. /\ Kind("recv", "none", req'[t])
        /\ ~Given("recv", "none", ok'[t]) /\ ~Given(pc[t], phase[t], ok[t])
        /\ ~Taken("recv", "none", req'[t], ok'[t]) /\ ~Taken(pc[t], phase[t], req[t], ok[t])
    BY <2>1 DEF Kind, Given, Taken, Owing, InUpdate
  <2> QED BY <2>1, <2>2, QuietTells
<1>12. CASE OpenFails(t)
  <2>1. UNCHANGED <<accounts, txns, req>> /\ marred' = marred \cup AtStake(t)
    BY <1>12 DEF OpenFails
  <2>2. CASE pc[t] \in {"find", "lock"} /\ UpdateReturns(t, FALSE)
    <3>1. phase[t] = "undo" => req[t].from \in marred'
      BY <2>1 DEF AtStake
    <3> QED BY <2>1, <2>2, <3>1, UpdateReturnsTells
  <2>3. CASE pc[t] \in {"check", "inspect", "history"} /\ Goto(t, "reply", "none") /\ UNCHANGED ok
    <3>1. /\ Kind("reply", "none", req[t])
          /\ ~Given("reply", "none", ok'[t]) /\ ~Given(pc[t], phase[t], ok[t])
          /\ ~Taken("reply", "none", req'[t], ok'[t]) /\ ~Taken(pc[t], phase[t], req[t], ok[t])
      BY <2>3 DEF Kind, Given, Taken, Owing, InUpdate
    <3> QED BY <2>1, <2>3, <3>1, QuietTells
  <2>4. CASE pc[t] = "seek" /\ AppendReturns(t) /\ UNCHANGED ok
    BY <2>1, <2>4, LostAppendTells
  <2> QED BY <1>12, <2>2, <2>3, <2>4 DEF OpenFails
<1>13. CASE LockFails(t)
  <2>1. UNCHANGED <<accounts, txns, req>>
    BY <1>13 DEF LockFails
  <2>2. CASE pc[t] = "lock" /\ UpdateReturns(t, FALSE) /\ marred' = marred \cup AtStake(t)
    <3>1. phase[t] = "undo" => req[t].from \in marred'
      BY <2>2 DEF AtStake
    <3> QED BY <2>1, <2>2, <3>1, UpdateReturnsTells
  <2>3. CASE pc[t] = "seek" /\ Goto(t, "append", phase[t]) /\ UNCHANGED ok
    <3>1. /\ Kind("append", phase[t], req[t])
          /\ Given("append", phase[t], ok[t]) <=> Given(pc[t], phase[t], ok[t])
          /\ Taken("append", phase[t], req[t], ok[t]) <=> Taken(pc[t], phase[t], req[t], ok[t])
      BY <2>3 DEF Kind, Given, Taken, Owing, InUpdate
    <3> QED BY <2>1, <2>3, <3>1, QuietTells
  <2> QED BY <1>13, <2>2, <2>3 DEF LockFails
<1>14. CASE IoFails(t)
  <2>1. UNCHANGED <<accounts, txns, req>> /\ marred' = marred \cup AtStake(t)
    BY <1>14 DEF IoFails
  <2>2. CASE /\ pc[t] \in {"read", "write"}
             /\ ok' = [ok EXCEPT ![t] = FALSE]
             /\ Goto(t, "unlock", phase[t])
    <3>1. ok'[t] = FALSE /\ \A u \in Threads \ {t} : req'[u] = req[u] /\ ok'[u] = ok[u]
      BY <1>0, <2>1, <2>2 DEF TypeOK
    <3>2. phase[t] \in Updates
      BY <2>2 DEF TypeInv, Flow, Flowing, InUpdate
    <3>3. /\ Kind("unlock", phase[t], req[t])
          /\ Given("unlock", phase[t], FALSE) <=> Given(pc[t], phase[t], ok[t])
          /\ Taken("unlock", phase[t], req[t], FALSE) <=> Taken(pc[t], phase[t], req[t], ok[t])
      BY <1>0, <2>2, <3>2 DEF Kind, Given, Taken, Owing, InUpdate, Updates
    <3> QED BY <2>1, <2>2, <3>1, <3>3, QuietTells
  <2>3. CASE pc[t] = "append" /\ AppendReturns(t) /\ UNCHANGED ok
    BY <2>1, <2>3, LostAppendTells
  <2> QED BY <1>14, <2>2, <2>3 DEF IoFails
<1> QED BY <1>1, <1>2, <1>3, <1>4, <1>5, <1>6, <1>7, <1>8, <1>9, <1>10, <1>11,
           <1>12, <1>13, <1>14
        DEF HandlerStep

\* The end of a process leaves nothing untold of an account it does not mar.
LEMMA ExitTells ==
  ASSUME TypeInv, KindInv, TellInv, marred \subseteq marred', NEW p \in Procs, Exit(p)
  PROVE  KindInv' /\ TellInv'
<1> USE DEF db, locks, counts, ghosts
<1>0. /\ accounts' = accounts /\ txns' = txns
      /\ \A u \in Threads :
           IF ProcOf[u] = p
             THEN pc'[u] = "recv" /\ phase'[u] = "none" /\ req'[u] = NoRequest /\ ok'[u] = FALSE
             ELSE pc'[u] = pc[u] /\ phase'[u] = phase[u] /\ req'[u] = req[u] /\ ok'[u] = ok[u]
  BY DEF Exit
<1>1. KindInv'
  <2> SUFFICES ASSUME NEW u \in Threads PROVE Kind(pc'[u], phase'[u], req'[u])
    BY DEF KindInv
  <2>1. CASE ProcOf[u] = p
    BY <1>0, <2>1 DEF Kind, InUpdate
  <2>2. CASE ProcOf[u] # p
    BY <1>0, <2>2 DEF KindInv
  <2> QED BY <2>1, <2>2
<1>2. ASSUME NEW a \in Accounts \ marred'
      PROVE  accounts'[a].balance = HistoryBalance(a)' + Sum(Pending(a)', Threads)
  <2>1. ASSUME NEW u \in Threads
        PROVE  Untold(pc'[u], phase'[u], req'[u], ok'[u], a)
               = Untold(pc[u], phase[u], req[u], ok[u], a)
    <3>1. CASE ProcOf[u] = p
      <4>1. Untold(pc'[u], phase'[u], req'[u], ok'[u], a) = 0
        BY <1>0, <3>1 DEF Untold, Given, Taken, Owing, InUpdate
      <4>2. Untold(pc[u], phase[u], req[u], ok[u], a) = 0
        <5>1. CASE phase[u] \in {"none", "status"}
          BY <5>1 DEF Untold, Given, Taken, Owing
        <5>2. CASE phase[u] \notin {"none", "status"}
          <6>1. a \notin {req[u].from, req[u].to}
            BY <3>1, <5>2 DEF Exit
          <6> QED BY <6>1 DEF Untold
        <5> QED BY <5>1, <5>2
      <4> QED BY <4>1, <4>2
    <3>2. CASE ProcOf[u] # p
      BY <1>0, <3>2
    <3> QED BY <3>1, <3>2
  <2>2. Pending(a)' = [u \in Threads |-> Untold(pc'[u], phase'[u], req'[u], ok'[u], a)]
    BY DEF Pending, Untold, Given, Taken, Owing
  <2>3. Pending(a)' = Pending(a)
    BY <2>1, <2>2 DEF Pending
  <2>4. HistoryBalance(a)' = HistoryBalance(a)
    BY <1>0, Histories
  <2>5. a \in Accounts \ marred
    OBVIOUS
  <2> QED BY <1>0, <2>3, <2>4, <2>5 DEF TellInv
<1> QED BY <1>1, <1>2 DEF TellInv

\* Every step keeps the account of the balances.
LEMMA NextTells ==
  ASSUME TypeInv, TypeInv', WholeInv, UpdateIsolated, KindInv, TellInv, [Next]_vars
  PROVE  KindInv' /\ TellInv'
<1> USE DEF db, locks, counts, ghosts
<1>0. marred \subseteq marred'
  BY MarredGrows
<1>1. CASE UNCHANGED vars
  <2>1. KindInv'
    BY <1>1 DEF vars, KindInv
  <2>2. ASSUME NEW a \in Accounts \ marred'
        PROVE  accounts'[a].balance = HistoryBalance(a)' + Sum(Pending(a)', Threads)
    <3>1. txns' = txns /\ accounts' = accounts
      BY <1>1 DEF vars
    <3>2. HistoryBalance(a)' = HistoryBalance(a)
      BY <3>1, Histories
    <3>3. Pending(a)' = Pending(a)
      BY <1>1 DEF vars, Pending, Untold, Given, Taken, Owing
    <3>4. a \in Accounts \ marred
      BY <1>0
    <3> QED BY <3>1, <3>2, <3>3, <3>4 DEF TellInv
  <2> QED BY <2>1, <2>2 DEF TellInv
<1>2. ASSUME NEW p \in Procs, Exit(p) PROVE KindInv' /\ TellInv'
  BY <1>0, <1>2, ExitTells
<1>3. ASSUME NEW t \in Threads,
             \/ Receive(t) \/ HandlerStep(t)
             \/ OpenFails(t) \/ LockFails(t) \/ IoFails(t)
      PROVE  KindInv' /\ TellInv'
  BY <1>0, <1>3, ThreadTells DEF WholeInv
<1> QED BY <1>1, <1>2, <1>3 DEF Next

\* At the start the history is empty and nothing is under way.
LEMMA InitTells == Init => KindInv /\ TellInv
<1> SUFFICES ASSUME Init PROVE KindInv /\ TellInv  OBVIOUS
<1>1. KindInv
  BY DEF Init, KindInv, Kind, InUpdate
<1>2. ASSUME NEW a \in Accounts
      PROVE  accounts[a].balance = HistoryBalance(a) + Sum(Pending(a), Threads)
  <2>1. \A t \in Threads : Pending(a)[t] = 0
    BY DEF Init, Pending, Untold, Given, Taken, Owing, InUpdate
  <2>2. Sum(Pending(a), Threads) = 0
    BY <2>1, SumZero, FiniteAssumption
  <2>3. HistoryBalance(a) = Opening[a] + 0
    BY Histories, ToldEmpty DEF Init
  <2>4. accounts[a].balance = Opening[a] /\ Opening[a] \in Int
    BY OpeningAssumption DEF Init
  <2> QED BY <2>2, <2>3, <2>4
<1> QED BY <1>1, <1>2 DEF TellInv

\* When nobody is served nothing is left untold.
LEMMA AllToldAtRest ==
  ASSUME TypeInv, TellInv
  PROVE  HistoryExplainsBalance
<1> SUFFICES ASSUME \A t \in Threads : pc[t] = "recv", NEW a \in Accounts \ marred
             PROVE  accounts[a].balance = HistoryBalance(a)
  BY DEF HistoryExplainsBalance
<1>1. \A t \in Threads : Pending(a)[t] = 0
  BY DEF Pending, Untold, Given, Taken, Owing, InUpdate
<1>2. Sum(Pending(a), Threads) = 0
  BY <1>1, SumZero, FiniteAssumption
<1>3. HistoryBalance(a) \in Int
  <2>1. Told(txns, a) \in Int
    BY ToldInt DEF TypeInv, TypeOK
  <2>2. Opening[a] \in Int
    BY OpeningAssumption
  <2>3. HistoryBalance(a) = Opening[a] + Told(txns, a)
    BY Histories
  <2> QED BY <2>1, <2>2, <2>3
<1> QED BY <1>2, <1>3 DEF TellInv

\* Where the record lock excludes, the history a customer is shown accounts for
\* the balance to the last transaction, whatever calls fail, wherever servers
\* exit and whichever accounts managers deactivate, for any number of servers,
\* accounts and requests; an account is excepted only once a rollback to it
\* or a log record of its own failed, or a process ended between an update of
\* a request that names it and the answer.
THEOREM HistoryIsComplete ==
  OneThreadPerProcess /\ Spec => []HistoryExplainsBalance
<1> SUFFICES ASSUME OneThreadPerProcess PROVE Spec => []HistoryExplainsBalance
  OBVIOUS
<1> DEFINE Inv == WholeInv /\ KindInv /\ TellInv
<1>1. Init => Inv
  BY InitWhole, InitTells
<1>2. TypeInv /\ TypeInv' /\ UpdateIsolated /\ Inv /\ [Next]_vars => Inv'
  BY NextWhole, NextTells
<1>3. Spec => []TypeInv
  BY TypeCorrect, PTL DEF TypeInv
<1>4. Spec => []UpdateIsolated
  BY UpdatesIsolated
<1>5. TypeInv /\ Inv => HistoryExplainsBalance
  BY AllToldAtRest
<1> HIDE DEF Inv
<1> QED BY <1>1, <1>2, <1>3, <1>4, <1>5, PTL DEF Spec

-----------------------------------------------------------------------------
(* The two records of a transfer.                                          *)

\* A record of the log is the n-side of the transfer that e is a side of.
Side(rec, n, e) ==
  rec.entry.narration = n /\ [rec.entry EXCEPT !.narration = e.narration] = e

Sides(log, n, e) == {i \in 1..Len(log) : Side(log[i], n, e)}

\* Threads that have logged the sender's side and not yet the recipient's.
Passing(e) ==
  {t \in Threads :
     /\ pc[t] \in {"seek", "append"} /\ phase[t] = "transfer_in"
     /\ req[t].from = e.from /\ req[t].to = e.to /\ req[t].amount = e.amount}

\* Every recipient's side, logged or about to be, has its sender's side.
PairInv ==
  \A e \in TxnEntries :
    Cardinality(Sides(txns, "transfer_in", e)) + Cardinality(Passing(e))
      <= Cardinality(Sides(txns, "transfer_out", e))

\* The sides in a log can be counted, and an appended record is one at most.
LEMMA SidesAppend ==
  ASSUME NEW log \in Seq(TxnRec), NEW rec, NEW n, NEW e
  PROVE  /\ IsFiniteSet(Sides(log, n, e)) /\ Cardinality(Sides(log, n, e)) \in Nat
         /\ Side(rec, n, e) =>
              Cardinality(Sides(Append(log, rec), n, e)) = Cardinality(Sides(log, n, e)) + 1
         /\ ~Side(rec, n, e) => Sides(Append(log, rec), n, e) = Sides(log, n, e)
<1> DEFINE new == Append(log, rec)
<1>1. /\ Len(log) \in Nat /\ Len(new) = Len(log) + 1
      /\ \A i \in 1..Len(log) : new[i] = log[i]
      /\ new[Len(log) + 1] = rec
  OBVIOUS
<1> HIDE DEF new
<1>2. 1..Len(new) = 1..Len(log) \cup {Len(log) + 1} /\ Len(log) + 1 \notin 1..Len(log)
  BY <1>1
<1>3. IsFiniteSet(Sides(log, n, e))
  <2>1. IsFiniteSet(1..Len(log))
    BY <1>1, FS_Interval
  <2>2. Sides(log, n, e) \subseteq 1..Len(log)
    BY DEF Sides
  <2> QED BY <2>1, <2>2, FS_Subset
<1>4. Cardinality(Sides(log, n, e)) \in Nat
  BY <1>3, FS_CardinalityType
<1>5. CASE Side(rec, n, e)
  <2>1. Sides(new, n, e) = Sides(log, n, e) \cup {Len(log) + 1}
    BY <1>1, <1>2, <1>5 DEF Sides
  <2>2. Len(log) + 1 \notin Sides(log, n, e)
    BY <1>2 DEF Sides
  <2>3. Cardinality(Sides(new, n, e)) = Cardinality(Sides(log, n, e)) + 1
    BY <1>3, <2>1, <2>2, FS_AddElement
  <2> QED BY <1>3, <1>4, <1>5, <2>3 DEF new
<1>6. CASE ~Side(rec, n, e)
  <2>1. Sides(new, n, e) = Sides(log, n, e)
    BY <1>1, <1>2, <1>6 DEF Sides
  <2> QED BY <1>3, <1>4, <1>6, <2>1 DEF new
<1> QED BY <1>5, <1>6

\* The threads passing on a transfer can be counted.
LEMMA PassingFinite ==
  ASSUME NEW e
  PROVE  /\ IsFiniteSet(Passing(e)) /\ Cardinality(Passing(e)) \in Nat
         /\ IsFiniteSet(Passing(e)') /\ Cardinality(Passing(e)') \in Nat
<1>1. Passing(e) \subseteq Threads /\ Passing(e)' \subseteq Threads
  BY DEF Passing
<1>2. IsFiniteSet(Passing(e)) /\ IsFiniteSet(Passing(e)')
  BY <1>1, FS_Subset, FiniteAssumption
<1> QED BY <1>2, FS_CardinalityType

\* All a step other than a write() to the log does to transfers half logged,
\* when no call fails.
PairQuiet ==
  /\ UNCHANGED txns
  /\ \A u \in Threads :
       pc'[u] \in {"seek", "append"} /\ phase'[u] = "transfer_in" =>
         /\ pc[u] \in {"seek", "append"} /\ phase[u] = "transfer_in"
         /\ req'[u] = req[u]

\* A jump elsewhere than to the second record.
LEMMA GotoPairQuiet ==
  ASSUME TypeOK, NEW t \in Threads, NEW s, NEW ph, Goto(t, s, ph),
         s \notin {"seek", "append"} \/ ph # "transfer_in", UNCHANGED txns,
         \A u \in Threads \ {t} : req'[u] = req[u]
  PROVE  PairQuiet
<1> SUFFICES ASSUME NEW u \in Threads,
                    pc'[u] \in {"seek", "append"}, phase'[u] = "transfer_in"
             PROVE  /\ pc[u] \in {"seek", "append"} /\ phase[u] = "transfer_in"
                    /\ req'[u] = req[u]
  BY DEF PairQuiet
<1>1. u # t
  BY DEF Goto, TypeOK
<1> QED BY <1>1 DEF Goto, TypeOK

\* A return of atomic_update_account() starts with the first record.
LEMMA UpdateReturnsPairQuiet ==
  ASSUME TypeOK, NEW t \in Threads, NEW done, UpdateReturns(t, done), UNCHANGED <<txns, req>>
  PROVE  PairQuiet
<1>1. PICK s, ph : Goto(t, s, ph) /\ (s \notin {"seek", "append"} \/ ph # "transfer_in")
  BY DEF UpdateReturns, FirstNarration
<1> QED BY <1>1, GotoPairQuiet

\* The second record comes from the first.
LEMMA PairSteps ==
  ASSUME TypeOK, [Next]_vars, faults' = 0
  PROVE  PairQuiet \/ \E t \in Threads : AppendRecord(t)
<1> USE DEF db, locks, counts, ghosts
<1>1. CASE UNCHANGED vars
  BY <1>1 DEF vars, PairQuiet
<1>2. ASSUME NEW t \in Threads, Receive(t) PROVE PairQuiet
  <2>1. PICK s, ph : s \in {"reply", "find", "check", "inspect", "history"} /\ Goto(t, s, ph)
    BY <1>2 DEF Receive, deposit_money, withdraw_money, transfer_funds, disburse_loan,
                set_account_status, view_balance, view_transaction_history
  <2>2. UNCHANGED txns /\ \A u \in Threads \ {t} : req'[u] = req[u]
    BY <1>2 DEF Receive, TypeOK
  <2> QED BY <2>1, <2>2, GotoPairQuiet
<1>3. ASSUME NEW t \in Threads, Find(t) PROVE PairQuiet
  BY <1>3, GotoPairQuiet, UpdateReturnsPairQuiet DEF Find
<1>4. ASSUME NEW t \in Threads, LockRecord(t) \/ Read(t) \/ Write(t) PROVE PairQuiet
  BY <1>4, GotoPairQuiet DEF LockRecord, Read, Write
<1>5. ASSUME NEW t \in Threads, Unlock(t) PROVE PairQuiet
  BY <1>5, UpdateReturnsPairQuiet DEF Unlock
<1>6. ASSUME NEW t \in Threads, CheckRecipient(t) \/ Inspect(t) \/ ReadHistory(t)
      PROVE  PairQuiet
  BY <1>6, GotoPairQuiet DEF CheckRecipient, Inspect, ReadHistory
<1>7. ASSUME NEW t \in Threads, Reply(t) PROVE PairQuiet
  <2>1. \A u \in Threads \ {t} : req'[u] = req[u]
    BY <1>7 DEF Reply, TypeOK
  <2> QED BY <1>7, <2>1, GotoPairQuiet DEF Reply
<1>8. ASSUME NEW t \in Threads, SeekEnd(t) PROVE PairQuiet
  <2>1. UNCHANGED <<txns, req>> /\ pc[t] = "seek" /\ Goto(t, "append", phase[t])
    BY <1>8 DEF SeekEnd
  <2> QED BY <2>1 DEF PairQuiet, Goto, TypeOK
<1>9. ASSUME NEW p \in Procs, Exit(p) PROVE PairQuiet
  BY <1>9 DEF Exit, PairQuiet
<1> QED BY <1>1, <1>2, <1>3, <1>4, <1>5, <1>6, <1>7, <1>8, <1>9, NoFault DEF Next, HandlerStep

\* Steps that write no log record.
LEMMA QuietPairs ==
  ASSUME TypeInv, PairInv, PairQuiet
  PROVE  PairInv'
<1> SUFFICES ASSUME NEW e \in TxnEntries
             PROVE  Cardinality(Sides(txns', "transfer_in", e)) + Cardinality(Passing(e)')
                      <= Cardinality(Sides(txns', "transfer_out", e))
  BY DEF PairInv, Sides
<1>1. Passing(e)' \subseteq Passing(e)
  BY DEF PairQuiet, Passing
<1>2. Cardinality(Passing(e)') <= Cardinality(Passing(e))
  BY <1>1, PassingFinite, FS_Subset
<1>3. txns' = txns /\ txns \in Seq(TxnRec)
  BY DEF PairQuiet, TypeInv, TypeOK
<1>4. /\ Cardinality(Sides(txns, "transfer_in", e)) \in Nat
      /\ Cardinality(Sides(txns, "transfer_out", e)) \in Nat
  BY <1>3, SidesAppend
<1>5. Cardinality(Sides(txns, "transfer_in", e)) + Cardinality(Passing(e))
        <= Cardinality(Sides(txns, "transfer_out", e))
  BY DEF PairInv
<1> QED BY <1>2, <1>3, <1>4, <1>5, PassingFinite

\* write() of a log record, of the first side, the second, or neither.
LEMMA AppendPairs ==
  ASSUME TypeInv, PairInv, NEW t \in Threads, AppendRecord(t)
  PROVE  PairInv'
<1> USE DEF db, locks, counts, ghosts
<1> SUFFICES ASSUME NEW e \in TxnEntries
             PROVE  Cardinality(Sides(txns', "transfer_in", e)) + Cardinality(Passing(e)')
                      <= Cardinality(Sides(txns', "transfer_out", e))
  BY DEF PairInv, Sides
<1> DEFINE entry == [from |-> req[t].from, to |-> req[t].to,
                     amount |-> req[t].amount, narration |-> phase[t]]
           rec == [id |-> newId[t], entry |-> entry]
           Same == req[t].from = e.from /\ req[t].to = e.to /\ req[t].amount = e.amount
           ins  == Cardinality(Sides(txns, "transfer_in", e))
           outs == Cardinality(Sides(txns, "transfer_out", e))
<1>0. TypeOK
  BY DEF TypeInv
<1>1. txns' = Append(txns, rec) /\ txns \in Seq(TxnRec)
  BY <1>0 DEF AppendRecord, TypeOK
<1>2. rec.entry = entry /\ entry.narration = phase[t]
  OBVIOUS
<1>3. \A n : Side(rec, n, e) <=> (phase[t] = n /\ Same)
  <2>1. [entry EXCEPT !.narration = e.narration] = e <=> Same
    <3>1. e = [from |-> e.from, to |-> e.to, amount |-> e.amount, narration |-> e.narration]
      BY DEF TxnEntries
    <3>2. [entry EXCEPT !.narration = e.narration] =
            [from |-> req[t].from, to |-> req[t].to,
             amount |-> req[t].amount, narration |-> e.narration]
      OBVIOUS
    <3> QED BY <3>1, <3>2
  <2> HIDE DEF entry, Same
  <2> QED BY <1>2, <2>1 DEF Side
<1>4. ins \in Nat /\ outs \in Nat /\ ins + Cardinality(Passing(e)) <= outs
  BY <1>1, SidesAppend DEF PairInv
<1>5. /\ pc[t] = "append" /\ UNCHANGED req
      /\ \A u \in Threads \ {t} : pc'[u] = pc[u] /\ phase'[u] = phase[u]
      /\ IF phase[t] = "transfer_out" THEN pc'[t] = "seek" /\ phase'[t] = "transfer_in"
                                      ELSE pc'[t] = "reply"
  BY <1>0 DEF AppendRecord, AppendReturns, Goto, TypeOK
<1> HIDE DEF rec
<1>6. CASE ~Same
  <2>1. Passing(e)' \subseteq Passing(e)
    BY <1>5, <1>6 DEF Passing
  <2>2. Cardinality(Passing(e)') <= Cardinality(Passing(e))
    BY <2>1, PassingFinite, FS_Subset
  <2>3. /\ Sides(txns', "transfer_in", e) = Sides(txns, "transfer_in", e)
        /\ Sides(txns', "transfer_out", e) = Sides(txns, "transfer_out", e)
    BY <1>1, <1>3, <1>6, SidesAppend
  <2> QED BY <1>4, <2>2, <2>3, PassingFinite
<1>7. CASE Same /\ phase[t] = "transfer_out"
  <2>1. Passing(e)' = Passing(e) \cup {t} /\ t \notin Passing(e)
    BY <1>5, <1>7 DEF Passing
  <2>2. Cardinality(Passing(e)') = Cardinality(Passing(e)) + 1
    BY <2>1, PassingFinite, FS_AddElement
  <2>3. Sides(txns', "transfer_in", e) = Sides(txns, "transfer_in", e)
    BY <1>1, <1>3, <1>7, SidesAppend
  <2>4. Cardinality(Sides(txns', "transfer_out", e)) = outs + 1
    BY <1>1, <1>3, <1>7, SidesAppend
  <2> QED BY <1>4, <2>2, <2>3, <2>4, PassingFinite
<1>8. CASE Same /\ phase[t] = "transfer_in"
  <2>1. Passing(e)' = Passing(e) \ {t} /\ t \in Passing(e)
    BY <1>5, <1>8 DEF Passing
  <2>2. Cardinality(Passing(e)') = Cardinality(Passing(e)) - 1
    BY <2>1, PassingFinite, FS_RemoveElement
  <2>3. Cardinality(Sides(txns', "transfer_in", e)) = ins + 1
    BY <1>1, <1>3, <1>8, SidesAppend
  <2>4. Sides(txns', "transfer_out", e) = Sides(txns, "transfer_out", e)
    BY <1>1, <1>3, <1>8, SidesAppend
  <2> QED BY <1>4, <2>2, <2>3, <2>4, PassingFinite
<1>9. CASE phase[t] \notin {"transfer_in", "transfer_out"}
  <2>1. Passing(e)' \subseteq Passing(e)
    BY <1>5, <1>9 DEF Passing
  <2>2. Cardinality(Passing(e)') <= Cardinality(Passing(e))
    BY <2>1, PassingFinite, FS_Subset
  <2>3. /\ Sides(txns', "transfer_in", e) = Sides(txns, "transfer_in", e)
        /\ Sides(txns', "transfer_out", e) = Sides(txns, "transfer_out", e)
    BY <1>1, <1>3, <1>9, SidesAppend
  <2> QED BY <1>4, <2>2, <2>3, PassingFinite
<1> QED BY <1>6, <1>7, <1>8, <1>9

\* If no system call fails, the recipient's record of a transfer is never in
\* the log without the sender's, however threads interleave, with or without
\* locks that exclude, and wherever a server exits.
THEOREM PairsInOrder == MaxFaults = 0 /\ Spec => []TransferInAfterOut
<1> SUFFICES ASSUME MaxFaults = 0 PROVE Spec => []TransferInAfterOut
  OBVIOUS
<1> DEFINE Inv == faults = 0 /\ PairInv
<1>1. Init => Inv
  <2> SUFFICES ASSUME Init PROVE Inv  OBVIOUS
  <2>1. txns = << >> /\ faults = 0
    BY DEF Init
  <2>2. ASSUME NEW e \in TxnEntries
        PROVE  Cardinality(Sides(txns, "transfer_in", e)) + Cardinality(Passing(e))
                 <= Cardinality(Sides(txns, "transfer_out", e))
    <3>1. Passing(e) = {}
      BY DEF Init, Passing
    <3>2. Sides(txns, "transfer_in", e) = {} /\ Sides(txns, "transfer_out", e) = {}
      BY <2>1 DEF Sides
    <3>3. Cardinality({}) = 0
      BY FS_EmptySet
    <3>4. 0 + 0 <= 0
      OBVIOUS
    <3> QED BY <3>1, <3>2, <3>3, <3>4
  <2> QED BY <2>1, <2>2 DEF PairInv
<1>2. TypeInv /\ Inv /\ [Next]_vars => Inv'
  <2> SUFFICES ASSUME TypeInv, Inv, [Next]_vars PROVE Inv'
    OBVIOUS
  <2>1. faults' = 0
    <3>1. ~Fault
      BY DEF Fault
    <3> QED BY <3>1, FaultsCount
  <2>2. PairInv'
    BY <2>1, PairSteps, QuietPairs, AppendPairs DEF TypeInv
  <2> QED BY <2>1, <2>2
<1>3. Spec => []TypeInv
  BY TypeCorrect, PTL DEF TypeInv
<1>4. TypeInv /\ Inv => TransferInAfterOut
  <2> SUFFICES ASSUME TypeInv, Inv, NEW i \in 1..Len(txns)
               PROVE  CountTransfers("transfer_in", txns[i].entry)
                        <= CountTransfers("transfer_out", txns[i].entry)
    BY DEF TransferInAfterOut
  <2> DEFINE e == txns[i].entry
  <2>1. e \in TxnEntries /\ txns \in Seq(TxnRec)
    <3>1. txns \in Seq(TxnRec)
      BY DEF TypeInv, TypeOK
    <3>2. txns[i] \in TxnRec
      BY <3>1
    <3> QED BY <3>1, <3>2 DEF TxnRec
  <2>2. \A n : CountTransfers(n, e) = Cardinality(Sides(txns, n, e))
    BY DEF CountTransfers, Sides, Side
  <2> HIDE DEF e
  <2>3. Cardinality(Sides(txns, "transfer_in", e)) + Cardinality(Passing(e))
          <= Cardinality(Sides(txns, "transfer_out", e))
    BY <2>1 DEF PairInv
  <2>4. /\ Cardinality(Sides(txns, "transfer_in", e)) \in Nat
        /\ Cardinality(Sides(txns, "transfer_out", e)) \in Nat
    BY <2>1, SidesAppend
  <2>5. CountTransfers("transfer_in", e) <= CountTransfers("transfer_out", e)
    BY <2>2, <2>3, <2>4, PassingFinite
  <2> QED BY <2>5 DEF e
<1> HIDE DEF Inv
<1> QED BY <1>1, <1>2, <1>3, <1>4, PTL DEF Spec
=============================================================================
