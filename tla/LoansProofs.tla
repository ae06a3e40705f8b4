---------------------------- MODULE LoansProofs -----------------------------
(***************************************************************************)
(* Proofs about Loans, for every set of threads, customers, staff and      *)
(* amounts and every bound.                                                *)
(***************************************************************************)
EXTENDS Loans, FiniteSets, FiniteSetTheorems, TLAPS

-----------------------------------------------------------------------------
(* Lemmas about the operators the model is built from.                     *)

\* What a request carries for the handler it is routed to.
LEMMA RequestFields ==
  ASSUME NEW r \in Requests
  PROVE  /\ r.op = "APPLY_LOAN" => r.user \in Ids /\ r.amount \in Amounts
         /\ r.op # "APPLY_LOAN" => r.loan \in Positions \cup {0}
         /\ r.op \in {"ASSIGN_LOAN", "APPROVE_REJECT_LOAN"} => r.emp \in Staff
         /\ r.action \in {"approve", "reject"} => r.op = "APPROVE_REJECT_LOAN"
         /\ r.amount \in Int
<1>1. r.amount \in Int
  <2>1. r.amount \in Amounts \cup {0}
    BY DEF Requests
  <2>2. \A n \in Amounts \cup {0} : n \in Int
    BY AmountsAssumption
  <2> QED BY <2>1, <2>2
<1>2. /\ r.op = "APPLY_LOAN" => r.user \in Ids /\ r.amount \in Amounts
      /\ r.op # "APPLY_LOAN" => r.loan \in Positions \cup {0}
      /\ r.op \in {"ASSIGN_LOAN", "APPROVE_REJECT_LOAN"} => r.emp \in Staff
      /\ r.action \in {"approve", "reject"} => r.op = "APPROVE_REJECT_LOAN"
  BY DEF Requests
<1> QED BY <1>1, <1>2

\* Granting and dropping locks leaves a lock table.
LEMMA LockTyped ==
  ASSUME NEW R, NEW tab \in LockTable(R), NEW S, NEW p \in Procs
  PROVE  /\ Lock(tab, S, p) \in LockTable(R)
         /\ Close(tab, p) \in LockTable(R)
         /\ ReadOnlyPass(tab, p) \in LockTable(R)
BY DEF LockTable, Lock, Close, ReadOnlyPass

\* The thread t goes on at s with these locals; the others stay.
Moves(t, s, r, i, rec, n) ==
  /\ pc' = [pc EXCEPT ![t] = s]
  /\ req' = [req EXCEPT ![t] = r]
  /\ at' = [at EXCEPT ![t] = i]
  /\ tmp' = [tmp EXCEPT ![t] = rec]
  /\ newId' = [newId EXCEPT ![t] = n]

\* Where a move leaves the thread and the others.
LEMMA Moved ==
  ASSUME TypeOK, NEW t \in Threads, NEW s, NEW r, NEW i, NEW rec, NEW n,
         Moves(t, s, r, i, rec, n)
  PROVE  /\ pc'[t] = s /\ req'[t] = r /\ at'[t] = i /\ tmp'[t] = rec /\ newId'[t] = n
         /\ \A u \in Threads \ {t} :
              /\ pc'[u] = pc[u] /\ req'[u] = req[u] /\ at'[u] = at[u]
              /\ tmp'[u] = tmp[u] /\ newId'[u] = newId[u]
BY DEF Moves, TypeOK

\* The answer to the client ends the handler.
LEMMA AnswerMoves ==
  ASSUME NEW t \in Threads, Answer(t)
  PROVE  Moves(t, "recv", NoRequest, 0, NoLoan, 0)
BY DEF Answer, Goto, Moves

\* A jump that leaves the locals alone.
LEMMA GotoMoves ==
  ASSUME TypeOK, NEW t \in Threads, NEW s, Goto(t, s), UNCHANGED locals
  PROVE  Moves(t, s, req[t], at[t], tmp[t], newId[t])
BY DEF TypeOK, Goto, Moves, locals

-----------------------------------------------------------------------------
(* Type correctness.  Flow says which request and which record go with the *)
(* next system call of a thread; Counted that loans.db has room for the    *)
(* applications under way.                                                 *)

\* The calls of atomic_update_loan() once the record is found.
Updating == {"lock", "read", "role", "check", "deposit", "log", "write", "unlock"}

\* Those between which it holds the record as read.
Modifying == {"role", "check", "deposit", "log", "write"}

Flowing(s, r, i, rec, n, length) ==
  /\ s \in {"seek", "append"} => r \in Requests /\ r.op = "APPLY_LOAN"
  /\ s = "append" => n \in Nat \ {0}
  /\ s \in Updating \cup {"find"} =>
       r \in Requests /\ r.op \in {"ASSIGN_LOAN", "APPROVE_REJECT_LOAN"}
  /\ s \in Updating => i \in 1..length
  /\ s \in Modifying => rec \in LoanRec
  /\ s \in {"deposit", "log"} => rec.user \in Accounts
  /\ s \in {"check", "deposit", "log"} => rec.status = "APPROVED"

Flow == \A t \in Threads :
          Flowing(pc[t], req[t], at[t], tmp[t], newId[t], Len(loans))

\* The applications not yet written.
Applying == {t \in Threads : pc[t] \in {"seek", "append"}}

Counted ==
  /\ IsFiniteSet(Applying)
  /\ Len(loans) + Cardinality(Applying) <= applied
  /\ applied <= MaxLoans

TypeInv == TypeOK /\ Flow /\ Counted

\* A move to a place that goes with its locals keeps types and control flow.
LEMMA MovesTyped ==
  ASSUME TypeOK, Flow, NEW t \in Threads, NEW s \in Steps,
         NEW r \in Requests \cup {NoRequest}, NEW i \in Positions \cup {0},
         NEW rec \in LoanRec \cup {NoLoan}, NEW n \in Nat,
         Moves(t, s, r, i, rec, n),
         Len(loans) \in Nat, Len(loans') \in Nat, Len(loans) <= Len(loans'),
         Flowing(s, r, i, rec, n, Len(loans'))
  PROVE  /\ pc' \in [Threads -> Steps]
         /\ req' \in [Threads -> Requests \cup {NoRequest}]
         /\ at' \in [Threads -> Positions \cup {0}]
         /\ tmp' \in [Threads -> LoanRec \cup {NoLoan}]
         /\ newId' \in [Threads -> Nat]
         /\ Flow'
<1>1. /\ pc' \in [Threads -> Steps]
      /\ req' \in [Threads -> Requests \cup {NoRequest}]
      /\ at' \in [Threads -> Positions \cup {0}]
  BY DEF Moves, TypeOK
<1>2. /\ tmp' \in [Threads -> LoanRec \cup {NoLoan}]
      /\ newId' \in [Threads -> Nat]
  BY DEF Moves, TypeOK
<1>3. ASSUME NEW u \in Threads
      PROVE  Flowing(pc'[u], req'[u], at'[u], tmp'[u], newId'[u], Len(loans'))
  <2>1. CASE u = t
    BY <2>1, Moved
  <2>2. CASE u # t
    <3>1. Flowing(pc[u], req[u], at[u], tmp[u], newId[u], Len(loans))
      BY DEF Flow
    <3>2. Flowing(pc[u], req[u], at[u], tmp[u], newId[u], Len(loans'))
      BY <3>1 DEF Flowing
    <3> QED BY <2>2, <3>2, Moved
  <2> QED BY <2>1, <2>2
<1>4. Flow'
  BY <1>3 DEF Flow
<1> QED BY <1>1, <1>2, <1>4

\* A step that starts no application leaves no more of them.
LEMMA CountedKept ==
  ASSUME Counted, Applying' \subseteq Applying, UNCHANGED <<loans, applied>>,
         Len(loans) \in Nat, applied \in Nat
  PROVE  Counted'
<1>1. /\ IsFiniteSet(Applying')
      /\ Cardinality(Applying') <= Cardinality(Applying)
  BY FS_Subset DEF Counted
<1>2. Cardinality(Applying') \in Nat /\ Cardinality(Applying) \in Nat
  BY <1>1, FS_CardinalityType DEF Counted
<1> QED BY <1>1, <1>2, BoundsAssumption DEF Counted

\* A thread that goes on to no append leaves no more of them.
LEMMA MovesCounted ==
  ASSUME TypeInv, NEW t \in Threads, NEW s, NEW r, NEW i, NEW rec, NEW n,
         Moves(t, s, r, i, rec, n), UNCHANGED <<loans, applied>>,
         s \in {"seek", "append"} => pc[t] \in {"seek", "append"}
  PROVE  Counted'
<1>1. Applying' \subseteq Applying
  BY Moved DEF Applying, TypeInv
<1> QED BY <1>1, CountedKept DEF TypeInv, TypeOK

\* What is left of TypeOK for a step that changes neither files nor counters.
LEMMA MovesTypeInv ==
  ASSUME TypeInv, NEW t \in Threads, NEW s \in Steps,
         NEW r \in Requests \cup {NoRequest}, NEW i \in Positions \cup {0},
         NEW rec \in LoanRec \cup {NoLoan}, NEW n \in Nat,
         Moves(t, s, r, i, rec, n),
         s \in {"seek", "append"} => pc[t] \in {"seek", "append"},
         Flowing(s, r, i, rec, n, Len(loans)),
         loanLock' \in LockTable(Positions),
         accounts' \in [Accounts -> [balance : Int, active : BOOLEAN]],
         faults' \in Nat, served' \in Nat, paid' \in [Positions -> Nat],
         UNCHANGED <<loans, employees, applied, changes, exits>>
  PROVE  TypeInv'
<1>0. /\ Len(loans) \in Nat /\ Len(loans') \in Nat /\ Len(loans) <= Len(loans')
      /\ Flowing(s, r, i, rec, n, Len(loans'))
  BY DEF TypeInv, TypeOK
<1>1. Counted'
  BY MovesCounted
<1>2. /\ pc' \in [Threads -> Steps]
      /\ req' \in [Threads -> Requests \cup {NoRequest}]
      /\ at' \in [Threads -> Positions \cup {0}]
      /\ tmp' \in [Threads -> LoanRec \cup {NoLoan}]
      /\ newId' \in [Threads -> Nat]
      /\ Flow'
  BY <1>0, MovesTyped DEF TypeInv
<1>3. TypeOK'
  BY <1>2 DEF TypeInv, TypeOK
<1> QED BY <1>1, <1>2, <1>3 DEF TypeInv

\* The initial state is typed; nothing is under way.
LEMMA InitTyped == Init => TypeInv
<1> SUFFICES ASSUME Init PROVE TypeInv  OBVIOUS
<1>1. /\ loanLock \in LockTable(Positions)
      /\ accounts \in [Accounts -> [balance : Int, active : BOOLEAN]]
  BY OpeningAssumption DEF Init, Unlocked, LockTable, Money!AInit
<1>2. TypeOK
  BY <1>1, PeopleAssumption, BoundsAssumption DEF Init, TypeOK, Steps
<1>3. Flow
  BY DEF Init, Flow, Flowing, Updating, Modifying
<1>4. Applying = {}
  BY DEF Init, Applying
<1>5. Counted
  BY <1>4, FS_EmptySet, BoundsAssumption DEF Counted, Init
<1> QED BY <1>2, <1>3, <1>5 DEF TypeInv

\* An application is counted when it is let in.
LEMMA ReceiveTyped ==
  ASSUME TypeInv, NEW t \in Threads, Receive(t)
  PROVE  TypeInv'
<1> USE DEF bank
<1>1. PICK r \in Requests :
        /\ req' = [req EXCEPT ![t] = r]
        /\ \/ apply_loan(t, r)
           \/ assign_loan_to_employee(t, r)
           \/ approve_reject_loan(t, r)
           \/ list_loans(t, r)
  BY DEF Receive
<1>2. /\ Len(loans) \in Nat /\ Len(loans') \in Nat /\ Len(loans) <= Len(loans')
      /\ at[t] \in Positions \cup {0} /\ tmp[t] \in LoanRec \cup {NoLoan}
      /\ newId[t] \in Nat /\ applied \in Nat
  BY DEF Receive, TypeInv, TypeOK
<1>3. PICK s \in {"refused", "seek", "find", "list"} :
        /\ Moves(t, s, r, at[t], tmp[t], newId[t])
        /\ Flowing(s, r, at[t], tmp[t], newId[t], Len(loans'))
        /\ s = "seek" => applied < MaxLoans /\ applied' = applied + 1
        /\ s # "seek" => applied' = applied
  <2>1. UNCHANGED <<at, tmp, newId>>
    BY DEF Receive
  <2>2. /\ at' = [at EXCEPT ![t] = at[t]]
        /\ tmp' = [tmp EXCEPT ![t] = tmp[t]]
        /\ newId' = [newId EXCEPT ![t] = newId[t]]
    BY <2>1 DEF TypeInv, TypeOK
  <2> QED
    BY <1>1, <2>2 DEF apply_loan, assign_loan_to_employee, approve_reject_loan,
                      list_loans, Goto, Moves, Flowing, Updating, Modifying
<1>4. s \in Steps
  BY <1>3 DEF Steps
<1>5. /\ pc' \in [Threads -> Steps]
      /\ req' \in [Threads -> Requests \cup {NoRequest}]
      /\ at' \in [Threads -> Positions \cup {0}]
      /\ tmp' \in [Threads -> LoanRec \cup {NoLoan}]
      /\ newId' \in [Threads -> Nat]
      /\ Flow'
  BY <1>2, <1>3, <1>4, MovesTyped DEF TypeInv
<1>6. TypeOK'
  BY <1>2, <1>3, <1>5, BoundsAssumption DEF Receive, TypeInv, TypeOK
<1>7. Counted'
  <2>1. CASE s = "seek"
    <3>1. /\ pc'[t] = "seek" /\ pc[t] = "recv"
          /\ \A u \in Threads \ {t} : pc'[u] = pc[u]
      BY <1>3, <2>1, Moved DEF Receive, TypeInv
    <3>2. Applying' = Applying \cup {t} /\ t \notin Applying
      BY <3>1 DEF Applying
    <3>3. /\ IsFiniteSet(Applying')
          /\ Cardinality(Applying') = Cardinality(Applying) + 1
      BY <3>2, FS_AddElement DEF TypeInv, Counted
    <3>4. Cardinality(Applying) \in Nat /\ loans' = loans
      BY FS_CardinalityType DEF Receive, TypeInv, Counted
    <3> QED BY <1>2, <1>3, <2>1, <3>3, <3>4, BoundsAssumption DEF TypeInv, Counted
  <2>2. CASE s # "seek"
    <3>1. s \notin {"seek", "append"} /\ UNCHANGED <<loans, applied>>
      BY <1>3, <2>2 DEF Receive
    <3> QED BY <1>3, <3>1, MovesCounted
  <2> QED BY <2>1, <2>2
<1> QED BY <1>5, <1>6, <1>7 DEF TypeInv

\* Answers that leave the loans as they are.
LEMMA AnswerTyped ==
  ASSUME TypeInv, NEW t \in Threads, Answer(t),
         loanLock' \in LockTable(Positions), faults' \in Nat,
         UNCHANGED <<loans, bank, employees, served, applied, changes, exits, paid>>
  PROVE  TypeInv'
<1>1. Moves(t, "recv", NoRequest, 0, NoLoan, 0)
  BY AnswerMoves
<1>2. Flowing("recv", NoRequest, 0, NoLoan, 0, Len(loans)) /\ "recv" \in Steps
  BY DEF Flowing, Updating, Modifying, Steps
<1>3. /\ accounts' \in [Accounts -> [balance : Int, active : BOOLEAN]]
      /\ paid' \in [Positions -> Nat]
      /\ served' \in Nat
  BY DEF bank, TypeInv, TypeOK
<1> QED BY <1>1, <1>2, <1>3, MovesTypeInv

\* Jumps that leave files and locals as they are.
LEMMA GotoTyped ==
  ASSUME TypeInv, NEW t \in Threads, NEW s \in Steps \ {"seek", "append"}, Goto(t, s),
         Flowing(s, req[t], at[t], tmp[t], newId[t], Len(loans)),
         loanLock' \in LockTable(Positions), faults' \in Nat,
         accounts' \in [Accounts -> [balance : Int, active : BOOLEAN]],
         paid' \in [Positions -> Nat],
         UNCHANGED <<loans, employees, locals, served, applied, changes, exits>>
  PROVE  TypeInv'
<1>1. Moves(t, s, req[t], at[t], tmp[t], newId[t])
  BY GotoMoves DEF TypeInv
<1>2. /\ req[t] \in Requests \cup {NoRequest} /\ at[t] \in Positions \cup {0}
      /\ tmp[t] \in LoanRec \cup {NoLoan} /\ newId[t] \in Nat
      /\ served' \in Nat
  BY DEF TypeInv, TypeOK
<1> QED BY <1>1, <1>2, MovesTypeInv

\* Refusals, listings and the end of an update keep types and control flow.
LEMMA EndTyped ==
  ASSUME TypeInv, NEW t \in Threads, Refuse(t) \/ ListLoans(t) \/ UnlockLoan(t)
  PROVE  TypeInv'
<1>1. loanLock' \in LockTable(Positions)
  <2>1. /\ Close(loanLock, ProcOf[t]) \in LockTable(Positions)
        /\ ReadOnlyPass(loanLock, ProcOf[t]) \in LockTable(Positions)
        /\ loanLock \in LockTable(Positions)
    BY LockTyped, ThreadsAssumption DEF TypeInv, TypeOK
  <2> QED BY <2>1 DEF Refuse, ListLoans, UnlockLoan
<1>2. /\ Answer(t) /\ faults' \in Nat
      /\ UNCHANGED <<loans, bank, employees, served, applied, changes, exits, paid>>
  BY DEF Refuse, ListLoans, UnlockLoan, counts, TypeInv, TypeOK
<1> QED BY <1>1, <1>2, AnswerTyped

\* What the id of an application is computed from, with the lock or without.
LEMMA ComputesIdTyped ==
  ASSUME TypeInv, NEW t \in Threads, pc[t] = "seek",
         newId' = [newId EXCEPT ![t] = Len(loans) + 1], Goto(t, "append"),
         loanLock' \in LockTable(Positions), faults' \in Nat,
         UNCHANGED <<loans, bank, employees, req, at, tmp, served, applied, changes,
                     exits, paid>>
  PROVE  TypeInv'
<1>1. Moves(t, "append", req[t], at[t], tmp[t], Len(loans) + 1)
  BY DEF Moves, Goto, TypeInv, TypeOK
<1>2. /\ req[t] \in Requests \cup {NoRequest} /\ at[t] \in Positions \cup {0}
      /\ tmp[t] \in LoanRec \cup {NoLoan} /\ Len(loans) + 1 \in Nat \ {0}
      /\ served' \in Nat /\ paid' \in [Positions -> Nat]
      /\ accounts' \in [Accounts -> [balance : Int, active : BOOLEAN]]
  BY DEF TypeInv, TypeOK, bank
<1>3. Flowing("append", req[t], at[t], tmp[t], Len(loans) + 1, Len(loans))
  BY <1>2 DEF TypeInv, Flow, Flowing, Updating, Modifying
<1>4. "append" \in Steps
  BY DEF Steps
<1> QED BY <1>1, <1>2, <1>3, <1>4, MovesTypeInv

\* lock_file() and lseek() keep types and control flow.
LEMMA SeekEndTyped ==
  ASSUME TypeInv, NEW t \in Threads, SeekEnd(t)
  PROVE  TypeInv'
<1>1. loanLock' \in LockTable(Positions)
  BY LockTyped, ThreadsAssumption DEF SeekEnd, TypeInv, TypeOK
<1>2. /\ faults' \in Nat
      /\ UNCHANGED <<loans, bank, employees, req, at, tmp, served, applied, changes,
                     exits, paid>>
  BY DEF SeekEnd, counts, TypeInv, TypeOK
<1> QED BY <1>1, <1>2, ComputesIdTyped DEF SeekEnd

\* An application under way has room in loans.db.
LEMMA RoomToAppend ==
  ASSUME TypeInv, NEW t \in Threads, pc[t] \in {"seek", "append"}
  PROVE  /\ Len(loans) < MaxLoans
         /\ Len(loans) + 1 \in Positions
<1>1. t \in Applying
  BY DEF Applying
<1>2. Cardinality(Applying) \in Nat /\ Cardinality(Applying) # 0
  BY <1>1, FS_EmptySet, FS_CardinalityType DEF TypeInv, Counted
<1>3. Len(loans) \in Nat /\ applied \in Nat
  BY DEF TypeInv, TypeOK
<1> QED BY <1>2, <1>3, BoundsAssumption DEF TypeInv, Counted, Positions

\* An append takes the place that was counted for it.
LEMMA AppendLoanTyped ==
  ASSUME TypeInv, NEW t \in Threads, AppendLoan(t)
  PROVE  TypeInv'
<1> DEFINE new == [id |-> newId[t], user |-> req[t].user, amount |-> req[t].amount,
                   status |-> "PENDING", assigned |-> Nobody]
<1>1. new \in LoanRec
  <2>1. req[t] \in Requests /\ req[t].op = "APPLY_LOAN" /\ newId[t] \in Nat \ {0}
    BY DEF AppendLoan, TypeInv, Flow, Flowing
  <2>2. req[t].user \in Ids /\ req[t].amount \in Amounts
    BY <2>1, RequestFields
  <2> QED BY <2>1, <2>2 DEF LoanRec, LoanStatus
<1>2. loans' = Append(loans, new) /\ loans \in Seq(LoanRec)
  BY DEF AppendLoan, TypeInv, TypeOK
<1> HIDE DEF new
<1>3. /\ loans' \in Seq(LoanRec) /\ Len(loans') = Len(loans) + 1
      /\ Len(loans) \in Nat /\ Len(loans') \in Nat /\ Len(loans) <= Len(loans')
  BY <1>1, <1>2
<1>4. Len(loans') <= MaxLoans
  BY <1>3, RoomToAppend, BoundsAssumption DEF AppendLoan
<1>5. Moves(t, "recv", NoRequest, 0, NoLoan, 0)
  BY AnswerMoves DEF AppendLoan
<1>6. Flowing("recv", NoRequest, 0, NoLoan, 0, Len(loans')) /\ "recv" \in Steps
  BY DEF Flowing, Updating, Modifying, Steps
<1>7. /\ pc' \in [Threads -> Steps]
      /\ req' \in [Threads -> Requests \cup {NoRequest}]
      /\ at' \in [Threads -> Positions \cup {0}]
      /\ tmp' \in [Threads -> LoanRec \cup {NoLoan}]
      /\ newId' \in [Threads -> Nat]
      /\ Flow'
  BY <1>3, <1>5, <1>6, MovesTyped DEF TypeInv
<1>8. loanLock' \in LockTable(Positions)
  BY LockTyped, ThreadsAssumption DEF AppendLoan, TypeInv, TypeOK
<1>9. TypeOK'
  BY <1>3, <1>4, <1>7, <1>8 DEF AppendLoan, bank, counts, TypeInv, TypeOK
<1>10. Counted'
  <2>1. /\ pc'[t] = "recv" /\ pc[t] = "append"
        /\ \A u \in Threads \ {t} : pc'[u] = pc[u]
    BY <1>5, Moved DEF AppendLoan, TypeInv
  <2>2. Applying' = Applying \ {t} /\ t \in Applying
    BY <2>1 DEF Applying
  <2>3. /\ IsFiniteSet(Applying')
        /\ Cardinality(Applying') = Cardinality(Applying) - 1
    BY <2>2, FS_RemoveElement DEF TypeInv, Counted
  <2>4. Cardinality(Applying) \in Nat /\ applied' = applied /\ applied \in Nat
    BY FS_CardinalityType DEF AppendLoan, counts, TypeInv, TypeOK, Counted
  <2> QED BY <1>3, <2>3, <2>4 DEF TypeInv, Counted
<1> QED BY <1>7, <1>9, <1>10 DEF TypeInv

\* find_loan_offset() keeps types and control flow.
LEMMA FindLoanTyped ==
  ASSUME TypeInv, NEW t \in Threads, FindLoan(t)
  PROVE  TypeInv'
<1>1. /\ loanLock' \in LockTable(Positions) /\ faults' \in Nat
      /\ UNCHANGED <<loans, bank, employees, served, applied, changes, exits, paid>>
  BY LockTyped, ThreadsAssumption DEF FindLoan, counts, TypeInv, TypeOK
<1>2. CASE Answer(t)
  BY <1>1, <1>2, AnswerTyped
<1>3. ASSUME NEW i \in DOMAIN loans, at' = [at EXCEPT ![t] = i], Goto(t, "lock"),
             UNCHANGED <<req, tmp, newId>>
      PROVE  TypeInv'
  <2>1. Moves(t, "lock", req[t], i, tmp[t], newId[t])
    BY <1>3 DEF Moves, Goto, TypeInv, TypeOK
  <2>2. i \in 1..Len(loans) /\ i \in Positions \cup {0}
    BY <1>3, BoundsAssumption DEF TypeInv, TypeOK, Positions
  <2>3. /\ req[t] \in Requests \cup {NoRequest}
        /\ tmp[t] \in LoanRec \cup {NoLoan} /\ newId[t] \in Nat
        /\ served' \in Nat /\ paid' \in [Positions -> Nat]
        /\ accounts' \in [Accounts -> [balance : Int, active : BOOLEAN]]
    BY <1>1 DEF TypeInv, TypeOK, bank
  <2>4. Flowing("lock", req[t], i, tmp[t], newId[t], Len(loans)) /\ "lock" \in Steps
    BY <2>2 DEF FindLoan, TypeInv, Flow, Flowing, Updating, Modifying, Steps
  <2> QED BY <1>1, <2>1, <2>2, <2>3, <2>4, MovesTypeInv
<1> QED BY <1>2, <1>3 DEF FindLoan

\* lock_record() keeps types and control flow.
LEMMA LockLoanTyped ==
  ASSUME TypeInv, NEW t \in Threads, LockLoan(t)
  PROVE  TypeInv'
<1>1. loanLock' \in LockTable(Positions)
  BY LockTyped, ThreadsAssumption DEF LockLoan, TypeInv, TypeOK
<1>2. Flowing("read", req[t], at[t], tmp[t], newId[t], Len(loans))
  BY DEF LockLoan, TypeInv, Flow, Flowing, Updating, Modifying
<1>3. "read" \in Steps \ {"seek", "append"}
  BY DEF Steps
<1>4. /\ faults' \in Nat /\ paid' \in [Positions -> Nat]
      /\ accounts' \in [Accounts -> [balance : Int, active : BOOLEAN]]
      /\ UNCHANGED <<loans, employees, locals, served, applied, changes, exits>>
  BY DEF LockLoan, counts, bank, TypeInv, TypeOK
<1> QED BY <1>1, <1>2, <1>3, <1>4, GotoTyped DEF LockLoan

\* What a thread has in hand between lock_record() and unlock_record().
LEMMA InHand ==
  ASSUME TypeInv, NEW t \in Threads, pc[t] \in Updating
  PROVE  /\ req[t] \in Requests
         /\ req[t].op \in {"ASSIGN_LOAN", "APPROVE_REJECT_LOAN"}
         /\ at[t] \in DOMAIN loans /\ at[t] \in Positions
         /\ loans[at[t]] \in LoanRec
         /\ pc[t] \in Modifying => tmp[t] \in LoanRec
<1>1. /\ req[t] \in Requests /\ at[t] \in 1..Len(loans)
      /\ req[t].op \in {"ASSIGN_LOAN", "APPROVE_REJECT_LOAN"}
      /\ pc[t] \in Modifying => tmp[t] \in LoanRec
  BY DEF TypeInv, Flow, Flowing
<1>2. loans \in Seq(LoanRec) /\ Len(loans) <= MaxLoans
  BY DEF TypeInv, TypeOK
<1> QED BY <1>1, <1>2, BoundsAssumption DEF Positions

\* A step of a modifier: only the copy of the record changes.
LEMMA ModifierTyped ==
  ASSUME TypeInv, NEW t \in Threads, pc[t] \in Updating,
         NEW s \in Updating \ {"deposit", "log"}, NEW rec \in LoanRec \cup {NoLoan},
         s \in Modifying => rec \in LoanRec, s = "check" => rec.status = "APPROVED",
         Goto(t, s), tmp' = [tmp EXCEPT ![t] = rec],
         UNCHANGED <<loans, loanLock, bank, employees, req, at, newId, counts, paid>>
  PROVE  TypeInv'
<1>1. Moves(t, s, req[t], at[t], rec, newId[t])
  BY DEF Moves, Goto, TypeInv, TypeOK
<1>2. Flowing(s, req[t], at[t], rec, newId[t], Len(loans))
  BY DEF TypeInv, Flow, Flowing, Updating, Modifying
<1>3. /\ req[t] \in Requests \cup {NoRequest} /\ at[t] \in Positions \cup {0}
      /\ newId[t] \in Nat /\ served' \in Nat /\ faults' \in Nat
      /\ paid' \in [Positions -> Nat] /\ loanLock' \in LockTable(Positions)
      /\ accounts' \in [Accounts -> [balance : Int, active : BOOLEAN]]
      /\ UNCHANGED <<loans, employees, applied, changes, exits>>
  BY DEF TypeInv, TypeOK, bank, counts
<1>4. s \in Steps /\ s \notin {"seek", "append"}
  BY DEF Steps, Updating
<1> QED BY <1>1, <1>2, <1>3, <1>4, MovesTypeInv

\* Reading the record keeps types and control flow.
LEMMA ReadLoanTyped ==
  ASSUME TypeInv, NEW t \in Threads, ReadLoan(t)
  PROVE  TypeInv'
<1>1. pc[t] \in Updating /\ pc[t] = "read"
  BY DEF ReadLoan, Updating
<1>2. loans[at[t]] \in LoanRec
  BY <1>1, InHand
<1>3. /\ [loans[at[t]] EXCEPT !.status = "APPROVED"] \in LoanRec
      /\ [loans[at[t]] EXCEPT !.status = "REJECTED"] \in LoanRec
  BY <1>2 DEF LoanRec, LoanStatus
<1>4. tmp = [tmp EXCEPT ![t] = tmp[t]] /\ tmp[t] \in LoanRec \cup {NoLoan}
  BY DEF TypeInv, TypeOK
<1>5. PICK s \in {"role", "check", "write", "unlock"}, rec \in LoanRec \cup {NoLoan} :
        /\ Goto(t, s) /\ tmp' = [tmp EXCEPT ![t] = rec]
        /\ s # "unlock" => rec \in LoanRec
        /\ s = "check" => rec.status = "APPROVED"
  BY <1>2, <1>3, <1>4 DEF ReadLoan, LoanRec
<1>6. s \in Updating \ {"deposit", "log"} /\ (s \in Modifying => rec \in LoanRec)
  BY <1>5 DEF Updating, Modifying
<1> QED BY <1>1, <1>5, <1>6, ModifierTyped DEF ReadLoan

\* read_user() keeps types and control flow.
LEMMA CheckEmployeeTyped ==
  ASSUME TypeInv, NEW t \in Threads, CheckEmployee(t)
  PROVE  TypeInv'
<1>1. pc[t] \in Updating /\ pc[t] \in Modifying
  BY DEF CheckEmployee, Updating, Modifying
<1>2. tmp[t] \in LoanRec /\ req[t].emp \in Staff
  BY <1>1, InHand, RequestFields
<1>3. tmp = [tmp EXCEPT ![t] = tmp[t]]
  BY DEF TypeInv, TypeOK
<1>4. CASE /\ tmp' = [tmp EXCEPT ![t].assigned = req[t].emp, ![t].status = "ASSIGNED"]
           /\ Goto(t, "write")
  <2> DEFINE rec == [tmp[t] EXCEPT !.assigned = req[t].emp, !.status = "ASSIGNED"]
  <2>1. tmp' = [tmp EXCEPT ![t] = rec]
    BY <1>4, <1>3 DEF TypeInv, TypeOK
  <2>2. rec \in LoanRec
    BY <1>2 DEF LoanRec, LoanStatus
  <2>3. "write" \in Updating \ {"deposit", "log"}
    BY DEF Updating
  <2> HIDE DEF rec
  <2> QED BY <1>1, <1>4, <2>1, <2>2, <2>3, ModifierTyped DEF CheckEmployee
<1>5. CASE Goto(t, "unlock") /\ UNCHANGED tmp
  <2>1. "unlock" \in Updating \ {"deposit", "log"} /\ "unlock" \notin Modifying
    BY DEF Updating, Modifying
  <2> QED BY <1>1, <1>2, <1>3, <1>5, <2>1, ModifierTyped DEF CheckEmployee
<1> QED BY <1>4, <1>5 DEF CheckEmployee

\* The check of the account, the deposit and its log keep types and control
\* flow.
LEMMA PayingTyped ==
  ASSUME TypeInv, NEW t \in Threads, CheckAccount(t) \/ Deposit(t) \/ LogDeposit(t)
  PROVE  TypeInv'
<1>1. pc[t] \in Updating /\ pc[t] \in Modifying
  BY DEF CheckAccount, Deposit, LogDeposit, Updating, Modifying
<1>2. tmp[t] \in LoanRec /\ at[t] \in Positions /\ tmp[t].amount \in Int
  BY <1>1, InHand, AmountsAssumption DEF LoanRec
<1>3. PICK s \in {"deposit", "log", "write", "unlock"} :
        /\ Goto(t, s)
        /\ s \in {"deposit", "log"} => tmp[t].user \in Accounts /\ tmp[t].status = "APPROVED"
  BY DEF CheckAccount, Deposit, LogDeposit, TypeInv, Flow, Flowing
<1>4. Flowing(s, req[t], at[t], tmp[t], newId[t], Len(loans))
  BY <1>1, <1>2, <1>3 DEF TypeInv, Flow, Flowing, Updating, Modifying
<1>5. s \in Steps \ {"seek", "append"}
  BY <1>3 DEF Steps
<1>6. accounts' \in [Accounts -> [balance : Int, active : BOOLEAN]]
  <2> DEFINE deposited == [accounts EXCEPT ![tmp[t].user].balance = @ + tmp[t].amount]
  <2>1. accounts' \in {accounts, deposited}
    BY DEF CheckAccount, Deposit, LogDeposit, Money!ACredit, Money!ALog, bank
  <2>2. ASSUME NEW rec \in [balance : Int, active : BOOLEAN]
        PROVE  [rec EXCEPT !.balance = @ + tmp[t].amount] \in [balance : Int, active : BOOLEAN]
    <3>1. rec.balance + tmp[t].amount \in Int
      BY <1>2
    <3> QED BY <3>1, Zenon
  <2>3. accounts \in [Accounts -> [balance : Int, active : BOOLEAN]]
    BY DEF TypeInv, TypeOK
  <2>4. deposited \in [Accounts -> [balance : Int, active : BOOLEAN]]
    BY <2>2, <2>3, Zenon
  <2> QED BY <2>1, <2>3, <2>4
<1>7. paid' \in [Positions -> Nat]
  BY <1>2 DEF CheckAccount, Deposit, LogDeposit, bank, TypeInv, TypeOK
<1>8. /\ loanLock' \in LockTable(Positions) /\ faults' \in Nat
      /\ UNCHANGED <<loans, employees, locals, served, applied, changes, exits>>
  BY DEF CheckAccount, Deposit, LogDeposit, counts, TypeInv, TypeOK
<1> QED BY <1>3, <1>4, <1>5, <1>6, <1>7, <1>8, GotoTyped

\* write() of the record keeps types and control flow.
LEMMA WriteLoanTyped ==
  ASSUME TypeInv, NEW t \in Threads, WriteLoan(t)
  PROVE  TypeInv'
<1>1. pc[t] \in Updating /\ pc[t] \in Modifying /\ pc[t] = "write"
  BY DEF WriteLoan, Updating, Modifying
<1>2. tmp[t] \in LoanRec /\ at[t] \in DOMAIN loans /\ loans \in Seq(LoanRec)
  BY <1>1, InHand DEF TypeInv, TypeOK
<1>3. /\ loans' \in Seq(LoanRec) /\ Len(loans') = Len(loans) /\ Len(loans) \in Nat
  BY <1>2 DEF WriteLoan
<1>4. Moves(t, "unlock", req[t], at[t], tmp[t], newId[t])
  BY GotoMoves DEF WriteLoan, TypeInv
<1>5. Flowing("unlock", req[t], at[t], tmp[t], newId[t], Len(loans'))
  BY <1>1, <1>3 DEF TypeInv, Flow, Flowing, Updating, Modifying
<1>6. /\ req[t] \in Requests \cup {NoRequest} /\ at[t] \in Positions \cup {0}
      /\ tmp[t] \in LoanRec \cup {NoLoan} /\ newId[t] \in Nat
      /\ "unlock" \in Steps /\ Len(loans') \in Nat /\ Len(loans) <= Len(loans')
  BY <1>3 DEF TypeInv, TypeOK, Steps
<1>7. /\ pc' \in [Threads -> Steps]
      /\ req' \in [Threads -> Requests \cup {NoRequest}]
      /\ at' \in [Threads -> Positions \cup {0}]
      /\ tmp' \in [Threads -> LoanRec \cup {NoLoan}]
      /\ newId' \in [Threads -> Nat]
      /\ Flow'
  BY <1>3, <1>4, <1>5, <1>6, MovesTyped DEF TypeInv
<1>8. TypeOK'
  BY <1>3, <1>7 DEF WriteLoan, bank, counts, TypeInv, TypeOK
<1>9. Counted'
  <2>1. Applying' = Applying
    BY <1>1, <1>4, Moved DEF Applying, TypeInv
  <2> QED BY <1>3, <2>1 DEF WriteLoan, counts, TypeInv, Counted
<1> QED BY <1>7, <1>8, <1>9 DEF TypeInv

\* Managers and admins at work elsewhere keep types and control flow.
LEMMA ElsewhereTyped ==
  ASSUME TypeInv, \/ \E a \in Accounts : SetStatus(a)
                  \/ \E e \in Staff : ChangeRole(e)
  PROVE  TypeInv'
<1>1. /\ UNCHANGED <<loans, loanLock, pc, locals, served, applied, faults, exits, paid>>
      /\ changes' \in Nat
  BY DEF SetStatus, ChangeRole, TypeInv, TypeOK
<1>2. accounts' \in [Accounts -> [balance : Int, active : BOOLEAN]]
  <2>1. CASE \E e \in Staff : ChangeRole(e)
    BY <2>1 DEF ChangeRole, bank, TypeInv, TypeOK
  <2>2. ASSUME NEW a \in Accounts, SetStatus(a)
        PROVE  accounts' \in [Accounts -> [balance : Int, active : BOOLEAN]]
    <3>1. accounts' = [accounts EXCEPT ![a].active = ~accounts[a].active]
      BY <2>2 DEF SetStatus, Money!ASetStatus
    <3>2. (~accounts[a].active) \in BOOLEAN
      OBVIOUS
    <3> QED BY <3>1, <3>2 DEF TypeInv, TypeOK
  <2> QED BY <2>1, <2>2
<1>3. employees' \subseteq Staff
  BY DEF SetStatus, ChangeRole, TypeInv, TypeOK
<1>4. TypeOK'
  BY <1>1, <1>2, <1>3 DEF locals, TypeInv, TypeOK
<1>5. Flow'
  BY <1>1 DEF locals, TypeInv, Flow
<1>6. Counted'
  BY <1>1 DEF TypeInv, Counted, Applying
<1> QED BY <1>4, <1>5, <1>6 DEF TypeInv

\* A failing call keeps types and control flow.
LEMMA SystemCallFailsTyped ==
  ASSUME TypeInv, NEW t \in Threads, SystemCallFails(t)
  PROVE  TypeInv'
<1>1. /\ faults' \in Nat
      /\ UNCHANGED <<loans, bank, employees, served, applied, changes, exits, paid>>
  BY DEF SystemCallFails, TypeInv, TypeOK
<1>2. loanLock' \in LockTable(Positions)
  <2>1. /\ Close(loanLock, ProcOf[t]) \in LockTable(Positions)
        /\ loanLock \in LockTable(Positions)
    BY LockTyped, ThreadsAssumption DEF TypeInv, TypeOK
  <2> QED BY <2>1 DEF SystemCallFails
<1>3. CASE Answer(t)
  BY <1>1, <1>2, <1>3, AnswerTyped
<1>4. CASE /\ pc[t] = "seek" /\ newId' = [newId EXCEPT ![t] = Len(loans) + 1]
           /\ Goto(t, "append") /\ UNCHANGED <<loanLock, req, at, tmp>>
  BY <1>1, <1>2, <1>4, ComputesIdTyped
<1>5. ASSUME NEW s \in {"unlock", "write"}, Goto(t, s), UNCHANGED <<loanLock, locals>>,
             pc[t] \in {"read", "role", "check", "deposit", "write", "log"},
             s = "write" => pc[t] = "log"
      PROVE  TypeInv'
  <2>1. Flowing(s, req[t], at[t], tmp[t], newId[t], Len(loans))
    BY <1>5 DEF TypeInv, Flow, Flowing, Updating, Modifying
  <2>2. s \in Steps \ {"seek", "append"}
    BY <1>5 DEF Steps
  <2>3. /\ accounts' \in [Accounts -> [balance : Int, active : BOOLEAN]]
        /\ paid' \in [Positions -> Nat]
    BY <1>1 DEF bank, TypeInv, TypeOK
  <2> QED BY <1>1, <1>2, <1>5, <2>1, <2>2, <2>3, GotoTyped
<1> QED BY <1>3, <1>4, <1>5 DEF SystemCallFails

\* An exit of a server keeps types and control flow.
LEMMA ExitTyped ==
  ASSUME TypeInv, NEW p \in Procs, Exit(p)
  PROVE  TypeInv'
<1>1. loanLock' \in LockTable(Positions)
  BY LockTyped DEF Exit, TypeInv, TypeOK
<1>2. /\ pc' \in [Threads -> Steps]
      /\ req' \in [Threads -> Requests \cup {NoRequest}]
      /\ at' \in [Threads -> Positions \cup {0}]
      /\ newId' \in [Threads -> Nat]
  BY DEF Exit, TypeInv, TypeOK, Steps
<1>3. tmp' \in [Threads -> LoanRec \cup {NoLoan}]
  BY DEF Exit, TypeInv, TypeOK
<1>4. TypeOK'
  BY <1>1, <1>2, <1>3 DEF Exit, bank, TypeInv, TypeOK
<1>5. ASSUME NEW u \in Threads
      PROVE  Flowing(pc'[u], req'[u], at'[u], tmp'[u], newId'[u], Len(loans'))
  <2>1. CASE ProcOf[u] = p
    BY <2>1 DEF Exit, Flowing, Updating, Modifying
  <2>2. CASE ProcOf[u] # p
    BY <2>2 DEF Exit, TypeInv, Flow
  <2> QED BY <2>1, <2>2
<1>6. Counted'
  <2>1. Applying' \subseteq Applying
    BY DEF Exit, Applying
  <2>2. UNCHANGED <<loans, applied>>
    BY DEF Exit
  <2> QED BY <2>1, <2>2, CountedKept DEF TypeInv, TypeOK
<1> QED BY <1>4, <1>5, <1>6 DEF TypeInv, Flow

\* Every step keeps types and control flow.
LEMMA NextTyped == TypeInv /\ [Next]_vars => TypeInv'
<1> SUFFICES ASSUME TypeInv, [Next]_vars PROVE TypeInv'  OBVIOUS
<1>1. CASE UNCHANGED vars
  BY <1>1 DEF vars, bank, locals, counts, TypeInv, TypeOK, Flow, Counted, Applying
<1>2. ASSUME NEW t \in Threads, Receive(t) PROVE TypeInv'
  BY <1>2, ReceiveTyped
<1>3. ASSUME NEW t \in Threads, HandlerStep(t) PROVE TypeInv'
  BY <1>3, EndTyped, SeekEndTyped, AppendLoanTyped, FindLoanTyped, LockLoanTyped,
     ReadLoanTyped, CheckEmployeeTyped, PayingTyped, WriteLoanTyped DEF HandlerStep
<1>4. ASSUME NEW t \in Threads, SystemCallFails(t) PROVE TypeInv'
  BY <1>4, SystemCallFailsTyped
<1>5. ASSUME NEW p \in Procs, Exit(p) PROVE TypeInv'
  BY <1>5, ExitTyped
<1> QED BY <1>1, <1>2, <1>3, <1>4, <1>5, ElsewhereTyped DEF Next

\* Every variable keeps its type, every thread its place in the code, and
\* loans.db never outgrows the applications let in.
THEOREM TypeCorrect == Spec => [](TypeOK /\ Flow /\ Counted)
<1>1. Init => TypeInv  BY InitTyped
<1>2. TypeInv /\ [Next]_vars => TypeInv'  BY NextTyped
<1>3. TypeInv => TypeOK /\ Flow /\ Counted  BY DEF TypeInv
<1> QED BY <1>1, <1>2, <1>3, PTL DEF Spec

-----------------------------------------------------------------------------
(* No approval without payment, in every regime.                           *)

\* The thread has paid out its loan and not yet written that down.
Paying(t) == pc[t] = "log" \/ (pc[t] = "write" /\ tmp[t].status = "APPROVED")

\* What a step does to loans and payments unless it deposits, writes a loan
\* or appends one: a payment may be forgotten only by a failure.
Calm ==
  /\ UNCHANGED <<loans, paid>>
  /\ \A u \in Threads : Paying(u)' => Paying(u) /\ at'[u] = at[u]
  /\ faults' + exits' >= faults + exits
  /\ \/ faults' + exits' >= faults + exits + 1
     \/ \A u \in Threads : Paying(u) => Paying(u)' /\ at'[u] = at[u]

\* A thread that is not paying, and is not after its move, is no concern of
\* Calm.
LEMMA CalmMove ==
  ASSUME TypeInv, NEW t \in Threads, NEW s, NEW r, NEW i, NEW rec, NEW n,
         Moves(t, s, r, i, rec, n), UNCHANGED <<loans, paid, faults, exits>>,
         ~Paying(t), s # "log", s = "write" => rec.status # "APPROVED"
  PROVE  Calm
<1>1. ~Paying(t)'
  BY Moved DEF Paying, TypeInv
<1>2. \A u \in Threads \ {t} : (Paying(u)' <=> Paying(u)) /\ at'[u] = at[u]
  BY Moved DEF Paying, TypeInv
<1>3. faults \in Nat /\ exits \in Nat
  BY DEF TypeInv, TypeOK
<1> QED BY <1>1, <1>2, <1>3 DEF Calm

\* Every step but a deposit and a write to loans.db is calm.
LEMMA CalmSteps ==
  ASSUME TypeInv, [Next]_vars,
         ~ \E t \in Threads : Deposit(t) \/ WriteLoan(t) \/ AppendLoan(t)
  PROVE  Calm
<1> USE DEF counts
<1>0. faults \in Nat /\ exits \in Nat
  BY DEF TypeInv, TypeOK
<1>1. CASE UNCHANGED vars
  BY <1>0, <1>1 DEF vars, locals, Calm, Paying
<1>2. ASSUME NEW t \in Threads, Receive(t) PROVE Calm
  <2>1. PICK r \in Requests : /\ req' = [req EXCEPT ![t] = r]
                              /\ \/ apply_loan(t, r)
                                 \/ assign_loan_to_employee(t, r)
                                 \/ approve_reject_loan(t, r)
                                 \/ list_loans(t, r)
    BY <1>2 DEF Receive
  <2>2. PICK s \in {"refused", "seek", "find", "list"} : Goto(t, s)
    BY <2>1 DEF apply_loan, assign_loan_to_employee, approve_reject_loan, list_loans
  <2>3. Moves(t, s, r, at[t], tmp[t], newId[t]) /\ ~Paying(t)
    BY <1>2, <2>1, <2>2 DEF Receive, Moves, Goto, Paying, TypeInv, TypeOK
  <2> QED BY <1>2, <2>2, <2>3, CalmMove DEF Receive
<1>3. ASSUME NEW t \in Threads, Refuse(t) \/ ListLoans(t) \/ UnlockLoan(t) PROVE Calm
  BY <1>3, AnswerMoves, CalmMove DEF Refuse, ListLoans, UnlockLoan, Paying
<1>4. ASSUME NEW t \in Threads, SeekEnd(t) PROVE Calm
  <2>1. Moves(t, "append", req[t], at[t], tmp[t], Len(loans) + 1) /\ ~Paying(t)
    BY <1>4 DEF SeekEnd, Moves, Goto, Paying, TypeInv, TypeOK
  <2> QED BY <1>4, <2>1, CalmMove DEF SeekEnd
<1>5. ASSUME NEW t \in Threads, FindLoan(t) PROVE Calm
  <2>1. ~Paying(t) /\ UNCHANGED <<loans, paid, faults, exits>>
    BY <1>5 DEF FindLoan, Paying
  <2>2. CASE Answer(t)
    BY <2>1, <2>2, AnswerMoves, CalmMove
  <2>3. ASSUME NEW i, at' = [at EXCEPT ![t] = i], Goto(t, "lock"),
               UNCHANGED <<req, tmp, newId>>
        PROVE  Calm
    <3>1. Moves(t, "lock", req[t], i, tmp[t], newId[t])
      BY <2>3 DEF Moves, Goto, TypeInv, TypeOK
    <3> QED BY <2>1, <3>1, CalmMove
  <2> QED BY <1>5, <2>2, <2>3 DEF FindLoan
<1>6. ASSUME NEW t \in Threads, LockLoan(t) \/ CheckAccount(t) PROVE Calm
  <2>1. PICK s \in {"read", "deposit", "unlock"} : Goto(t, s) /\ UNCHANGED locals
    BY <1>6 DEF LockLoan, CheckAccount
  <2>2. ~Paying(t) /\ UNCHANGED <<loans, paid, faults, exits>>
    BY <1>6 DEF LockLoan, CheckAccount, Paying
  <2> QED BY <2>1, <2>2, GotoMoves, CalmMove DEF TypeInv
<1>7. ASSUME NEW t \in Threads, ReadLoan(t) PROVE Calm
  <2>1. loans[at[t]] \in LoanRec
    BY <1>7, InHand DEF ReadLoan, Updating
  <2>2. PICK s \in {"role", "check", "write", "unlock"} : \E rec :
          /\ Goto(t, s) /\ tmp' = [tmp EXCEPT ![t] = rec]
          /\ s = "write" => rec.status # "APPROVED"
    <3>1. tmp = [tmp EXCEPT ![t] = tmp[t]]
      BY DEF TypeInv, TypeOK
    <3>2. [loans[at[t]] EXCEPT !.status = "REJECTED"].status = "REJECTED"
      BY <2>1 DEF LoanRec
    <3> QED BY <1>7, <3>1, <3>2, Zenon DEF ReadLoan
  <2>3. PICK rec : /\ Goto(t, s) /\ tmp' = [tmp EXCEPT ![t] = rec]
                   /\ s = "write" => rec.status # "APPROVED"
    BY <2>2
  <2>4. Moves(t, s, req[t], at[t], rec, newId[t])
    BY <1>7, <2>3 DEF ReadLoan, Moves, Goto, TypeInv, TypeOK
  <2>5. ~Paying(t) /\ UNCHANGED <<loans, paid, faults, exits>>
    BY <1>7 DEF ReadLoan, Paying
  <2> QED BY <2>3, <2>4, <2>5, CalmMove
<1>8. ASSUME NEW t \in Threads, CheckEmployee(t) PROVE Calm
  <2>1. tmp[t] \in LoanRec
    BY <1>8, InHand DEF CheckEmployee, Updating, Modifying
  <2>2. PICK s \in {"write", "unlock"} : \E rec :
          /\ Goto(t, s) /\ tmp' = [tmp EXCEPT ![t] = rec]
          /\ s = "write" => rec.status # "APPROVED"
    <3>1. tmp = [tmp EXCEPT ![t] = tmp[t]]
      BY DEF TypeInv, TypeOK
    <3>2. CASE tmp' = [tmp EXCEPT ![t].assigned = req[t].emp, ![t].status = "ASSIGNED"]
               /\ Goto(t, "write")
      <4> DEFINE rec0 == [tmp[t] EXCEPT !.assigned = req[t].emp, !.status = "ASSIGNED"]
      <4>1. tmp' = [tmp EXCEPT ![t] = rec0]
        BY <3>2 DEF TypeInv, TypeOK
      <4>2. rec0.status = "ASSIGNED"
        BY <2>1 DEF LoanRec
      <4> QED BY <3>2, <4>1, <4>2
    <3>3. CASE Goto(t, "unlock") /\ UNCHANGED tmp
      BY <3>1, <3>3
    <3> QED BY <1>8, <3>2, <3>3 DEF CheckEmployee
  <2>3. PICK rec : /\ Goto(t, s) /\ tmp' = [tmp EXCEPT ![t] = rec]
                   /\ s = "write" => rec.status # "APPROVED"
    BY <2>2
  <2>4. Moves(t, s, req[t], at[t], rec, newId[t])
    BY <1>8, <2>3 DEF CheckEmployee, Moves, Goto, TypeInv, TypeOK
  <2>5. ~Paying(t) /\ UNCHANGED <<loans, paid, faults, exits>>
    BY <1>8 DEF CheckEmployee, Paying
  <2> QED BY <2>3, <2>4, <2>5, CalmMove
<1>9. ASSUME NEW t \in Threads, LogDeposit(t) PROVE Calm
  <2>1. Moves(t, "write", req[t], at[t], tmp[t], newId[t])
    BY <1>9, GotoMoves DEF LogDeposit, TypeInv
  <2>2. tmp[t].status = "APPROVED" /\ pc[t] = "log"
    BY <1>9 DEF LogDeposit, TypeInv, Flow, Flowing
  <2>3. \A u \in Threads : (Paying(u)' <=> Paying(u)) /\ at'[u] = at[u]
    BY <2>1, <2>2, Moved DEF Paying, TypeInv
  <2> QED BY <1>0, <1>9, <2>3 DEF LogDeposit, Calm
<1>10. CASE (\E a \in Accounts : SetStatus(a)) \/ (\E e \in Staff : ChangeRole(e))
  BY <1>0, <1>10 DEF SetStatus, ChangeRole, locals, Calm, Paying
<1>11. ASSUME NEW t \in Threads, SystemCallFails(t) PROVE Calm
  <2>1. /\ UNCHANGED <<loans, paid>>
        /\ faults' + exits' = faults + exits + 1
    BY <1>0, <1>11 DEF SystemCallFails
  <2>2. \A u \in Threads \ {t} : pc'[u] = pc[u] /\ tmp'[u] = tmp[u] /\ at'[u] = at[u]
    BY <1>11 DEF SystemCallFails, Answer, Goto, locals, TypeInv, TypeOK
  <2>3. Paying(t)' => Paying(t) /\ at'[t] = at[t]
    BY <1>11 DEF SystemCallFails, Answer, Goto, locals, Paying, TypeInv, TypeOK
  <2> QED BY <1>0, <2>1, <2>2, <2>3 DEF Calm, Paying
<1>12. ASSUME NEW p \in Procs, Exit(p) PROVE Calm
  <2>1. /\ UNCHANGED <<loans, paid>>
        /\ faults' + exits' = faults + exits + 1
    BY <1>0, <1>12 DEF Exit
  <2>2. ASSUME NEW u \in Threads, Paying(u)' PROVE Paying(u) /\ at'[u] = at[u]
    <3>1. ProcOf[u] # p
      BY <1>12, <2>2 DEF Exit, Paying
    <3> QED BY <1>12, <2>2, <3>1 DEF Exit, Paying
  <2> QED BY <1>0, <2>1, <2>2 DEF Calm
<1> QED BY <1>1, <1>2, <1>3, <1>4, <1>5, <1>6, <1>7, <1>8, <1>9, <1>10, <1>11, <1>12
        DEF Next, HandlerStep

\* The strengthening: what is about to be written as approved is paid.
PaidUp ==
  /\ ApprovedOnlyIfPaid
  /\ \A t \in Threads : Paying(t) => paid[at[t]] >= 1

\* A deposit pays, whoever else decides the same loan.
LEMMA DepositPaidUp ==
  ASSUME TypeInv, PaidUp, NEW t \in Threads, Deposit(t)
  PROVE  PaidUp'
<1>1. at[t] \in Positions /\ loans \in Seq(LoanRec) /\ Len(loans) <= MaxLoans
  BY InHand DEF Deposit, Updating, TypeInv, TypeOK
<1>2. /\ \A i \in Positions : paid[i] \in Nat /\ paid'[i] \in Nat /\ paid'[i] >= paid[i]
      /\ pc'[t] = "log" => paid'[at[t]] >= 1
  BY <1>1 DEF Deposit, Goto, bank, TypeInv, TypeOK
<1>3. loans' = loans /\ \A i \in DOMAIN loans : i \in Positions
  BY <1>1, BoundsAssumption DEF Deposit, Positions
<1>4. ApprovedOnlyIfPaid'
  BY <1>2, <1>3 DEF PaidUp, ApprovedOnlyIfPaid
<1>5. ASSUME NEW u \in Threads, Paying(u)' PROVE paid'[at'[u]] >= 1
  <2>1. at' = at /\ tmp' = tmp
    BY DEF Deposit, locals
  <2>2. CASE u = t
    BY <1>2, <1>5, <2>1, <2>2 DEF Deposit, Goto, Paying, TypeInv, TypeOK
  <2>3. CASE u # t
    <3>1. pc'[u] = pc[u]
      BY <2>3 DEF Deposit, Goto, TypeInv, TypeOK
    <3>2. Paying(u)
      BY <1>5, <2>1, <3>1 DEF Paying
    <3>3. at[u] \in Positions
      BY <3>2, InHand DEF Paying, Updating
    <3> QED BY <1>2, <2>1, <3>2, <3>3 DEF PaidUp
  <2> QED BY <2>2, <2>3
<1> QED BY <1>4, <1>5 DEF PaidUp

\* A write of an approval follows the payment.
LEMMA WritePaidUp ==
  ASSUME TypeInv, PaidUp, NEW t \in Threads, WriteLoan(t)
  PROVE  PaidUp'
<1>1. at[t] \in DOMAIN loans /\ loans \in Seq(LoanRec) /\ tmp[t] \in LoanRec
  BY InHand DEF WriteLoan, Updating, Modifying, TypeInv, TypeOK
<1>2. /\ DOMAIN loans' = DOMAIN loans
      /\ loans'[at[t]] = tmp[t]
      /\ \A i \in DOMAIN loans \ {at[t]} : loans'[i] = loans[i]
  BY <1>1 DEF WriteLoan
<1>3. paid' = paid /\ pc[t] = "write"
  BY DEF WriteLoan
<1>4. ApprovedOnlyIfPaid'
  BY <1>2, <1>3 DEF PaidUp, ApprovedOnlyIfPaid, Paying
<1>5. \A u \in Threads : Paying(u)' => Paying(u) /\ at'[u] = at[u]
  BY DEF WriteLoan, Goto, locals, Paying, TypeInv, TypeOK
<1> QED BY <1>3, <1>4, <1>5 DEF PaidUp

\* A new loan is not approved.
LEMMA AppendPaidUp ==
  ASSUME TypeInv, PaidUp, NEW t \in Threads, AppendLoan(t)
  PROVE  PaidUp'
<1> DEFINE new == [id |-> newId[t], user |-> req[t].user, amount |-> req[t].amount,
                   status |-> "PENDING", assigned |-> Nobody]
<1>1. loans' = Append(loans, new) /\ loans \in Seq(LoanRec) /\ paid' = paid
  BY DEF AppendLoan, TypeInv, TypeOK
<1>2. new.status = "PENDING"
  OBVIOUS
<1> HIDE DEF new
<1>3. \A i \in DOMAIN loans' : (i \in DOMAIN loans /\ loans'[i] = loans[i]) \/ loans'[i] = new
  BY <1>1
<1>4. ApprovedOnlyIfPaid'
  BY <1>1, <1>2, <1>3 DEF PaidUp, ApprovedOnlyIfPaid
<1>5. \A u \in Threads : Paying(u)' => Paying(u) /\ at'[u] = at[u]
  BY AnswerMoves, Moved DEF AppendLoan, Paying, TypeInv
<1> QED BY <1>1, <1>4, <1>5 DEF PaidUp

\* No loan is APPROVED in loans.db unless it was paid out, with any number of
\* threads in a process deciding the same loan, failing calls and exits:
\* approve_reject_loan_modifier() deposits before atomic_update_loan() writes.
THEOREM ApprovedIsPaid == Spec => []ApprovedOnlyIfPaid
<1>1. Init => PaidUp
  BY DEF Init, PaidUp, ApprovedOnlyIfPaid, Paying
<1>2. ASSUME TypeInv, PaidUp, [Next]_vars PROVE PaidUp'
  <2>1. CASE \E t \in Threads : Deposit(t) \/ WriteLoan(t) \/ AppendLoan(t)
    BY <1>2, <2>1, DepositPaidUp, WritePaidUp, AppendPaidUp
  <2>2. CASE ~ \E t \in Threads : Deposit(t) \/ WriteLoan(t) \/ AppendLoan(t)
    <3>1. Calm
      BY <1>2, <2>2, CalmSteps
    <3> QED BY <1>2, <3>1 DEF Calm, PaidUp, ApprovedOnlyIfPaid
  <2> QED BY <2>1, <2>2
<1>3. Spec => []TypeInv
  BY TypeCorrect, PTL DEF TypeInv
<1>4. PaidUp => ApprovedOnlyIfPaid
  BY DEF PaidUp
<1> QED BY <1>1, <1>2, <1>3, <1>4, PTL DEF Spec

-----------------------------------------------------------------------------
(* One thread per process: the record lock isolates an update, and the     *)
(* lock of the whole file an append.                                       *)

Held == {"read", "role", "check", "deposit", "log", "write", "unlock"}

\* From lock_record() to unlock_record() the record is locked by the process;
\* between the lseek() and the write() of an append the whole file is, unless
\* lock_file() failed.
Holds(t) ==
  /\ pc[t] \in Held => loanLock[at[t]] = ProcOf[t]
  /\ pc[t] = "append" /\ faults = 0 => \A i \in Positions : loanLock[i] = ProcOf[t]

LockInv == \A t \in Threads : Holds(t)

\* A step of t takes no lock of another thread away.
KeepsLocks(t) ==
  \A u \in Threads \ {t}, i \in Positions :
     loanLock[i] = ProcOf[u] => loanLock'[i] = ProcOf[u]

\* Neither closing loans.db nor a lock that was waited for does.
LEMMA LocksKept ==
  ASSUME OneThreadPerProcess, TypeInv, NEW t \in Threads, NEW S,
         \/ loanLock' = loanLock
         \/ loanLock' = Close(loanLock, ProcOf[t])
         \/ loanLock' = ReadOnlyPass(loanLock, ProcOf[t])
         \/ Grantable(loanLock, S, ProcOf[t]) /\ loanLock' = Lock(loanLock, S, ProcOf[t])
  PROVE  KeepsLocks(t)
<1> SUFFICES ASSUME NEW u \in Threads \ {t}, NEW i \in Positions, loanLock[i] = ProcOf[u]
             PROVE  loanLock'[i] = ProcOf[u]
  BY DEF KeepsLocks
<1>1. ProcOf[u] # ProcOf[t] /\ ProcOf[u] # NoProc
  BY ThreadsAssumption, NoProcAssumption DEF OneThreadPerProcess
<1>2. DOMAIN loanLock = Positions
  BY DEF TypeInv, TypeOK, LockTable
<1>3. CASE loanLock' = loanLock
  BY <1>3
<1>4. CASE loanLock' = Close(loanLock, ProcOf[t]) \/ loanLock' = ReadOnlyPass(loanLock, ProcOf[t])
  BY <1>1, <1>2, <1>4 DEF Close, ReadOnlyPass
<1>5. CASE Grantable(loanLock, S, ProcOf[t]) /\ loanLock' = Lock(loanLock, S, ProcOf[t])
  BY <1>1, <1>2, <1>5 DEF Grantable, Lock
<1> QED BY <1>3, <1>4, <1>5

\* If a move of t keeps the others' locks, only its own are in question.
LEMMA LockFrame ==
  ASSUME TypeInv, LockInv, NEW t \in Threads, NEW s, NEW r, NEW i, NEW rec, NEW n,
         Moves(t, s, r, i, rec, n), KeepsLocks(t),
         faults' = 0 => faults = 0,
         s \in Held => loanLock'[i] = ProcOf[t],
         s = "append" /\ faults' = 0 => \A j \in Positions : loanLock'[j] = ProcOf[t]
  PROVE  LockInv'
<1> SUFFICES ASSUME NEW u \in Threads PROVE Holds(u)'
  BY DEF LockInv
<1>1. CASE u = t
  BY <1>1, Moved DEF Holds, TypeInv
<1>2. CASE u # t
  <2>1. pc'[u] = pc[u] /\ at'[u] = at[u]
    BY <1>2, Moved DEF TypeInv
  <2>2. pc[u] \in Held => at[u] \in Positions
    BY InHand DEF Held, Updating
  <2> QED BY <1>2, <2>1, <2>2 DEF LockInv, Holds, KeepsLocks
<1> QED BY <1>1, <1>2

\* A thread that goes on between lock_record() and unlock_record().
LEMMA HeldOn ==
  ASSUME OneThreadPerProcess, TypeInv, LockInv, NEW t \in Threads, NEW s, NEW rec,
         pc[t] \in Held, s # "append", Moves(t, s, req[t], at[t], rec, newId[t]),
         UNCHANGED loanLock, faults' = 0 => faults = 0
  PROVE  LockInv'
<1>1. KeepsLocks(t)
  BY DEF KeepsLocks
<1>2. loanLock'[at[t]] = ProcOf[t]
  BY DEF LockInv, Holds
<1> QED BY <1>1, <1>2, LockFrame

\* A thread that goes where it holds no lock.
LEMMA NotHeld ==
  ASSUME OneThreadPerProcess, TypeInv, LockInv, NEW t \in Threads,
         NEW s, NEW r, NEW i, NEW rec, NEW n, Moves(t, s, r, i, rec, n),
         s \notin Held, s # "append", faults' = 0 => faults = 0,
         \/ loanLock' = loanLock
         \/ loanLock' = Close(loanLock, ProcOf[t])
         \/ loanLock' = ReadOnlyPass(loanLock, ProcOf[t])
  PROVE  LockInv'
<1>1. KeepsLocks(t)
  BY LocksKept
<1> QED BY <1>1, LockFrame

\* The same for the answer to the client.
LEMMA AnswerLock ==
  ASSUME OneThreadPerProcess, TypeInv, LockInv, NEW t \in Threads, Answer(t),
         faults' = 0 => faults = 0,
         \/ loanLock' = loanLock
         \/ loanLock' = Close(loanLock, ProcOf[t])
         \/ loanLock' = ReadOnlyPass(loanLock, ProcOf[t])
  PROVE  LockInv'
<1>1. Moves(t, "recv", NoRequest, 0, NoLoan, 0) /\ "recv" \notin Held
  BY AnswerMoves DEF Held
<1> QED BY <1>1, NotHeld

\* Every step keeps the locks of updates and appends in progress.
LEMMA LockStep ==
  ASSUME OneThreadPerProcess, TypeInv, LockInv, [Next]_vars
  PROVE  LockInv'
<1> USE DEF counts
<1>0. faults \in Nat
  BY DEF TypeInv, TypeOK
<1>1. CASE UNCHANGED vars
  BY <1>1 DEF vars, locals, LockInv, Holds
<1>2. ASSUME NEW t \in Threads, Receive(t) PROVE LockInv'
  <2>1. PICK r \in Requests : /\ req' = [req EXCEPT ![t] = r]
                              /\ \/ apply_loan(t, r)
                                 \/ assign_loan_to_employee(t, r)
                                 \/ approve_reject_loan(t, r)
                                 \/ list_loans(t, r)
    BY <1>2 DEF Receive
  <2>2. PICK s \in {"refused", "seek", "find", "list"} : Goto(t, s)
    BY <2>1 DEF apply_loan, assign_loan_to_employee, approve_reject_loan, list_loans
  <2>3. Moves(t, s, r, at[t], tmp[t], newId[t])
    BY <1>2, <2>1, <2>2 DEF Receive, Moves, Goto, TypeInv, TypeOK
  <2>4. s \notin Held /\ s # "append" /\ UNCHANGED <<loanLock, faults>>
    BY <1>2, <2>2 DEF Receive, Held
  <2> QED BY <2>3, <2>4, NotHeld
<1>3. ASSUME NEW t \in Threads, Refuse(t) PROVE LockInv'
  BY <1>3, AnswerLock DEF Refuse
<1>4. ASSUME NEW t \in Threads, ListLoans(t) PROVE LockInv'
  BY <1>4, AnswerLock DEF ListLoans
<1>5. ASSUME NEW t \in Threads, UnlockLoan(t) \/ AppendLoan(t) PROVE LockInv'
  BY <1>5, AnswerLock DEF UnlockLoan, AppendLoan
<1>6. ASSUME NEW t \in Threads, SeekEnd(t) PROVE LockInv'
  <2>1. Moves(t, "append", req[t], at[t], tmp[t], Len(loans) + 1)
    BY <1>6 DEF SeekEnd, Moves, Goto, TypeInv, TypeOK
  <2>2. KeepsLocks(t) /\ UNCHANGED faults
    BY <1>6, LocksKept DEF SeekEnd
  <2>3. \A j \in Positions : loanLock'[j] = ProcOf[t]
    BY <1>6 DEF SeekEnd, Lock, TypeInv, TypeOK, LockTable
  <2>4. "append" \notin Held
    BY DEF Held
  <2> QED BY <2>1, <2>2, <2>3, <2>4, LockFrame
<1>7. ASSUME NEW t \in Threads, FindLoan(t) PROVE LockInv'
  <2>1. loanLock' = ReadOnlyPass(loanLock, ProcOf[t]) /\ UNCHANGED faults
    BY <1>7 DEF FindLoan
  <2>2. CASE Answer(t)
    BY <2>1, <2>2, AnswerLock
  <2>3. ASSUME NEW i, at' = [at EXCEPT ![t] = i], Goto(t, "lock"),
               UNCHANGED <<req, tmp, newId>>
        PROVE  LockInv'
    <3>1. Moves(t, "lock", req[t], i, tmp[t], newId[t]) /\ "lock" \notin Held
      BY <2>3 DEF Moves, Goto, TypeInv, TypeOK, Held
    <3> QED BY <2>1, <3>1, NotHeld
  <2> QED BY <1>7, <2>2, <2>3 DEF FindLoan
<1>8. ASSUME NEW t \in Threads, LockLoan(t) PROVE LockInv'
  <2>1. Moves(t, "read", req[t], at[t], tmp[t], newId[t])
    BY <1>8, GotoMoves DEF LockLoan, TypeInv
  <2>2. KeepsLocks(t) /\ UNCHANGED faults
    BY <1>8, LocksKept DEF LockLoan
  <2>3. at[t] \in Positions
    BY <1>8, InHand DEF LockLoan, Updating
  <2>4. loanLock'[at[t]] = ProcOf[t]
    BY <1>8, <2>3 DEF LockLoan, Lock, TypeInv, TypeOK, LockTable
  <2> QED BY <2>1, <2>2, <2>4, LockFrame
<1>9. ASSUME NEW t \in Threads, ReadLoan(t) \/ CheckEmployee(t) PROVE LockInv'
  <2>1. PICK s \in {"role", "check", "write", "unlock"} : Goto(t, s)
    BY <1>9 DEF ReadLoan, CheckEmployee
  <2>3. tmp' = [tmp EXCEPT ![t] = tmp'[t]]
    BY <1>9 DEF ReadLoan, CheckEmployee, TypeInv, TypeOK
  <2>4. Moves(t, s, req[t], at[t], tmp'[t], newId[t])
    BY <1>9, <2>1, <2>3 DEF ReadLoan, CheckEmployee, Moves, Goto, TypeInv, TypeOK
  <2>5. pc[t] \in Held /\ UNCHANGED <<loanLock, faults>>
    BY <1>9 DEF ReadLoan, CheckEmployee, Held
  <2> QED BY <2>1, <2>4, <2>5, HeldOn
<1>10. ASSUME NEW t \in Threads,
              CheckAccount(t) \/ Deposit(t) \/ LogDeposit(t) \/ WriteLoan(t)
       PROVE  LockInv'
  <2>1. PICK s \in Held : Goto(t, s) /\ UNCHANGED <<locals, loanLock, faults>>
    BY <1>10 DEF CheckAccount, Deposit, LogDeposit, WriteLoan, Held
  <2>2. Moves(t, s, req[t], at[t], tmp[t], newId[t])
    BY <2>1, GotoMoves DEF TypeInv
  <2>3. pc[t] \in Held /\ s # "append"
    BY <1>10, <2>1 DEF CheckAccount, Deposit, LogDeposit, WriteLoan, Held
  <2> QED BY <2>1, <2>2, <2>3, HeldOn
<1>11. CASE (\E a \in Accounts : SetStatus(a)) \/ (\E e \in Staff : ChangeRole(e))
  BY <1>11 DEF SetStatus, ChangeRole, locals, LockInv, Holds
<1>12. ASSUME NEW t \in Threads, SystemCallFails(t) PROVE LockInv'
  <2>1. faults' # 0
    BY <1>0, <1>12 DEF SystemCallFails
  <2>2. CASE Answer(t) /\ loanLock' \in {loanLock, Close(loanLock, ProcOf[t])}
    BY <2>1, <2>2, AnswerLock
  <2>3. CASE /\ newId' = [newId EXCEPT ![t] = Len(loans) + 1]
             /\ Goto(t, "append") /\ UNCHANGED <<loanLock, req, at, tmp>>
    <3>1. Moves(t, "append", req[t], at[t], tmp[t], Len(loans) + 1)
      BY <2>3 DEF Moves, Goto, TypeInv, TypeOK
    <3>2. KeepsLocks(t) /\ "append" \notin Held
      BY <2>3 DEF KeepsLocks, Held
    <3> QED BY <2>1, <3>1, <3>2, LockFrame
  <2>4. ASSUME NEW s \in {"unlock", "write"}, Goto(t, s), pc[t] \in Held,
               UNCHANGED <<loanLock, locals>>
        PROVE  LockInv'
    <3>1. Moves(t, s, req[t], at[t], tmp[t], newId[t])
      BY <2>4, GotoMoves DEF TypeInv
    <3> QED BY <2>1, <2>4, <3>1, HeldOn
  <2> QED BY <1>12, <2>2, <2>3, <2>4 DEF SystemCallFails, Held
<1>13. ASSUME NEW p \in Procs, Exit(p) PROVE LockInv'
  <2> SUFFICES ASSUME NEW u \in Threads PROVE Holds(u)'
    BY DEF LockInv
  <2>1. CASE ProcOf[u] = p
    BY <1>13, <2>1 DEF Exit, Holds, Held
  <2>2. CASE ProcOf[u] # p
    <3>1. pc'[u] = pc[u] /\ at'[u] = at[u] /\ faults' = faults
      BY <1>13, <2>2 DEF Exit
    <3>2. \A i \in Positions : loanLock[i] = ProcOf[u] => loanLock'[i] = ProcOf[u]
      BY <1>13, <2>2 DEF Exit, Close, TypeInv, TypeOK, LockTable
    <3>3. pc[u] \in Held => at[u] \in Positions
      BY InHand DEF Held, Updating
    <3> QED BY <3>1, <3>2, <3>3 DEF LockInv, Holds
  <2> QED BY <2>1, <2>2
<1> QED BY <1>1, <1>2, <1>3, <1>4, <1>5, <1>6, <1>7, <1>8, <1>9, <1>10, <1>11, <1>12,
           <1>13 DEF Next, HandlerStep

\* Two threads that hold a lock hold different ones; nobody holds any beside
\* an append that locked the file.
LEMMA Exclusion ==
  ASSUME OneThreadPerProcess, TypeInv, LockInv, NEW t \in Threads, NEW u \in Threads,
         t # u, pc[t] \in Held
  PROVE  /\ pc[u] \in Held => at[t] # at[u]
         /\ ~(pc[u] = "append" /\ faults = 0)
<1>1. at[t] \in Positions /\ ProcOf[t] # ProcOf[u]
  BY InHand DEF Held, Updating, OneThreadPerProcess
<1> QED BY <1>1 DEF LockInv, Holds

\* The steps of a loan's life: an assignment, a decision.
Decides(old, new) ==
  \/ /\ old.status = "PENDING"
     /\ \E e \in Staff : new = [old EXCEPT !.status = "ASSIGNED", !.assigned = e]
  \/ /\ old.status = "ASSIGNED"
     /\ \E s \in {"APPROVED", "REJECTED"} : new = [old EXCEPT !.status = s]

\* What the copy of a record has to do with the record at each call.
Derived(s, rec, loan) ==
  /\ s = "role" => loan.status = "PENDING" /\ rec = loan
  /\ s \in {"check", "deposit", "log"} =>
       loan.status = "ASSIGNED" /\ rec = [loan EXCEPT !.status = "APPROVED"]
  /\ s = "write" => Decides(loan, rec)

\* Each copy is still what its modifier made of the record as it now is.
Isolated == \A t \in Threads : Derived(pc[t], tmp[t], loans[at[t]])

\* A thread that modifies nothing has nothing to derive.
LEMMA DerivedElsewhere ==
  ASSUME NEW s, s \notin Modifying, NEW rec, NEW loan
  PROVE  Derived(s, rec, loan)
BY DEF Derived, Modifying

\* If a move leaves the records of the others alone, only its own counts.
LEMMA IsolatedFrame ==
  ASSUME TypeInv, Isolated, NEW t \in Threads, NEW s, NEW r, NEW i, NEW rec, NEW n,
         Moves(t, s, r, i, rec, n), Derived(s, rec, loans'[i]),
         \A u \in Threads \ {t} : pc[u] \in Modifying => loans'[at[u]] = loans[at[u]]
  PROVE  Isolated'
<1> SUFFICES ASSUME NEW u \in Threads PROVE Derived(pc'[u], tmp'[u], loans'[at'[u]])
  BY DEF Isolated
<1>1. CASE u = t
  BY <1>1, Moved DEF TypeInv
<1>2. CASE u # t
  <2>1. pc'[u] = pc[u] /\ at'[u] = at[u] /\ tmp'[u] = tmp[u]
    BY <1>2, Moved DEF TypeInv
  <2>2. CASE pc[u] \in Modifying
    BY <1>2, <2>1, <2>2 DEF Isolated
  <2>3. CASE pc[u] \notin Modifying
    BY <2>1, <2>3, DerivedElsewhere
  <2> QED BY <2>2, <2>3
<1> QED BY <1>1, <1>2

\* The same for a move to where nothing is modified.
LEMMA ElsewhereIsolated ==
  ASSUME TypeInv, Isolated, NEW t \in Threads, NEW s, NEW r, NEW i, NEW rec, NEW n,
         Moves(t, s, r, i, rec, n), s \notin Modifying, UNCHANGED loans
  PROVE  Isolated'
BY DerivedElsewhere, IsolatedFrame

\* What approve_reject_loan_modifier() and assign_loan_modifier() make of the
\* record they are given.
LEMMA ReadIsolated ==
  ASSUME TypeInv, Isolated, NEW t \in Threads, ReadLoan(t)
  PROVE  Isolated'
<1>1. loans[at[t]] \in LoanRec
  BY InHand DEF ReadLoan, Updating
<1>2. tmp = [tmp EXCEPT ![t] = tmp[t]]
  BY DEF TypeInv, TypeOK
<1>3. ASSUME NEW s, NEW rec, Goto(t, s), tmp' = [tmp EXCEPT ![t] = rec],
             Derived(s, rec, loans[at[t]])
      PROVE  Isolated'
  <2>1. Moves(t, s, req[t], at[t], rec, newId[t])
    BY <1>3 DEF ReadLoan, Moves, Goto, TypeInv, TypeOK
  <2>2. UNCHANGED loans
    BY DEF ReadLoan
  <2> QED BY <1>3, <2>1, <2>2, IsolatedFrame
<1>4. CASE /\ MayAssign(loans[at[t]]) /\ Goto(t, "role")
           /\ tmp' = [tmp EXCEPT ![t] = loans[at[t]]]
  <2>1. Derived("role", loans[at[t]], loans[at[t]])
    BY <1>4 DEF Derived, MayAssign
  <2> QED BY <1>3, <1>4, <2>1
<1>5. CASE /\ MayDecide(loans[at[t]], req[t]) /\ Goto(t, "check")
           /\ tmp' = [tmp EXCEPT ![t] = [loans[at[t]] EXCEPT !.status = "APPROVED"]]
  <2>1. Derived("check", [loans[at[t]] EXCEPT !.status = "APPROVED"], loans[at[t]])
    BY <1>5 DEF Derived, MayDecide
  <2> QED BY <1>3, <1>5, <2>1
<1>6. CASE /\ MayDecide(loans[at[t]], req[t]) /\ Goto(t, "write")
           /\ tmp' = [tmp EXCEPT ![t] = [loans[at[t]] EXCEPT !.status = "REJECTED"]]
  <2>1. Derived("write", [loans[at[t]] EXCEPT !.status = "REJECTED"], loans[at[t]])
    BY <1>6 DEF Derived, Decides, MayDecide
  <2> QED BY <1>3, <1>6, <2>1
<1>7. CASE Goto(t, "unlock") /\ UNCHANGED tmp
  <2>1. Derived("unlock", tmp[t], loans[at[t]])
    BY DerivedElsewhere DEF Modifying
  <2> QED BY <1>2, <1>3, <1>7, <2>1
<1> QED BY <1>4, <1>5, <1>6, <1>7 DEF ReadLoan

\* What assign_loan_modifier() makes of it once the employee is found.
LEMMA CheckEmployeeIsolated ==
  ASSUME TypeInv, Isolated, NEW t \in Threads, CheckEmployee(t)
  PROVE  Isolated'
<1>1. /\ tmp[t] \in LoanRec /\ req[t].emp \in Staff
      /\ UNCHANGED loans
  BY InHand, RequestFields DEF CheckEmployee, Updating, Modifying
<1>2. loans[at[t]].status = "PENDING" /\ tmp[t] = loans[at[t]]
  BY DEF CheckEmployee, Isolated, Derived
<1>3. CASE /\ tmp' = [tmp EXCEPT ![t].assigned = req[t].emp, ![t].status = "ASSIGNED"]
           /\ Goto(t, "write")
  <2> DEFINE rec == [tmp[t] EXCEPT !.status = "ASSIGNED", !.assigned = req[t].emp]
  <2>1. tmp' = [tmp EXCEPT ![t] = rec]
    BY <1>1, <1>3 DEF TypeInv, TypeOK, LoanRec
  <2>2. Moves(t, "write", req[t], at[t], rec, newId[t])
    BY <1>3, <2>1 DEF CheckEmployee, Moves, Goto, TypeInv, TypeOK
  <2>3. Derived("write", rec, loans[at[t]])
    BY <1>1, <1>2 DEF Derived, Decides
  <2> HIDE DEF rec
  <2> QED BY <1>1, <2>2, <2>3, IsolatedFrame
<1>4. CASE Goto(t, "unlock") /\ UNCHANGED tmp
  <2>1. Moves(t, "unlock", req[t], at[t], tmp[t], newId[t])
    BY <1>4 DEF CheckEmployee, Moves, Goto, TypeInv, TypeOK
  <2>2. "unlock" \notin Modifying
    BY DEF Modifying
  <2> QED BY <1>1, <2>1, <2>2, ElsewhereIsolated
<1> QED BY <1>3, <1>4 DEF CheckEmployee

\* A payment works on the copy it was given.
LEMMA PayingIsolated ==
  ASSUME TypeInv, Isolated, NEW t \in Threads,
         NEW s \in {"deposit", "log", "write", "unlock"}, Goto(t, s),
         UNCHANGED <<loans, locals>>,
         s # "unlock" => pc[t] \in {"check", "deposit", "log"}
  PROVE  Isolated'
<1>1. Moves(t, s, req[t], at[t], tmp[t], newId[t])
  BY GotoMoves DEF TypeInv
<1>2. CASE s = "unlock"
  BY <1>1, <1>2, ElsewhereIsolated DEF Modifying
<1>3. CASE s # "unlock"
  <2>1. /\ loans[at[t]].status = "ASSIGNED"
        /\ tmp[t] = [loans[at[t]] EXCEPT !.status = "APPROVED"]
    BY <1>3 DEF Isolated, Derived
  <2>2. Derived(s, tmp[t], loans[at[t]])
    BY <2>1 DEF Derived, Decides
  <2> QED BY <1>1, <2>2, IsolatedFrame
<1> QED BY <1>2, <1>3

\* Nobody writes the record that another has read.
LEMMA WriteIsolated ==
  ASSUME OneThreadPerProcess, TypeInv, LockInv, Isolated, NEW t \in Threads, WriteLoan(t)
  PROVE  Isolated'
<1>1. at[t] \in DOMAIN loans /\ loans \in Seq(LoanRec)
  BY InHand DEF WriteLoan, Updating, TypeInv, TypeOK
<1>2. Moves(t, "unlock", req[t], at[t], tmp[t], newId[t])
  BY GotoMoves DEF WriteLoan, TypeInv
<1>3. ASSUME NEW u \in Threads \ {t}, pc[u] \in Modifying
      PROVE  loans'[at[u]] = loans[at[u]]
  <2>1. at[u] # at[t]
    BY <1>3, Exclusion DEF WriteLoan, Held, Modifying
  <2>2. at[u] \in DOMAIN loans
    BY <1>3, InHand DEF Updating, Modifying
  <2> QED BY <1>1, <2>1, <2>2 DEF WriteLoan
<1>4. Derived("unlock", tmp[t], loans'[at[t]])
  BY DerivedElsewhere DEF Modifying
<1> QED BY <1>2, <1>3, <1>4, IsolatedFrame

\* An append leaves the records there are.
LEMMA AppendIsolated ==
  ASSUME TypeInv, Isolated, NEW t \in Threads, AppendLoan(t)
  PROVE  Isolated'
<1>1. /\ Moves(t, "recv", NoRequest, 0, NoLoan, 0)
      /\ Derived("recv", NoLoan, loans'[0])
  BY AnswerMoves, DerivedElsewhere DEF AppendLoan, Modifying
<1>2. ASSUME NEW u \in Threads \ {t}, pc[u] \in Modifying
      PROVE  loans'[at[u]] = loans[at[u]]
  <2>1. at[u] \in DOMAIN loans /\ loans \in Seq(LoanRec)
    BY <1>2, InHand DEF Updating, Modifying, TypeInv, TypeOK
  <2> QED BY <2>1 DEF AppendLoan
<1> QED BY <1>1, <1>2, IsolatedFrame

\* Every step keeps updates isolated.
LEMMA IsolationStep ==
  ASSUME OneThreadPerProcess, TypeInv, LockInv, Isolated, [Next]_vars
  PROVE  Isolated'
<1>1. CASE UNCHANGED vars
  BY <1>1 DEF vars, locals, Isolated
<1>2. ASSUME NEW t \in Threads, Receive(t) PROVE Isolated'
  <2>1. PICK r \in Requests : /\ req' = [req EXCEPT ![t] = r]
                              /\ \/ apply_loan(t, r)
                                 \/ assign_loan_to_employee(t, r)
                                 \/ approve_reject_loan(t, r)
                                 \/ list_loans(t, r)
    BY <1>2 DEF Receive
  <2>2. PICK s \in {"refused", "seek", "find", "list"} : Goto(t, s)
    BY <2>1 DEF apply_loan, assign_loan_to_employee, approve_reject_loan, list_loans
  <2>3. Moves(t, s, r, at[t], tmp[t], newId[t])
    BY <1>2, <2>1, <2>2 DEF Receive, Moves, Goto, TypeInv, TypeOK
  <2>4. s \notin Modifying /\ UNCHANGED loans
    BY <1>2, <2>2 DEF Receive, Modifying
  <2> QED BY <2>3, <2>4, ElsewhereIsolated
<1>3. ASSUME NEW t \in Threads, Answer(t), UNCHANGED loans PROVE Isolated'
  BY <1>3, AnswerMoves, ElsewhereIsolated DEF Modifying
<1>4. ASSUME NEW t \in Threads, newId' = [newId EXCEPT ![t] = Len(loans) + 1],
             Goto(t, "append"), UNCHANGED <<loans, req, at, tmp>>
      PROVE  Isolated'
  <2>1. Moves(t, "append", req[t], at[t], tmp[t], Len(loans) + 1)
    BY <1>4 DEF Moves, Goto, TypeInv, TypeOK
  <2> QED BY <1>4, <2>1, ElsewhereIsolated DEF Modifying
<1>5. ASSUME NEW t \in Threads, FindLoan(t) PROVE Isolated'
  <2>1. ASSUME NEW i, at' = [at EXCEPT ![t] = i], Goto(t, "lock"),
               UNCHANGED <<req, tmp, newId>>
        PROVE  Isolated'
    <3>1. Moves(t, "lock", req[t], i, tmp[t], newId[t]) /\ UNCHANGED loans
      BY <1>5, <2>1 DEF FindLoan, Moves, Goto, TypeInv, TypeOK
    <3> QED BY <3>1, ElsewhereIsolated DEF Modifying
  <2> QED BY <1>3, <1>5, <2>1 DEF FindLoan
<1>6. ASSUME NEW t \in Threads, LockLoan(t) PROVE Isolated'
  <2>1. Moves(t, "read", req[t], at[t], tmp[t], newId[t]) /\ UNCHANGED loans
    BY <1>6, GotoMoves DEF LockLoan, TypeInv
  <2> QED BY <2>1, ElsewhereIsolated DEF Modifying
<1>7. ASSUME NEW t \in Threads, CheckAccount(t) \/ Deposit(t) \/ LogDeposit(t)
      PROVE  Isolated'
  BY <1>7, PayingIsolated DEF CheckAccount, Deposit, LogDeposit
<1>8. CASE (\E a \in Accounts : SetStatus(a)) \/ (\E e \in Staff : ChangeRole(e))
  BY <1>8 DEF SetStatus, ChangeRole, locals, Isolated
<1>9. ASSUME NEW t \in Threads, SystemCallFails(t) PROVE Isolated'
  BY <1>3, <1>4, <1>9, PayingIsolated DEF SystemCallFails
<1>10. ASSUME NEW p \in Procs, Exit(p) PROVE Isolated'
  <2> SUFFICES ASSUME NEW u \in Threads PROVE Derived(pc'[u], tmp'[u], loans'[at'[u]])
    BY DEF Isolated
  <2>1. CASE ProcOf[u] = p
    BY <1>10, <2>1, DerivedElsewhere DEF Exit, Modifying
  <2>2. CASE ProcOf[u] # p
    BY <1>10, <2>2 DEF Exit, Isolated
  <2> QED BY <2>1, <2>2
<1>11. ASSUME NEW t \in Threads, HandlerStep(t) PROVE Isolated'
  <2>1. CASE Refuse(t) \/ ListLoans(t) \/ UnlockLoan(t)
    BY <1>3, <2>1 DEF Refuse, ListLoans, UnlockLoan
  <2>2. CASE SeekEnd(t)
    BY <1>4, <2>2 DEF SeekEnd
  <2> QED BY <1>5, <1>6, <1>7, <1>11, <2>1, <2>2, ReadIsolated, CheckEmployeeIsolated,
             WriteIsolated, AppendIsolated DEF HandlerStep
<1> QED BY <1>1, <1>2, <1>8, <1>9, <1>10, <1>11 DEF Next

\* Locks and isolation, together inductive.
Ordered == TypeInv /\ LockInv /\ Isolated

\* They hold throughout when no two threads share a process.
LEMMA OrderKept == OneThreadPerProcess /\ Spec => []Ordered
<1> SUFFICES ASSUME OneThreadPerProcess PROVE Spec => []Ordered
  OBVIOUS
<1>1. Init => Ordered
  BY InitTyped DEF Init, Ordered, LockInv, Holds, Held, Isolated, Derived
<1>2. Ordered /\ [Next]_vars => Ordered'
  BY NextTyped, LockStep, IsolationStep DEF Ordered
<1> QED BY <1>1, <1>2, PTL DEF Spec

\* What a write does to loans.db.
LEMMA WriteDecides ==
  ASSUME Ordered, NEW t \in Threads, WriteLoan(t)
  PROVE  /\ at[t] \in DOMAIN loans /\ DOMAIN loans' = DOMAIN loans
         /\ Len(loans') = Len(loans)
         /\ \A i \in DOMAIN loans \ {at[t]} : loans'[i] = loans[i]
         /\ loans'[at[t]] = tmp[t]
         /\ Decides(loans[at[t]], tmp[t])
<1>1. at[t] \in DOMAIN loans /\ loans \in Seq(LoanRec) /\ tmp[t] \in LoanRec
  BY InHand DEF Ordered, WriteLoan, Updating, Modifying, TypeInv, TypeOK
<1>2. Decides(loans[at[t]], tmp[t])
  BY DEF Ordered, WriteLoan, Isolated, Derived
<1> QED BY <1>1, <1>2 DEF WriteLoan

\* What an append does to it.
LEMMA AppendAdds ==
  ASSUME Ordered, NEW t \in Threads, AppendLoan(t)
  PROVE  /\ Len(loans) \in Nat /\ Len(loans) + 1 \in Positions
         /\ Len(loans') = Len(loans) + 1 /\ DOMAIN loans' = 1..(Len(loans) + 1)
         /\ DOMAIN loans = 1..Len(loans)
         /\ \A i \in DOMAIN loans : loans'[i] = loans[i]
         /\ loans'[Len(loans) + 1].id = newId[t]
         /\ loans'[Len(loans) + 1].status = "PENDING"
<1> DEFINE new == [id |-> newId[t], user |-> req[t].user, amount |-> req[t].amount,
                   status |-> "PENDING", assigned |-> Nobody]
<1>1. loans' = Append(loans, new) /\ loans \in Seq(LoanRec)
  BY DEF AppendLoan, Ordered, TypeInv, TypeOK
<1>2. new.id = newId[t] /\ new.status = "PENDING"
  OBVIOUS
<1> HIDE DEF new
<1>3. Len(loans) + 1 \in Positions
  BY RoomToAppend DEF Ordered, AppendLoan
<1> QED BY <1>1, <1>2, <1>3

\* No other step touches loans.db.
LEMMA LoansKept ==
  ASSUME TypeInv, [Next]_vars, ~ \E t \in Threads : WriteLoan(t) \/ AppendLoan(t)
  PROVE  UNCHANGED loans
BY DEF Next, HandlerStep, vars, Receive, Refuse, ListLoans, SeekEnd, FindLoan, LockLoan,
       ReadLoan, CheckEmployee, CheckAccount, Deposit, LogDeposit, UnlockLoan,
       SetStatus, ChangeRole, SystemCallFails, Exit

\* With one thread per process a loan goes from PENDING to ASSIGNED to its
\* decision and nowhere else, through failing calls and exits: what
\* atomic_update_loan() writes was made of the record as it then is.
THEOREM LifecycleKept == OneThreadPerProcess /\ Spec => Lifecycle
<1> SUFFICES ASSUME OneThreadPerProcess PROVE Spec => Lifecycle
  OBVIOUS
<1>1. ASSUME Ordered, [Next]_vars, NEW i \in DOMAIN loans
      PROVE  loans'[i] = loans[i] \/ Decides(loans[i], loans'[i])
  <2>1. ASSUME NEW t \in Threads, WriteLoan(t)
        PROVE  loans'[i] = loans[i] \/ Decides(loans[i], loans'[i])
    BY <1>1, <2>1, WriteDecides
  <2>2. ASSUME NEW t \in Threads, AppendLoan(t)
        PROVE  loans'[i] = loans[i] \/ Decides(loans[i], loans'[i])
    BY <1>1, <2>2, AppendAdds
  <2>3. CASE ~ \E t \in Threads : WriteLoan(t) \/ AppendLoan(t)
    BY <1>1, <2>3, LoansKept DEF Ordered
  <2> QED BY <2>1, <2>2, <2>3
<1>2. Ordered /\ [Next]_vars =>
        [\A i \in DOMAIN loans :
           \/ loans'[i] = loans[i]
           \/ /\ loans[i].status = "PENDING"
              /\ \E e \in Staff :
                   loans'[i] = [loans[i] EXCEPT !.status = "ASSIGNED", !.assigned = e]
           \/ /\ loans[i].status = "ASSIGNED"
              /\ \E s \in {"APPROVED", "REJECTED"} :
                   loans'[i] = [loans[i] EXCEPT !.status = s]]_vars
  BY <1>1 DEF Decides
<1>3. Spec => []Ordered
  BY OrderKept
<1> QED BY <1>2, <1>3, PTL DEF Spec, Lifecycle

-----------------------------------------------------------------------------
(* Payments, one thread per process.                                       *)

\* The loan is approved, or about to be.
Owed(i) == loans[i].status = "APPROVED" \/ \E t \in Threads : PayingOut(t, i)

\* The strengthening: a loan is paid as often as it is owed or, per failure,
\* once more; loans not yet applied for are not paid.
Accounted ==
  /\ \A i \in DOMAIN loans : /\ paid[i] <= faults + exits + 1
                             /\ ~Owed(i) => paid[i] <= faults + exits
  /\ \A i \in Positions \ DOMAIN loans : paid[i] = 0

\* Nobody else is paying out the loan a thread has locked.
LEMMA PaysAlone ==
  ASSUME OneThreadPerProcess, Ordered, NEW t \in Threads, pc[t] \in Held, ~Paying(t)
  PROVE  ~ \E u \in Threads : PayingOut(u, at[t])
<1> SUFFICES ASSUME NEW u \in Threads, PayingOut(u, at[t]) PROVE FALSE
  OBVIOUS
<1>1. u # t /\ pc[u] \in Held /\ at[u] = at[t]
  BY DEF PayingOut, Paying, Held
<1> QED BY <1>1, Exclusion DEF Ordered

\* A step forgets no payment if every paying thread goes on paying.
LEMMA OwedKept ==
  ASSUME NEW i, loans'[i].status = "APPROVED" \/ loans'[i] = loans[i],
         \A u \in Threads : Paying(u) /\ at[u] = i => Paying(u)' /\ at'[u] = i, Owed(i)
  PROVE  Owed(i)'
BY DEF Owed, PayingOut, Paying

\* The sizes and numbers the bounds are about.
LEMMA AccountedTypes ==
  ASSUME TypeInv
  PROVE  /\ faults \in Nat /\ exits \in Nat
         /\ \A i \in Positions : paid[i] \in Nat
         /\ DOMAIN loans = 1..Len(loans) /\ Len(loans) \in Nat
         /\ \A i \in DOMAIN loans : i \in Positions
BY BoundsAssumption DEF TypeInv, TypeOK, Positions

\* A deposit pays a loan that was not owed, and makes it owed.
LEMMA DepositAccounted ==
  ASSUME OneThreadPerProcess, Ordered, Accounted, NEW t \in Threads, Deposit(t)
  PROVE  Accounted'
<1>1. /\ pc[t] \in Held /\ ~Paying(t) /\ at[t] \in DOMAIN loans
      /\ loans[at[t]].status = "ASSIGNED"
  BY InHand DEF Deposit, Held, Paying, Updating, Ordered, Isolated, Derived
<1>2. ~Owed(at[t])
  BY <1>1, PaysAlone DEF Owed
<1>3. UNCHANGED <<loans, faults, exits, at, tmp>>
  BY DEF Deposit, locals, counts
<1>4. \A i \in Positions : i # at[t] => paid'[i] = paid[i]
  BY DEF Deposit, Ordered, TypeInv, TypeOK
<1>5. \A u \in Threads : Paying(u) => Paying(u)' /\ at'[u] = at[u]
  BY <1>1, <1>3 DEF Deposit, Goto, Paying, Ordered, TypeInv, TypeOK
<1>6. \A i \in DOMAIN loans : Owed(i) => Owed(i)'
  BY <1>3, <1>5, OwedKept
<1>7. \/ paid'[at[t]] = paid[at[t]]
      \/ paid'[at[t]] = paid[at[t]] + 1 /\ Owed(at[t])'
  <2>1. CASE paid' = [paid EXCEPT ![at[t]] = @ + 1] /\ Goto(t, "log")
    <3>1. paid'[at[t]] = paid[at[t]] + 1
      BY <1>1, <2>1, AccountedTypes DEF Ordered, TypeInv, TypeOK
    <3>2. pc'[t] = "log"
      BY <2>1 DEF Goto, Ordered, TypeInv, TypeOK
    <3> QED BY <1>3, <3>1, <3>2 DEF Owed, PayingOut
  <2> QED BY <2>1 DEF Deposit
<1> QED BY <1>1, <1>2, <1>3, <1>4, <1>6, <1>7, AccountedTypes DEF Accounted, Ordered

\* A write of an approval settles what is owed; no other write concerns a
\* loan that is owed.
LEMMA WriteAccounted ==
  ASSUME OneThreadPerProcess, Ordered, Accounted, NEW t \in Threads, WriteLoan(t)
  PROVE  Accounted'
<1>1. pc[t] = "write" /\ pc[t] \in Held /\ UNCHANGED <<paid, faults, exits, at, tmp>>
  BY DEF WriteLoan, Held, locals, counts
<1>2. \A u \in Threads \ {t} : Paying(u) => Paying(u)' /\ at'[u] = at[u]
  BY <1>1 DEF WriteLoan, Goto, Paying, Ordered, TypeInv, TypeOK
<1>3. ASSUME NEW i \in DOMAIN loans \ {at[t]}, Owed(i) PROVE Owed(i)'
  <2>1. loans'[i] = loans[i]
    BY WriteDecides
  <2> QED BY <1>2, <1>3, <2>1, OwedKept
<1>4. Owed(at[t]) => Owed(at[t])'
  <2>1. CASE tmp[t].status = "APPROVED"
    BY <1>1, <2>1, WriteDecides DEF Owed
  <2>2. CASE tmp[t].status # "APPROVED"
    <3>1. ~Paying(t) /\ loans[at[t]].status # "APPROVED"
      BY <1>1, <2>2, WriteDecides DEF Paying, Decides
    <3> QED BY <1>1, <3>1, PaysAlone DEF Owed
  <2> QED BY <2>1, <2>2
<1> QED BY <1>1, <1>3, <1>4, WriteDecides DEF Accounted

\* A new loan is neither paid nor owed.
LEMMA AppendAccounted ==
  ASSUME Ordered, Accounted, NEW t \in Threads, AppendLoan(t)
  PROVE  Accounted'
<1>1. UNCHANGED <<paid, faults, exits>> /\ ~Paying(t)
  BY DEF AppendLoan, counts, Paying
<1>2. \A u \in Threads : Paying(u) => Paying(u)' /\ at'[u] = at[u]
  BY <1>1, AnswerMoves, Moved DEF AppendLoan, Paying, Ordered, TypeInv
<1>3. \A i \in DOMAIN loans : Owed(i) => Owed(i)'
  BY <1>2, AppendAdds, OwedKept
<1>4. paid[Len(loans) + 1] = 0
  BY AppendAdds DEF Accounted
<1>5. ASSUME NEW i \in DOMAIN loans'
      PROVE  /\ paid[i] <= faults + exits + 1
             /\ ~Owed(i)' => paid[i] <= faults + exits
  <2>1. CASE i = Len(loans) + 1
    BY <1>4, <2>1, AccountedTypes DEF Ordered
  <2>2. CASE i # Len(loans) + 1
    <3>1. i \in DOMAIN loans
      BY <2>2, AppendAdds
    <3> QED BY <1>3, <3>1 DEF Accounted
  <2> QED BY <2>1, <2>2
<1>6. \A i \in Positions \ DOMAIN loans' : paid[i] = 0
  BY AppendAdds DEF Accounted
<1> QED BY <1>1, <1>5, <1>6 DEF Accounted

\* Any other step pays nothing, and forgets a payment only by failing.
LEMMA CalmAccounted ==
  ASSUME Ordered, Accounted, Calm, TypeInv'
  PROVE  Accounted'
<1> DEFINE f == faults + exits
           g == faults' + exits'
<1>1. UNCHANGED <<loans, paid>>
  BY DEF Calm
<1>2. f \in Nat /\ g \in Nat
  <2>1. faults \in Nat /\ exits \in Nat
    BY DEF Ordered, TypeInv, TypeOK
  <2>2. faults' \in Nat /\ exits' \in Nat
    BY DEF TypeInv, TypeOK
  <2>3. \A m, n \in Nat : m + n \in Nat
    OBVIOUS
  <2> QED BY <2>1, <2>2, <2>3, Zenon
<1>3. g >= f /\ \/ g >= f + 1
                \/ \A u \in Threads : Paying(u) => Paying(u)' /\ at'[u] = at[u]
  BY DEF Calm
<1>4. ASSUME NEW i \in DOMAIN loans
      PROVE  /\ paid[i] \in Nat /\ paid[i] <= f + 1
             /\ ~Owed(i) => paid[i] <= f
  <2>1. paid[i] <= f + 1 /\ (~Owed(i) => paid[i] <= f)
    BY Zenon DEF Accounted
  <2> QED BY <2>1, AccountedTypes DEF Ordered
<1>5. ASSUME NEW i \in DOMAIN loans
      PROVE  paid[i] <= g + 1 /\ (~Owed(i)' => paid[i] <= g)
  <2>1. Owed(i) => Owed(i)' \/ g >= f + 1
    BY <1>1, <1>3, OwedKept
  <2> HIDE DEF f, g
  <2> QED BY <1>2, <1>3, <1>4, <2>1
<1> QED BY <1>1, <1>5 DEF Accounted

\* With one thread per process a loan is paid once if it is approved and not
\* at all if it is not, but for one payment more per failed call or exit
\* between the deposit and the write of the record.
THEOREM PaymentsAccounted == OneThreadPerProcess /\ Spec => []PaidAccounted
<1> SUFFICES ASSUME OneThreadPerProcess PROVE Spec => []PaidAccounted
  OBVIOUS
<1> DEFINE Inv == Accounted /\ PaidUp
<1>1. Init => Inv
  BY DEF Init, PaidUp, ApprovedOnlyIfPaid, Paying, Accounted
<1>2. ASSUME Ordered, Inv, [Next]_vars PROVE Inv'
  <2>1. CASE \E t \in Threads : Deposit(t) \/ WriteLoan(t) \/ AppendLoan(t)
    BY <1>2, <2>1, DepositPaidUp, WritePaidUp, AppendPaidUp,
       DepositAccounted, WriteAccounted, AppendAccounted DEF Ordered
  <2>2. CASE ~ \E t \in Threads : Deposit(t) \/ WriteLoan(t) \/ AppendLoan(t)
    <3>1. Calm /\ TypeInv'
      BY <1>2, <2>2, CalmSteps, NextTyped DEF Ordered
    <3>2. PaidUp'
      BY <1>2, <3>1 DEF Calm, PaidUp, ApprovedOnlyIfPaid
    <3> QED BY <1>2, <3>1, <3>2, CalmAccounted
  <2> QED BY <2>1, <2>2
<1>3. Spec => []Ordered
  BY OrderKept
<1>4. ASSUME Ordered, Inv PROVE PaidAccounted
  <2> SUFFICES ASSUME NEW i \in DOMAIN loans
               PROVE  paid[i] - Due(i) \in 0..(faults + exits)
    BY DEF PaidAccounted
  <2>1. paid[i] \in Nat /\ faults \in Nat /\ exits \in Nat
    BY <1>4, AccountedTypes DEF Ordered
  <2>2. CASE Owed(i)
    <3>1. Due(i) = 1
      BY <2>2 DEF Due, Owed
    <3>2. paid[i] >= 1
      BY <1>4, <2>2 DEF Owed, PaidUp, ApprovedOnlyIfPaid, PayingOut, Paying
    <3>3. paid[i] <= faults + exits + 1
      BY <1>4 DEF Accounted
    <3> QED BY <2>1, <3>1, <3>2, <3>3
  <2>3. CASE ~Owed(i)
    <3>1. Due(i) = 0
      BY <2>3 DEF Due, Owed
    <3>2. paid[i] <= faults + exits
      BY <1>4, <2>3 DEF Accounted
    <3> QED BY <2>1, <3>1, <3>2
  <2> QED BY <2>2, <2>3
<1> HIDE DEF Inv
<1> QED BY <1>1, <1>2, <1>3, <1>4, PTL DEF Spec

-----------------------------------------------------------------------------
(* Loan ids, one thread per process.                                       *)

\* The strengthening: while no call has failed, ids are positions, and the id
\* an append computed is still that of the end of the file.
IdInv ==
  faults = 0 =>
    /\ \A i \in DOMAIN loans : loans[i].id = i
    /\ \A t \in Threads : pc[t] = "append" => newId[t] = Len(loans) + 1

\* All a step does to ids unless it is one of an append.
IdQuiet ==
  \A u \in Threads : pc'[u] = "append" => pc[u] = "append" /\ newId'[u] = newId[u]

\* A move elsewhere than to an append.
LEMMA MoveIdQuiet ==
  ASSUME TypeInv, NEW t \in Threads, NEW s, NEW r, NEW i, NEW rec, NEW n,
         Moves(t, s, r, i, rec, n), s # "append"
  PROVE  IdQuiet
BY Moved DEF IdQuiet, TypeInv

\* Every step but lseek() and a failing call computes no id.
LEMMA IdQuietSteps ==
  ASSUME TypeInv, [Next]_vars, ~ \E t \in Threads : SeekEnd(t) \/ SystemCallFails(t)
  PROVE  IdQuiet /\ UNCHANGED faults
<1> USE DEF counts
<1>1. CASE UNCHANGED vars
  BY <1>1 DEF vars, locals, IdQuiet
<1>2. ASSUME NEW t \in Threads, NEW s, Goto(t, s), s # "append", UNCHANGED newId
      PROVE  IdQuiet
  BY <1>2 DEF Goto, IdQuiet, TypeInv, TypeOK
<1>3. ASSUME NEW t \in Threads, Receive(t) PROVE IdQuiet /\ UNCHANGED faults
  <2>1. \E s : s # "append" /\ Goto(t, s)
    BY <1>3 DEF Receive, apply_loan, assign_loan_to_employee, approve_reject_loan,
                list_loans
  <2> QED BY <1>2, <1>3, <2>1 DEF Receive
<1>4. ASSUME NEW t \in Threads,
             Refuse(t) \/ ListLoans(t) \/ UnlockLoan(t) \/ AppendLoan(t)
      PROVE  IdQuiet /\ UNCHANGED faults
  BY <1>4, AnswerMoves, MoveIdQuiet DEF Refuse, ListLoans, UnlockLoan, AppendLoan
<1>5. ASSUME NEW t \in Threads, FindLoan(t) PROVE IdQuiet /\ UNCHANGED faults
  BY <1>2, <1>5, AnswerMoves, MoveIdQuiet DEF FindLoan
<1>6. ASSUME NEW t \in Threads, ReadLoan(t) \/ CheckEmployee(t)
      PROVE  IdQuiet /\ UNCHANGED faults
  <2>1. \E s : s # "append" /\ Goto(t, s)
    BY <1>6 DEF ReadLoan, CheckEmployee
  <2> QED BY <1>2, <1>6, <2>1 DEF ReadLoan, CheckEmployee
<1>7. ASSUME NEW t \in Threads,
             LockLoan(t) \/ CheckAccount(t) \/ Deposit(t) \/ LogDeposit(t) \/ WriteLoan(t)
      PROVE  IdQuiet /\ UNCHANGED faults
  <2>1. \E s : s # "append" /\ Goto(t, s)
    BY <1>7 DEF LockLoan, CheckAccount, Deposit, LogDeposit, WriteLoan
  <2> QED BY <1>2, <1>7, <2>1
          DEF LockLoan, CheckAccount, Deposit, LogDeposit, WriteLoan, locals
<1>8. CASE (\E a \in Accounts : SetStatus(a)) \/ (\E e \in Staff : ChangeRole(e))
  BY <1>8 DEF SetStatus, ChangeRole, locals, IdQuiet
<1>9. ASSUME NEW p \in Procs, Exit(p) PROVE IdQuiet /\ UNCHANGED faults
  BY <1>9 DEF Exit, IdQuiet
<1> QED BY <1>1, <1>3, <1>4, <1>5, <1>6, <1>7, <1>8, <1>9 DEF Next, HandlerStep

\* An append under a lock of the whole file is alone.
LEMMA AppendsAlone ==
  ASSUME OneThreadPerProcess, TypeInv, LockInv, faults = 0,
         NEW t \in Threads, NEW u \in Threads, pc[t] = "append", pc[u] = "append"
  PROVE  t = u
<1>1. 1 \in Positions
  <2>1. Len(loans) + 1 \in Positions /\ Len(loans) \in Nat
    BY RoomToAppend DEF TypeInv, TypeOK
  <2> QED BY <2>1, BoundsAssumption DEF Positions
<1>2. loanLock[1] = ProcOf[t] /\ loanLock[1] = ProcOf[u]
  BY <1>1 DEF LockInv, Holds
<1> QED BY <1>2 DEF OneThreadPerProcess

\* Every step keeps ids and positions together.
LEMMA IdStep ==
  ASSUME OneThreadPerProcess, Ordered, IdInv, [Next]_vars
  PROVE  IdInv'
<1>0. TypeInv /\ LockInv /\ loans \in Seq(LoanRec) /\ Len(loans) \in Nat
  BY DEF Ordered, TypeInv, TypeOK
<1>1. ASSUME NEW t \in Threads, SystemCallFails(t) PROVE IdInv'
  <2>1. faults' # 0
    BY <1>1 DEF SystemCallFails, Ordered, TypeInv, TypeOK
  <2> QED BY <2>1 DEF IdInv
<1>2. ASSUME NEW t \in Threads, SeekEnd(t) PROVE IdInv'
  <2>1. Moves(t, "append", req[t], at[t], tmp[t], Len(loans) + 1)
    BY <1>2 DEF SeekEnd, Moves, Goto, Ordered, TypeInv, TypeOK
  <2>2. UNCHANGED <<loans, faults>>
    BY <1>2 DEF SeekEnd, counts
  <2> QED BY <1>0, <2>1, <2>2, Moved DEF IdInv, TypeInv
<1>3. ASSUME NEW t \in Threads, AppendLoan(t), faults' = 0 PROVE IdInv'
  <2>1. faults = 0 /\ pc[t] = "append" /\ Moves(t, "recv", NoRequest, 0, NoLoan, 0)
    BY <1>3, AnswerMoves DEF AppendLoan, counts
  <2>2. newId[t] = Len(loans) + 1 /\ \A i \in DOMAIN loans : loans[i].id = i
    BY <2>1 DEF IdInv
  <2>3. \A i \in DOMAIN loans' : loans'[i].id = i
    BY <1>3, <2>2, AppendAdds
  <2>4. \A u \in Threads : pc'[u] # "append"
    BY <1>0, <2>1, AppendsAlone, Moved DEF TypeInv
  <2> QED BY <2>3, <2>4 DEF IdInv
<1>4. ASSUME NEW t \in Threads, WriteLoan(t) PROVE IdInv'
  <2>1. UNCHANGED <<newId, faults>> /\ Len(loans') = Len(loans)
    BY <1>4, WriteDecides DEF WriteLoan, locals, counts
  <2>2. tmp[t].id = loans[at[t]].id
    <3>1. loans[at[t]] \in LoanRec /\ Decides(loans[at[t]], tmp[t])
      BY <1>0, <1>4, WriteDecides
    <3> QED BY <3>1 DEF Decides, LoanRec
  <2>3. \A i \in DOMAIN loans' : i \in DOMAIN loans /\ loans'[i].id = loans[i].id
    BY <1>4, <2>2, WriteDecides
  <2>4. \A u \in Threads : pc'[u] = "append" => pc[u] = "append"
    BY <1>0, <1>4 DEF WriteLoan, Goto, TypeInv, TypeOK
  <2> QED BY <2>1, <2>3, <2>4 DEF IdInv
<1>5. CASE ~ \E t \in Threads : SystemCallFails(t) \/ SeekEnd(t) \/ AppendLoan(t) \/ WriteLoan(t)
  <2>1. IdQuiet /\ UNCHANGED <<faults, loans>>
    BY <1>0, <1>5, IdQuietSteps, LoansKept
  <2> QED BY <2>1 DEF IdQuiet, IdInv
<1>6. faults' # 0 => IdInv'
  BY DEF IdInv
<1> QED BY <1>1, <1>2, <1>3, <1>4, <1>5, <1>6

\* With one thread per process, and as long as no system call fails, the
\* search for a loan_id ends at the record it was given to, so that every loan
\* can be assigned and decided: append_loan() computes the id and writes the
\* record under one lock of the file.
THEOREM LoansFoundById == OneThreadPerProcess /\ Spec => []LoanFoundById
<1> SUFFICES ASSUME OneThreadPerProcess PROVE Spec => []LoanFoundById
  OBVIOUS
<1>1. Init => IdInv
  BY DEF Init, IdInv
<1>2. Ordered /\ IdInv /\ [Next]_vars => IdInv'
  BY IdStep
<1>3. Spec => []Ordered
  BY OrderKept
<1>4. ASSUME Ordered, IdInv PROVE LoanFoundById
  <2> SUFFICES ASSUME faults = 0, NEW i \in DOMAIN loans PROVE FoundAt(i, loans[i].id)
    BY DEF LoanFoundById
  <2>1. DOMAIN loans = 1..Len(loans) /\ Len(loans) \in Nat
    BY <1>4, AccountedTypes DEF Ordered
  <2>2. \A j \in 1..(i - 1) : j \in DOMAIN loans /\ j # i
    BY <2>1
  <2> QED BY <1>4, <2>2 DEF IdInv, FoundAt
<1> QED BY <1>1, <1>2, <1>3, <1>4, PTL DEF Spec
=============================================================================
