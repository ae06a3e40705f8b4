---------------------------- MODULE UsersProofs -----------------------------
(***************************************************************************)
(* Proofs about Users, for every set of threads, every way in which they   *)
(* may belong to processes, every set of first users and of typed values,  *)
(* and every bound.                                                        *)
(***************************************************************************)
EXTENDS Users, TLAPS

-----------------------------------------------------------------------------
(* Lemmas about the operators the model is built from.                     *)

\* Granting and dropping locks leaves a lock table.
LEMMA LockTyped ==
  ASSUME NEW R, NEW tab \in LockTable(R), NEW S, NEW p \in Procs
  PROVE  /\ Lock(tab, S, p) \in LockTable(R)
         /\ Close(tab, p) \in LockTable(R)
         /\ ReadOnlyPass(tab, p) \in LockTable(R)
BY DEF LockTable, Lock, Close, ReadOnlyPass

\* What a payload parses to.
LEMMA RequestTyped ==
  ASSUME NEW r \in Requests
  PROVE  /\ r.id \in 0..MaxUsers /\ r.name \in AllNames /\ r.contact \in AllContacts
         /\ r.password \in AllPasswords /\ r.role \in Roles \cup {"other"}
         /\ r.op = "CHANGE_ROLE" => r.role \in {"employee", "manager", "other"}
         /\ r.op = "ADD_CUSTOMER" => r.role = "customer"
         /\ r.op = "ADD_EMPLOYEE" => r.role \in {"employee", "manager", "admin", "other"}
         /\ r.op \in {"MODIFY_CUSTOMER", "MODIFY_USER", "CHANGE_ROLE"} => r.password = None
BY BoundsAssumption DEF Requests, Positions, AllNames, AllContacts, AllPasswords, Roles

\* The record that stands for none.
LEMMA NoUserTyped == NoUser \in UserRec
BY DEF NoUser, UserRec, AllNames, AllContacts, AllPasswords, Roles

\* A record made from a request.
LEMMA NewUserTyped ==
  ASSUME NEW n \in Nat, NEW r \in Requests, r.role # "other"
  PROVE  /\ NewUser(n, r) \in UserRec
         /\ NewUser(n, r).id = n /\ NewUser(n, r).name = r.name
         /\ NewUser(n, r).contact = r.contact
         /\ NewUser(n, r).role = r.role
BY RequestTyped DEF NewUser, UserRec, AllPasswords

\* A record with one field replaced.
LEMMA FieldTyped ==
  ASSUME NEW u \in UserRec
  PROVE  /\ \A c \in AllContacts :
              /\ [u EXCEPT !.contact = c] \in UserRec
              /\ [u EXCEPT !.contact = c].contact = c
              /\ [u EXCEPT !.contact = c].id = u.id
              /\ [u EXCEPT !.contact = c].name = u.name
              /\ [u EXCEPT !.contact = c].password = u.password
              /\ [u EXCEPT !.contact = c].role = u.role
         /\ \A w \in AllPasswords :
              /\ [u EXCEPT !.password = w] \in UserRec
              /\ [u EXCEPT !.password = w].contact = u.contact
              /\ [u EXCEPT !.password = w].id = u.id
              /\ [u EXCEPT !.password = w].name = u.name
              /\ [u EXCEPT !.password = w].password = w
              /\ [u EXCEPT !.password = w].role = u.role
         /\ \A x \in Roles :
              /\ [u EXCEPT !.role = x] \in UserRec
              /\ [u EXCEPT !.role = x].contact = u.contact
              /\ [u EXCEPT !.role = x].id = u.id
              /\ [u EXCEPT !.role = x].name = u.name
              /\ [u EXCEPT !.role = x].password = u.password
              /\ [u EXCEPT !.role = x].role = x
BY DEF UserRec

\* The file after is the file before with rec at position i, perhaps its end.
IsPut(S, before, i, rec, after) ==
  /\ after \in Seq(S)
  /\ Len(after) = IF i <= Len(before) THEN Len(before) ELSE i
  /\ DOMAIN after = DOMAIN before \cup {i}
  /\ after[i] = rec
  /\ \A j \in DOMAIN before : j # i => after[j] = before[j]

\* A write() into a file of records, or one at its end.
LEMMA PutAtTyped ==
  ASSUME NEW S, NEW s \in Seq(S), NEW rec \in S, NEW i \in 1..(Len(s) + 1)
  PROVE  IsPut(S, s, i, rec, PutAt(s, i, rec))
<1>0. Len(s) \in Nat /\ DOMAIN s = 1..Len(s) /\ \A j \in 1..Len(s) : s[j] \in S
  OBVIOUS
<1>1. CASE i <= Len(s)
  <2>1. i \in 1..Len(s) /\ PutAt(s, i, rec) = [s EXCEPT ![i] = rec]
    BY <1>0, <1>1 DEF PutAt
  <2>2. DOMAIN PutAt(s, i, rec) = (DOMAIN s) \cup {i}
    BY <1>0, <2>1
  <2>3. PutAt(s, i, rec) \in Seq(S) /\ Len(PutAt(s, i, rec)) = Len(s)
    BY <1>0, <2>1
  <2> QED BY <1>0, <1>1, <2>1, <2>2, <2>3 DEF IsPut
<1>2. CASE ~(i <= Len(s))
  <2>1. i = Len(s) + 1 /\ PutAt(s, i, rec) = Append(s, rec)
    BY <1>0, <1>2 DEF PutAt
  <2>2. 1..(Len(s) + 1) = (1..Len(s)) \cup {Len(s) + 1}
    BY <1>0
  <2>3. /\ Append(s, rec) \in Seq(S) /\ Len(Append(s, rec)) = Len(s) + 1
        /\ Append(s, rec)[Len(s) + 1] = rec
        /\ \A j \in 1..Len(s) : Append(s, rec)[j] = s[j]
        /\ DOMAIN Append(s, rec) = 1..(Len(s) + 1)
    BY <1>0
  <2> QED BY <1>0, <1>2, <2>1, <2>2, <2>3 DEF IsPut
<1> QED BY <1>1, <1>2

-----------------------------------------------------------------------------
(* What a step does to the thread that takes it.                           *)

\* The thread t goes on at s with these locals; the others stay.
Moves(t, s, r, a, u) ==
  /\ pc' = [pc EXCEPT ![t] = s]
  /\ req' = [req EXCEPT ![t] = r]
  /\ at' = [at EXCEPT ![t] = a]
  /\ tmp' = [tmp EXCEPT ![t] = u]

\* The handler has answered.
Ends(s, r, a, u) == s = "recv" /\ r = NoRequest /\ a = 0 /\ u = NoUser

\* A request has come.
Starts(t, s, r, a, u) ==
  /\ pc[t] = "recv" /\ r \in Requests /\ a = at[t] /\ u = tmp[t]
  /\ \/ s = "check" /\ r.op \in Additions
     \/ s = "find" /\ r.op \in Updates
     \/ s = "list"

\* The thread goes on with the locals it has.
Passes(t, s, r, a, u) ==
  /\ r = req[t] /\ a = at[t] /\ u = tmp[t]
  /\ \/ /\ pc[t] = "check" /\ s = "newid"
        /\ check_uniqueness(req[t].name, req[t].contact, 0) \/ trouble' # 0
     \/ pc[t] = "hash" /\ s = "copy"
     \/ pc[t] = "scan" /\ s = "seek" /\ \A i \in DOMAIN users : users[i].id # tmp[t].id
     \/ /\ pc[t] = "ascan" /\ s = "aseek"
        /\ \A i \in DOMAIN accounts : accounts[i].id # tmp[t].id
     \/ pc[t] = "lock" /\ s = "read"
     \/ pc[t] \in {"read", "recheck", "write"} /\ s = "unlock"

\* The thread makes or modifies a record.
Fills(t, s, r, a, u) ==
  /\ r = req[t] /\ a = at[t]
  /\ \/ /\ pc[t] = "newid" /\ s = "hash" /\ r.role # "other"
        /\ \/ u = NewUser(Len(users) + 1, r)
           \/ u = NewUser(1, r) /\ trouble' # 0
     \/ /\ pc[t] = "copy" /\ s = IF r.op \in Additions THEN "scan" ELSE "write"
        /\ u = [tmp[t] EXCEPT !.password = crypt_buf[procOf[t]]]
     \/ /\ pc[t] = "read" /\ u = users[a]
        /\ \/ s = "recheck" /\ r.op \in {"MODIFY_CUSTOMER", "MODIFY_USER"}
           \/ s = "hash" /\ r.op = "CHANGE_PASSWORD"
     \/ /\ pc[t] = "read" /\ s = "write" /\ r.op = "CHANGE_ROLE"
        /\ MayChangeRole(users[a], r) /\ u = [users[a] EXCEPT !.role = r.role]
     \/ /\ pc[t] = "recheck" /\ s = "write"
        /\ u = [tmp[t] EXCEPT !.contact = r.contact]
        /\ check_uniqueness(tmp[t].name, r.contact, tmp[t].id) \/ trouble' # 0

\* The thread comes to the position of a record.
Aims(t, s, r, a, u) ==
  /\ r = req[t] /\ u = tmp[t]
  /\ \/ pc[t] = "scan" /\ s = "put" /\ a \in DOMAIN users /\ FirstAt(users, a, u.id)
     \/ pc[t] = "seek" /\ s = "put" /\ a = Len(users) + 1 /\ Len(users) < MaxUsers
     \/ pc[t] = "put" /\ s = "ascan" /\ a = 0 /\ r.op = "ADD_CUSTOMER"
     \/ pc[t] = "ascan" /\ s = "aput" /\ a \in DOMAIN accounts /\ FirstAt(accounts, a, u.id)
     \/ pc[t] = "aseek" /\ s = "aput" /\ a = Len(accounts) + 1 /\ Len(accounts) < MaxUsers
     \/ pc[t] = "find" /\ s = "lock" /\ a \in DOMAIN users /\ FirstAt(users, a, r.id)

Turn(t, s, r, a, u) ==
  \/ Ends(s, r, a, u) \/ Starts(t, s, r, a, u) \/ Passes(t, s, r, a, u)
  \/ Fills(t, s, r, a, u) \/ Aims(t, s, r, a, u)

Turns(t) == \E s, r, a, u : Moves(t, s, r, a, u) /\ Turn(t, s, r, a, u)

\* The locals are functions on the threads.
Shaped ==
  /\ DOMAIN pc = Threads /\ DOMAIN req = Threads /\ DOMAIN at = Threads
  /\ DOMAIN tmp = Threads
  /\ pc = [t \in Threads |-> pc[t]] /\ req = [t \in Threads |-> req[t]]
  /\ at = [t \in Threads |-> at[t]] /\ tmp = [t \in Threads |-> tmp[t]]

\* Types have that shape.
LEMMA TypedShaped == TypeOK => Shaped
BY DEF TypeOK, Shaped

\* Where a move leaves the thread and the others.
LEMMA Moved ==
  ASSUME Shaped, NEW t \in Threads, NEW s, NEW r, NEW a, NEW u, Moves(t, s, r, a, u)
  PROVE  /\ pc'[t] = s /\ req'[t] = r /\ at'[t] = a /\ tmp'[t] = u
         /\ \A w \in Threads \ {t} :
              pc'[w] = pc[w] /\ req'[w] = req[w] /\ at'[w] = at[w] /\ tmp'[w] = tmp[w]
BY DEF Moves, Shaped

\* An update of a function with the value it has.
LEMMA SameLocals ==
  ASSUME Shaped, NEW t \in Threads
  PROVE  /\ req = [req EXCEPT ![t] = req[t]] /\ at = [at EXCEPT ![t] = at[t]]
         /\ tmp = [tmp EXCEPT ![t] = tmp[t]] /\ pc = [pc EXCEPT ![t] = pc[t]]
BY DEF Shaped

\* The answer ends the handler.
LEMMA AnswerTurns ==
  ASSUME NEW t \in Threads, Answer(t)
  PROVE  Turns(t)
<1>1. Moves(t, "recv", NoRequest, 0, NoUser)
  BY DEF Answer, Goto, Moves
<1>2. Turn(t, "recv", NoRequest, 0, NoUser)
  BY DEF Turn, Ends
<1> QED BY <1>1, <1>2 DEF Turns

\* A jump.
LEMMA PassTurns ==
  ASSUME Shaped, NEW t \in Threads, NEW s, Goto(t, s), UNCHANGED locals,
         Passes(t, s, req[t], at[t], tmp[t])
  PROVE  Turns(t)
<1>1. Moves(t, s, req[t], at[t], tmp[t])
  BY SameLocals DEF Goto, Moves, locals
<1> QED BY <1>1 DEF Turn, Turns

\* A change of the record the thread has.
LEMMA FillTurns ==
  ASSUME Shaped, NEW t \in Threads, NEW s, NEW u, Goto(t, s), UNCHANGED <<req, at>>,
         tmp' = [tmp EXCEPT ![t] = u], Fills(t, s, req[t], at[t], u)
  PROVE  Turns(t)
<1>1. Moves(t, s, req[t], at[t], u)
  BY SameLocals DEF Goto, Moves
<1> QED BY <1>1 DEF Turn, Turns

\* A change of the position the thread has come to.
LEMMA AimTurns ==
  ASSUME Shaped, NEW t \in Threads, NEW s, NEW a, Goto(t, s), UNCHANGED <<req, tmp>>,
         at' = [at EXCEPT ![t] = a], Aims(t, s, req[t], a, tmp[t])
  PROVE  Turns(t)
<1>1. Moves(t, s, req[t], a, tmp[t])
  BY SameLocals DEF Goto, Moves
<1> QED BY <1>1 DEF Turn, Turns

\* The scan of write_user() and of write_account().
LEMMA ScanTurns ==
  ASSUME Shaped, NEW t \in Threads, UNCHANGED <<req, tmp>>,
         \/ pc[t] = "scan" /\ Scan(t, users, "put", "seek")
         \/ pc[t] = "ascan" /\ Scan(t, accounts, "aput", "aseek")
  PROVE  Turns(t)
<1>1. ASSUME NEW i \in DOMAIN users, pc[t] = "scan", FirstAt(users, i, tmp[t].id),
             at' = [at EXCEPT ![t] = i], Goto(t, "put")
      PROVE  Turns(t)
  BY <1>1, AimTurns DEF Aims
<1>2. ASSUME NEW i \in DOMAIN accounts, pc[t] = "ascan", FirstAt(accounts, i, tmp[t].id),
             at' = [at EXCEPT ![t] = i], Goto(t, "aput")
      PROVE  Turns(t)
  BY <1>2, AimTurns DEF Aims
<1>3. ASSUME pc[t] = "scan", \A i \in DOMAIN users : users[i].id # tmp[t].id,
             UNCHANGED at, Goto(t, "seek")
      PROVE  Turns(t)
  BY <1>3, PassTurns DEF Passes, locals
<1>4. ASSUME pc[t] = "ascan", \A i \in DOMAIN accounts : accounts[i].id # tmp[t].id,
             UNCHANGED at, Goto(t, "aseek")
      PROVE  Turns(t)
  BY <1>4, PassTurns DEF Passes, locals
<1> QED BY <1>1, <1>2, <1>3, <1>4 DEF Scan

\* The end of write_user().
LEMMA AfterUserTurns ==
  ASSUME Shaped, NEW t \in Threads, pc[t] = "put", AfterUser(t)
  PROVE  Turns(t)
BY AnswerTurns, AimTurns DEF AfterUser, Aims

\* A request turns the thread that receives it.
LEMMA ReceiveTurns ==
  ASSUME Shaped, NEW t \in Threads, Receive(t)
  PROVE  Turns(t)
<1>1. PICK r \in Requests : /\ req' = [req EXCEPT ![t] = r]
                            /\ \/ r.op \in Additions /\ Goto(t, "check")
                               \/ r.op \in Updates /\ Goto(t, "find")
                               \/ r.op = "LIST_USERS" /\ Goto(t, "list")
  BY DEF Receive
<1>2. pc[t] = "recv" /\ UNCHANGED <<at, tmp>>
  BY DEF Receive
<1>3. ASSUME NEW s, Goto(t, s), Starts(t, s, r, at[t], tmp[t]) PROVE Turns(t)
  <2>1. Moves(t, s, r, at[t], tmp[t])
    BY <1>1, <1>2, <1>3, SameLocals DEF Goto, Moves
  <2> QED BY <1>3, <2>1 DEF Turn, Turns
<1> QED BY <1>1, <1>2, <1>3 DEF Starts

\* The sections of an addition turn the thread.
LEMMA AdditionTurns ==
  ASSUME Shaped, NEW t \in Threads,
         \/ ListUsers(t) \/ CheckNew(t) \/ NewId(t) \/ Hash(t) \/ CopyHash(t)
         \/ ScanUsers(t) \/ SeekUsers(t) \/ PutUser(t)
         \/ ScanAccounts(t) \/ SeekAccounts(t) \/ PutAccount(t)
  PROVE  Turns(t)
<1>1. CASE Answer(t)
  BY <1>1, AnswerTurns
<1>2. CASE ListUsers(t) \/ PutAccount(t)
  BY <1>1, <1>2 DEF ListUsers, PutAccount
<1>3. CASE CheckNew(t)
  BY <1>1, <1>3, PassTurns DEF CheckNew, Passes
<1>4. CASE NewId(t)
  <2>1. CASE /\ req[t].role # "other"
             /\ tmp' = [tmp EXCEPT ![t] = NewUser(generate_new_userId(t), req[t])]
             /\ Goto(t, "hash") /\ UNCHANGED <<req, at>>
    <3>1. pc[t] = "newid"
      BY <1>4 DEF NewId
    <3>2. Fills(t, "hash", req[t], at[t], NewUser(Len(users) + 1, req[t]))
      BY <2>1, <3>1 DEF Fills
    <3> QED BY <2>1, <3>2, FillTurns DEF generate_new_userId
  <2> QED BY <1>1, <1>4, <2>1 DEF NewId
<1>5. CASE Hash(t)
  BY <1>5, PassTurns DEF Hash, Passes
<1>6. CASE CopyHash(t)
  <2>1. tmp' = [tmp EXCEPT ![t] = [tmp[t] EXCEPT !.password = crypt_buf[procOf[t]]]]
    BY <1>6 DEF CopyHash
  <2>2. Fills(t, IF req[t].op \in Additions THEN "scan" ELSE "write", req[t], at[t],
              [tmp[t] EXCEPT !.password = crypt_buf[procOf[t]]])
    BY <1>6 DEF CopyHash, Fills
  <2> QED BY <1>6, <2>1, <2>2, FillTurns DEF CopyHash
<1>7. CASE ScanUsers(t) \/ ScanAccounts(t)
  BY <1>7, ScanTurns DEF ScanUsers, ScanAccounts
<1>8. CASE SeekUsers(t)
  BY <1>8, AimTurns DEF SeekUsers, Aims
<1>9. CASE SeekAccounts(t)
  BY <1>9, AimTurns DEF SeekAccounts, Aims
<1>10. CASE PutUser(t)
  BY <1>10, AfterUserTurns DEF PutUser
<1> QED BY <1>2, <1>3, <1>4, <1>5, <1>6, <1>7, <1>8, <1>9, <1>10

\* The sections of an update turn the thread.
LEMMA UpdateTurns ==
  ASSUME Shaped, NEW t \in Threads,
         \/ FindUser(t) \/ LockUser(t) \/ ReadUser(t) \/ Recheck(t)
         \/ WriteUser(t) \/ UnlockUser(t)
  PROVE  Turns(t)
<1>1. CASE FindUser(t)
  <2>1. ASSUME NEW i \in DOMAIN users, FirstAt(users, i, req[t].id),
               at' = [at EXCEPT ![t] = i], Goto(t, "lock"), UNCHANGED <<req, tmp>>
        PROVE  Turns(t)
    BY <1>1, <2>1, AimTurns DEF FindUser, Aims
  <2> QED BY <1>1, <2>1, AnswerTurns DEF FindUser
<1>2. CASE LockUser(t) \/ WriteUser(t)
  BY <1>2, PassTurns DEF LockUser, WriteUser, Passes
<1>3. CASE ReadUser(t)
  <2>1. pc[t] = "read" /\ UNCHANGED <<req, at>>
    BY <1>3 DEF ReadUser
  <2>2. ASSUME NEW s \in {"recheck", "hash"}, Goto(t, s),
               tmp' = [tmp EXCEPT ![t] = users[at[t]]],
               \/ s = "recheck" /\ req[t].op \in {"MODIFY_CUSTOMER", "MODIFY_USER"}
               \/ s = "hash" /\ req[t].op = "CHANGE_PASSWORD"
        PROVE  Turns(t)
    <3>1. Fills(t, s, req[t], at[t], users[at[t]])
      BY <2>1, <2>2 DEF Fills
    <3> QED BY <2>1, <2>2, <3>1, FillTurns
  <2>3. ASSUME req[t].op = "CHANGE_ROLE", MayChangeRole(users[at[t]], req[t]),
               tmp' = [tmp EXCEPT ![t] = [users[at[t]] EXCEPT !.role = req[t].role]],
               Goto(t, "write")
        PROVE  Turns(t)
    <3>1. Fills(t, "write", req[t], at[t], [users[at[t]] EXCEPT !.role = req[t].role])
      BY <2>1, <2>3 DEF Fills
    <3> QED BY <2>1, <2>3, <3>1, FillTurns
  <2>4. ASSUME Goto(t, "unlock"), UNCHANGED tmp PROVE Turns(t)
    BY <2>1, <2>4, PassTurns DEF Passes, locals
  <2> QED BY <1>3, <2>2, <2>3, <2>4 DEF ReadUser
<1>4. CASE Recheck(t)
  <2>1. pc[t] = "recheck" /\ UNCHANGED <<req, at>>
    BY <1>4 DEF Recheck
  <2>2. ASSUME check_uniqueness(tmp[t].name, req[t].contact, tmp[t].id),
               tmp' = [tmp EXCEPT ![t].contact = req[t].contact], Goto(t, "write")
        PROVE  Turns(t)
    <3>1. tmp' = [tmp EXCEPT ![t] = [tmp[t] EXCEPT !.contact = req[t].contact]]
      BY <2>2
    <3>2. Fills(t, "write", req[t], at[t], [tmp[t] EXCEPT !.contact = req[t].contact])
      BY <2>1, <2>2 DEF Fills
    <3> QED BY <2>1, <2>2, <3>1, <3>2, FillTurns
  <2>3. ASSUME Goto(t, "unlock"), UNCHANGED tmp PROVE Turns(t)
    BY <2>1, <2>3, PassTurns DEF Passes, locals
  <2> QED BY <1>4, <2>2, <2>3 DEF Recheck
<1>5. CASE UnlockUser(t)
  BY <1>5, AnswerTurns DEF UnlockUser
<1> QED BY <1>1, <1>2, <1>3, <1>4, <1>5

\* A failing call turns the thread.
LEMMA FailTurns ==
  ASSUME TypeOK, NEW t \in Threads, SystemCallFails(t)
  PROVE  Turns(t)
<1>0. Shaped /\ trouble' # 0
  BY TypedShaped DEF SystemCallFails, Trouble, TypeOK
<1>1. ASSUME pc[t] = "check", Goto(t, "newid"), UNCHANGED locals PROVE Turns(t)
  BY <1>0, <1>1, PassTurns DEF Passes
<1>2. ASSUME pc[t] = "newid", req[t].role # "other",
             tmp' = [tmp EXCEPT ![t] = NewUser(1, req[t])], Goto(t, "hash"),
             UNCHANGED <<req, at>>
      PROVE  Turns(t)
  <2>1. Fills(t, "hash", req[t], at[t], NewUser(1, req[t]))
    BY <1>0, <1>2 DEF Fills
  <2> QED BY <1>0, <1>2, <2>1, FillTurns
<1>3. ASSUME pc[t] = "recheck", tmp' = [tmp EXCEPT ![t].contact = req[t].contact],
             Goto(t, "write"), UNCHANGED <<req, at>>
      PROVE  Turns(t)
  <2>1. tmp' = [tmp EXCEPT ![t] = [tmp[t] EXCEPT !.contact = req[t].contact]]
    BY <1>3
  <2>2. Fills(t, "write", req[t], at[t], [tmp[t] EXCEPT !.contact = req[t].contact])
    BY <1>0, <1>3 DEF Fills
  <2> QED BY <1>0, <1>3, <2>1, <2>2, FillTurns
<1>4. ASSUME pc[t] \in {"read", "write"}, Goto(t, "unlock"), UNCHANGED locals
      PROVE  Turns(t)
  BY <1>0, <1>4, PassTurns DEF Passes
<1>5. CASE \/ pc[t] = "check" /\ Goto(t, "newid") /\ UNCHANGED locals
           \/ /\ pc[t] = "newid" /\ req[t].role # "other"
              /\ tmp' = [tmp EXCEPT ![t] = NewUser(1, req[t])] /\ Goto(t, "hash")
              /\ UNCHANGED <<req, at>>
           \/ /\ pc[t] = "recheck" /\ tmp' = [tmp EXCEPT ![t].contact = req[t].contact]
              /\ Goto(t, "write") /\ UNCHANGED <<req, at>>
           \/ pc[t] \in {"read", "write"} /\ Goto(t, "unlock") /\ UNCHANGED locals
  BY <1>1, <1>2, <1>3, <1>4, <1>5
<1>6. CASE \/ /\ \/ pc[t] = "scan" /\ Scan(t, users, "put", "seek")
                 \/ pc[t] = "ascan" /\ Scan(t, accounts, "aput", "aseek")
              /\ UNCHANGED <<req, tmp>>
           \/ pc[t] = "put" /\ AfterUser(t)
           \/ Answer(t)
  BY <1>0, <1>6, ScanTurns, AfterUserTurns, AnswerTurns
<1> QED BY <1>5, <1>6 DEF SystemCallFails

\* Every step is the turn of one thread, an exit, or leaves all threads alone.
LEMMA StepTurns ==
  ASSUME TypeOK, [Next]_vars
  PROVE  \/ UNCHANGED <<pc, req, at, tmp>>
         \/ \E p \in Procs : Exit(p)
         \/ \E t \in Threads : Turns(t)
<1>1. CASE UNCHANGED vars
  BY <1>1 DEF vars, locals
<1>2. ASSUME NEW t \in Threads, Receive(t) \/ HandlerStep(t) \/ SystemCallFails(t)
      PROVE  Turns(t)
  BY <1>2, TypedShaped, ReceiveTurns, AdditionTurns, UpdateTurns, FailTurns DEF HandlerStep
<1>3. ASSUME NEW i \in DOMAIN accounts, NEW p \in Procs, Deposit(i, p)
      PROVE  UNCHANGED <<pc, req, at, tmp>>
  BY <1>3 DEF Deposit, locals
<1> QED BY <1>1, <1>2, <1>3 DEF Next

-----------------------------------------------------------------------------
(* Type correctness.  Flow says which request a thread serves at each      *)
(* step, and that the positions it has come to are in the files.           *)

\* The thread is about to write back a record it has read.
Updating(s, r) ==
  \/ s \in {"recheck", "write"}
  \/ s \in {"hash", "copy"} /\ r.op = "CHANGE_PASSWORD"

Flowing(s, r, a, nu, na) ==
  /\ s \in {"check", "newid", "scan", "seek", "put"} => r.op \in Additions
  /\ s \in {"hash", "copy"} => r.op \in Additions \cup {"CHANGE_PASSWORD"}
  /\ s \in {"ascan", "aseek", "aput"} => r.op = "ADD_CUSTOMER"
  /\ s \in {"find", "lock", "read", "write", "unlock"} => r.op \in Updates
  /\ s = "recheck" => r.op \in {"MODIFY_CUSTOMER", "MODIFY_USER"}
  /\ s \in {"lock", "read", "unlock"} \/ Updating(s, r) => a \in 1..nu
  /\ s = "put" => a \in 1..(nu + 1)
  /\ s = "aput" => a \in 1..(na + 1)

Flow == \A t \in Threads : Flowing(pc[t], req[t], at[t], Len(users), Len(accounts))

TypeInv == TypeOK /\ Flow

\* What the types say of a thread and of the files.
LEMMA Locals ==
  ASSUME TypeInv
  PROVE  /\ Len(users) \in Nat /\ Len(accounts) \in Nat
         /\ Len(users) <= MaxUsers /\ Len(accounts) <= MaxUsers
         /\ DOMAIN users = 1..Len(users) /\ DOMAIN accounts = 1..Len(accounts)
         /\ \A i \in DOMAIN users : users[i] \in UserRec /\ users[i].id \in Nat
         /\ \A i \in DOMAIN accounts : accounts[i] \in [id : Nat, balance : Nat]
         /\ \A t \in Threads :
              /\ procOf[t] \in Procs /\ crypt_buf[procOf[t]] \in AllPasswords
              /\ pc[t] \in Steps /\ req[t] \in Requests \cup {NoRequest}
              /\ at[t] \in 0..MaxUsers /\ at[t] \in Nat
              /\ tmp[t] \in UserRec /\ tmp[t].id \in Nat
              /\ Flowing(pc[t], req[t], at[t], Len(users), Len(accounts))
<1>1. /\ users \in Seq(UserRec) /\ accounts \in Seq([id : Nat, balance : Nat])
      /\ \A u \in UserRec : u.id \in Nat
  BY DEF TypeInv, TypeOK, UserRec
<1>2. ASSUME NEW t \in Threads
      PROVE  /\ procOf[t] \in Procs /\ crypt_buf[procOf[t]] \in AllPasswords
             /\ pc[t] \in Steps /\ req[t] \in Requests \cup {NoRequest}
             /\ at[t] \in 0..MaxUsers /\ tmp[t] \in UserRec
             /\ Flowing(pc[t], req[t], at[t], Len(users), Len(accounts))
  BY RegimesAssumption DEF TypeInv, TypeOK, Flow
<1>3. \A a \in 0..MaxUsers : a \in Nat
  BY BoundsAssumption
<1>4. Len(users) <= MaxUsers /\ Len(accounts) <= MaxUsers
  BY DEF TypeInv, TypeOK
<1>5. /\ Len(users) \in Nat /\ Len(accounts) \in Nat
      /\ DOMAIN users = 1..Len(users) /\ DOMAIN accounts = 1..Len(accounts)
      /\ \A i \in DOMAIN users : users[i] \in UserRec
      /\ \A i \in DOMAIN accounts : accounts[i] \in [id : Nat, balance : Nat]
  <2>1. ASSUME NEW S, NEW f \in Seq(S)
        PROVE  Len(f) \in Nat /\ DOMAIN f = 1..Len(f) /\ \A i \in DOMAIN f : f[i] \in S
    OBVIOUS
  <2> QED BY <1>1, <2>1, Zenon
<1> QED BY <1>1, <1>2, <1>3, <1>4, <1>5, Zenon

\* A request under way is one that was sent.
LEMMA Sent ==
  ASSUME NEW r \in Requests \cup {NoRequest}, r.op \in Additions \cup Updates
  PROVE  r \in Requests
BY DEF NoRequest, Additions, Updates

\* A turn leads to a step that goes with its request and position.
LEMMA TurnTyped ==
  ASSUME TypeInv, NEW t \in Threads, NEW s, NEW r, NEW a, NEW u, Turn(t, s, r, a, u)
  PROVE  /\ s \in Steps /\ r \in Requests \cup {NoRequest} /\ a \in 0..MaxUsers
         /\ u \in UserRec
         /\ Flowing(s, r, a, Len(users), Len(accounts))
<1> DEFINE Goal == /\ s \in Steps /\ r \in Requests \cup {NoRequest} /\ a \in 0..MaxUsers
                   /\ u \in UserRec /\ Flowing(s, r, a, Len(users), Len(accounts))
<1>0. /\ Len(users) \in Nat /\ Len(accounts) \in Nat /\ MaxUsers \in Nat
      /\ Len(users) <= MaxUsers /\ Len(accounts) <= MaxUsers
      /\ DOMAIN users = 1..Len(users) /\ DOMAIN accounts = 1..Len(accounts)
      /\ pc[t] \in Steps /\ req[t] \in Requests \cup {NoRequest}
      /\ at[t] \in 0..MaxUsers /\ tmp[t] \in UserRec
      /\ Flowing(pc[t], req[t], at[t], Len(users), Len(accounts))
  BY Locals, BoundsAssumption
<1>1. CASE Ends(s, r, a, u)
  BY <1>0, <1>1, NoUserTyped DEF Ends, Flowing, Updating, Steps
<1>2. CASE Starts(t, s, r, a, u)
  <2>1. /\ r \in Requests /\ a \in 0..MaxUsers /\ u \in UserRec
        /\ \/ s = "check" /\ r.op \in Additions
           \/ s = "find" /\ r.op \in Updates
           \/ s = "list"
    BY <1>0, <1>2 DEF Starts
  <2> QED BY <2>1 DEF Flowing, Updating, Steps
<1>3. CASE Passes(t, s, r, a, u)
  <2>1. r = req[t] /\ a = at[t] /\ u = tmp[t]
    BY <1>3 DEF Passes
  <2>2. \/ pc[t] = "check" /\ s = "newid"
        \/ pc[t] = "hash" /\ s = "copy"
        \/ pc[t] = "scan" /\ s = "seek"
        \/ pc[t] = "ascan" /\ s = "aseek"
        \/ pc[t] = "lock" /\ s = "read"
        \/ pc[t] \in {"read", "recheck", "write"} /\ s = "unlock"
    BY <1>3 DEF Passes
  <2>3. Flowing(pc[t], r, a, Len(users), Len(accounts))
    BY <1>0, <2>1
  <2>4. CASE (pc[t] = "check" /\ s = "newid") \/ (pc[t] = "scan" /\ s = "seek")
    BY <1>0, <2>1, <2>3, <2>4 DEF Flowing, Updating, Steps
  <2>5. CASE (pc[t] = "hash" /\ s = "copy") \/ (pc[t] = "ascan" /\ s = "aseek")
    BY <1>0, <2>1, <2>3, <2>5 DEF Flowing, Updating, Steps
  <2>6. CASE pc[t] = "lock" /\ s = "read"
    BY <1>0, <2>1, <2>3, <2>6 DEF Flowing, Updating, Steps
  <2>7. CASE pc[t] \in {"read", "recheck", "write"} /\ s = "unlock"
    <3>1. r.op \in Updates
      BY <2>3, <2>7 DEF Flowing, Updates
    <3>2. a \in 1..Len(users)
      BY <2>3, <2>7 DEF Flowing, Updating
    <3> QED BY <1>0, <2>1, <2>7, <3>1, <3>2 DEF Flowing, Updating, Steps
  <2> QED BY <2>2, <2>4, <2>5, <2>6, <2>7
<1>4. CASE Fills(t, s, r, a, u)
  <2>1. r = req[t] /\ a = at[t]
    BY <1>4 DEF Fills
  <2>2. CASE /\ pc[t] = "newid" /\ s = "hash" /\ r.role # "other"
             /\ u = NewUser(Len(users) + 1, r) \/ u = NewUser(1, r)
    <3>1. r.op \in Additions
      BY <1>0, <2>1, <2>2 DEF Flowing
    <3>2. r \in Requests
      BY <1>0, <2>1, <3>1, Sent
    <3>3. u \in UserRec
      BY <1>0, <2>2, <3>2, NewUserTyped
    <3>4. Flowing(s, r, a, Len(users), Len(accounts)) /\ s \in Steps
      BY <2>2, <3>1 DEF Flowing, Updating, Steps, Additions
    <3> QED BY <1>0, <2>1, <3>3, <3>4
  <2>3. CASE /\ pc[t] = "copy" /\ s = IF r.op \in Additions THEN "scan" ELSE "write"
             /\ u = [tmp[t] EXCEPT !.password = crypt_buf[procOf[t]]]
    <3>1. u \in UserRec
      BY <1>0, <2>3, Locals, FieldTyped
    <3>2. Flowing(s, r, a, Len(users), Len(accounts)) /\ s \in Steps
      BY <1>0, <2>1, <2>3 DEF Flowing, Updating, Steps, Additions, Updates
    <3> QED BY <1>0, <2>1, <3>1, <3>2
  <2>4. CASE /\ pc[t] = "read" /\ u = users[a]
             /\ \/ s = "recheck" /\ r.op \in {"MODIFY_CUSTOMER", "MODIFY_USER"}
                \/ s = "hash" /\ r.op = "CHANGE_PASSWORD"
    <3>1. a \in 1..Len(users)
      BY <1>0, <2>1, <2>4 DEF Flowing
    <3>2. u \in UserRec
      BY <2>4, <3>1, Locals
    <3>3. Flowing(s, r, a, Len(users), Len(accounts)) /\ s \in Steps
      BY <2>4, <3>1 DEF Flowing, Updating, Steps
    <3> QED BY <1>0, <2>1, <3>2, <3>3
  <2>5. CASE /\ pc[t] = "read" /\ s = "write" /\ r.op = "CHANGE_ROLE"
             /\ MayChangeRole(users[a], r) /\ u = [users[a] EXCEPT !.role = r.role]
    <3>1. a \in 1..Len(users) /\ r \in Requests
      BY <1>0, <2>1, <2>5, Sent DEF Flowing, Updates
    <3>2. r.role \in Roles
      BY <2>5, <3>1, RequestTyped DEF MayChangeRole, Roles
    <3>3. u \in UserRec
      BY <2>5, <3>1, <3>2, Locals, FieldTyped
    <3>4. Flowing(s, r, a, Len(users), Len(accounts)) /\ s \in Steps
      BY <2>5, <3>1 DEF Flowing, Updating, Steps, Updates
    <3> QED BY <1>0, <2>1, <3>3, <3>4
  <2>6. CASE /\ pc[t] = "recheck" /\ s = "write"
             /\ u = [tmp[t] EXCEPT !.contact = r.contact]
    <3>1. r \in Requests
      BY <1>0, <2>1, <2>6, Sent DEF Flowing, Updates
    <3>2. u \in UserRec
      BY <1>0, <2>6, <3>1, RequestTyped, FieldTyped
    <3>3. Flowing(s, r, a, Len(users), Len(accounts)) /\ s \in Steps
      BY <1>0, <2>1, <2>6 DEF Flowing, Updating, Steps, Updates
    <3> QED BY <1>0, <2>1, <3>2, <3>3
  <2> QED BY <1>4, <2>2, <2>3, <2>4, <2>5, <2>6 DEF Fills
<1>5. CASE Aims(t, s, r, a, u)
  <2>1. r = req[t] /\ u = tmp[t]
    BY <1>5 DEF Aims
  <2>2. \/ pc[t] = "scan" /\ s = "put" /\ a \in DOMAIN users
        \/ pc[t] = "seek" /\ s = "put" /\ a = Len(users) + 1 /\ Len(users) < MaxUsers
        \/ pc[t] = "put" /\ s = "ascan" /\ a = 0 /\ r.op = "ADD_CUSTOMER"
        \/ pc[t] = "ascan" /\ s = "aput" /\ a \in DOMAIN accounts
        \/ pc[t] = "aseek" /\ s = "aput" /\ a = Len(accounts) + 1 /\ Len(accounts) < MaxUsers
        \/ pc[t] = "find" /\ s = "lock" /\ a \in DOMAIN users
    BY <1>5 DEF Aims
  <2>3. /\ \A i \in DOMAIN users : i \in 0..MaxUsers /\ i \in 1..Len(users)
                                   /\ i \in 1..(Len(users) + 1)
        /\ \A i \in DOMAIN accounts : i \in 0..MaxUsers /\ i \in 1..(Len(accounts) + 1)
        /\ Len(users) < MaxUsers => Len(users) + 1 \in 0..MaxUsers
        /\ Len(accounts) < MaxUsers => Len(accounts) + 1 \in 0..MaxUsers
        /\ Len(users) + 1 \in 1..(Len(users) + 1)
        /\ Len(accounts) + 1 \in 1..(Len(accounts) + 1)
        /\ 0 \in 0..MaxUsers
    BY <1>0
  <2>4. a \in 0..MaxUsers
    BY <2>2, <2>3, Zenon
  <2>5. /\ s = "put" => a \in 1..(Len(users) + 1)
        /\ s = "aput" => a \in 1..(Len(accounts) + 1)
        /\ s = "lock" => a \in 1..Len(users)
        /\ s \in {"put", "aput", "ascan", "lock"}
    BY <2>2, <2>3
  <2>6. /\ s = "put" => r.op \in Additions
        /\ s \in {"aput", "ascan"} => r.op = "ADD_CUSTOMER"
        /\ s = "lock" => r.op \in Updates
    BY <1>0, <2>1, <2>2 DEF Flowing
  <2>7. Flowing(s, r, a, Len(users), Len(accounts)) /\ s \in Steps
    BY <2>5, <2>6 DEF Flowing, Updating, Steps
  <2> QED BY <1>0, <2>1, <2>4, <2>7
<1> QED BY <1>1, <1>2, <1>3, <1>4, <1>5 DEF Turn

\* A move that goes with its locals keeps types and control flow of all.
LEMMA MovesTyped ==
  ASSUME TypeInv, NEW t \in Threads, NEW s \in Steps, NEW r \in Requests \cup {NoRequest},
         NEW a \in 0..MaxUsers, NEW u \in UserRec, Moves(t, s, r, a, u),
         Len(users') \in Nat, Len(users) <= Len(users'),
         Len(accounts') \in Nat, Len(accounts) <= Len(accounts'),
         Flowing(s, r, a, Len(users), Len(accounts))
  PROVE  /\ pc' \in [Threads -> Steps] /\ req' \in [Threads -> Requests \cup {NoRequest}]
         /\ at' \in [Threads -> 0..MaxUsers] /\ tmp' \in [Threads -> UserRec]
         /\ Flow'
<1>1. /\ pc' \in [Threads -> Steps] /\ req' \in [Threads -> Requests \cup {NoRequest}]
      /\ at' \in [Threads -> 0..MaxUsers] /\ tmp' \in [Threads -> UserRec]
  BY DEF Moves, TypeInv, TypeOK
<1>2. \A x \in Steps, y \in Requests \cup {NoRequest}, b \in 0..MaxUsers :
        Flowing(x, y, b, Len(users), Len(accounts)) =>
        Flowing(x, y, b, Len(users'), Len(accounts'))
  BY Locals, BoundsAssumption DEF Flowing
<1>3. \A w \in Threads : \/ /\ pc'[w] = s /\ req'[w] = r /\ at'[w] = a
                         \/ /\ pc'[w] = pc[w] /\ req'[w] = req[w] /\ at'[w] = at[w]
  BY TypedShaped, Moved DEF TypeInv
<1>4. Flow'
  BY <1>2, <1>3, Locals DEF Flow
<1> QED BY <1>1, <1>4

\* What put a record into users.db: in place, or at the end.
LEMMA PutUserDoes ==
  ASSUME TypeInv, NEW t \in Threads, PutUser(t)
  PROVE  /\ pc[t] = "put" /\ tmp[t] \in UserRec
         /\ at[t] \in 1..(Len(users) + 1) /\ at[t] \in 1..MaxUsers
         /\ users' \in Seq(UserRec) /\ Len(users') \in Nat
         /\ Len(users) <= Len(users') /\ Len(users') <= MaxUsers
         /\ Len(users') = IF at[t] <= Len(users) THEN Len(users) ELSE at[t]
         /\ DOMAIN users' = DOMAIN users \cup {at[t]}
         /\ users'[at[t]] = tmp[t]
         /\ \A i \in DOMAIN users : i # at[t] => users'[i] = users[i]
         /\ accounts' = accounts /\ procOf' = procOf /\ trouble' = trouble
         /\ Turns(t)
<1>1. pc[t] = "put" /\ users' = PutAt(users, at[t], tmp[t])
  BY DEF PutUser
<1>2. /\ at[t] \in 1..(Len(users) + 1) /\ at[t] \in 0..MaxUsers /\ tmp[t] \in UserRec
      /\ Len(users) \in Nat /\ Len(users) <= MaxUsers /\ users \in Seq(UserRec)
  BY <1>1, Locals DEF Flowing, TypeInv, TypeOK
<1>3. IsPut(UserRec, users, at[t], tmp[t], users')
  BY <1>1, <1>2, PutAtTyped, Zenon
<1>4. at[t] \in 1..MaxUsers /\ Len(users') \in Nat /\ Len(users) <= Len(users')
      /\ Len(users') <= MaxUsers
  BY <1>2, <1>3, BoundsAssumption DEF IsPut
<1>5. accounts' = accounts /\ procOf' = procOf /\ trouble' = trouble
  BY DEF PutUser, bounds
<1>6. Turns(t)
  BY TypedShaped, AdditionTurns DEF TypeInv
<1> QED BY <1>1, <1>2, <1>3, <1>4, <1>5, <1>6 DEF IsPut

\* What an update writes back.
LEMMA WriteUserDoes ==
  ASSUME TypeInv, NEW t \in Threads, WriteUser(t)
  PROVE  /\ pc[t] = "write" /\ tmp[t] \in UserRec /\ at[t] \in DOMAIN users
         /\ users' \in Seq(UserRec) /\ Len(users') = Len(users)
         /\ DOMAIN users' = DOMAIN users
         /\ users'[at[t]] = tmp[t]
         /\ \A i \in DOMAIN users : i # at[t] => users'[i] = users[i]
         /\ Moves(t, "unlock", req[t], at[t], tmp[t]) /\ Turns(t)
         /\ accounts' = accounts /\ procOf' = procOf /\ trouble' = trouble
         /\ clobbered' = clobbered
<1>1. pc[t] = "write" /\ users' = [users EXCEPT ![at[t]] = tmp[t]]
  BY DEF WriteUser
<1>2. /\ at[t] \in 1..Len(users) /\ tmp[t] \in UserRec /\ DOMAIN users = 1..Len(users)
      /\ users \in Seq(UserRec)
  BY <1>1, Locals DEF Flowing, Updating, TypeInv, TypeOK
<1>3. /\ users' \in Seq(UserRec) /\ Len(users') = Len(users)
      /\ DOMAIN users' = DOMAIN users
      /\ users'[at[t]] = tmp[t]
      /\ \A i \in DOMAIN users : i # at[t] => users'[i] = users[i]
  <2>1. /\ Len(users) \in Nat /\ at[t] \in 1..(Len(users) + 1) /\ at[t] <= Len(users)
        /\ DOMAIN users \cup {at[t]} = DOMAIN users
    BY <1>2
  <2>2. users' = PutAt(users, at[t], tmp[t])
    BY <1>1, <2>1 DEF PutAt
  <2>3. IsPut(UserRec, users, at[t], tmp[t], users')
    BY <1>2, <2>1, <2>2, PutAtTyped, Zenon
  <2> QED BY <2>1, <2>3 DEF IsPut
<1>4. Moves(t, "unlock", req[t], at[t], tmp[t])
  BY TypedShaped, SameLocals DEF WriteUser, Goto, Moves, TypeInv, locals
<1>5. Turns(t)
  BY TypedShaped, UpdateTurns DEF TypeInv
<1> QED BY <1>1, <1>2, <1>3, <1>4, <1>5 DEF WriteUser, bounds

\* What opens an account: in place, or at the end.
LEMMA PutAccountDoes ==
  ASSUME TypeInv, NEW t \in Threads, PutAccount(t)
  PROVE  /\ pc[t] = "aput" /\ at[t] \in 1..(Len(accounts) + 1) /\ at[t] \in 1..MaxUsers
         /\ accounts' \in Seq([id : Nat, balance : Nat]) /\ Len(accounts') \in Nat
         /\ Len(accounts) <= Len(accounts') /\ Len(accounts') <= MaxUsers
         /\ DOMAIN accounts' = DOMAIN accounts \cup {at[t]}
         /\ accounts'[at[t]].id = tmp[t].id
         /\ \A k \in DOMAIN accounts : k # at[t] => accounts'[k] = accounts[k]
         /\ Moves(t, "recv", NoRequest, 0, NoUser)
         /\ users' = users /\ procOf' = procOf /\ trouble' = trouble
<1> DEFINE new == [id |-> tmp[t].id, balance |-> 0]
<1>1. pc[t] = "aput" /\ accounts' = PutAt(accounts, at[t], new)
  BY DEF PutAccount
<1>2. /\ at[t] \in 1..(Len(accounts) + 1) /\ at[t] \in 0..MaxUsers /\ tmp[t].id \in Nat
      /\ Len(accounts) \in Nat /\ Len(accounts) <= MaxUsers
      /\ accounts \in Seq([id : Nat, balance : Nat])
  BY <1>1, Locals DEF Flowing, TypeInv, TypeOK
<1>3. new \in [id : Nat, balance : Nat] /\ new.id = tmp[t].id
  BY <1>2
<1> HIDE DEF new
<1>4. IsPut([id : Nat, balance : Nat], accounts, at[t], new, accounts')
  BY <1>1, <1>2, <1>3, PutAtTyped, Zenon
<1>5. at[t] \in 1..MaxUsers /\ Len(accounts') \in Nat /\ Len(accounts) <= Len(accounts')
      /\ Len(accounts') <= MaxUsers
  BY <1>2, <1>4, BoundsAssumption DEF IsPut
<1>6. Moves(t, "recv", NoRequest, 0, NoUser) /\ users' = users /\ procOf' = procOf
      /\ trouble' = trouble
  BY DEF PutAccount, Answer, Goto, Moves, bounds
<1> QED BY <1>1, <1>2, <1>3, <1>4, <1>5, <1>6 DEF IsPut

\* A deposit changes one balance.
LEMMA DepositDoes ==
  ASSUME TypeInv, NEW i \in DOMAIN accounts, NEW p \in Procs, Deposit(i, p)
  PROVE  /\ accounts' \in Seq([id : Nat, balance : Nat]) /\ Len(accounts') = Len(accounts)
         /\ DOMAIN accounts' = DOMAIN accounts
         /\ \A k \in DOMAIN accounts : /\ accounts'[k].id = accounts[k].id
                                       /\ accounts'[k].balance >= accounts[k].balance
         /\ UNCHANGED <<procOf, users, userLock, acctLock, crypt_buf, pc, req, at, tmp,
                        trouble, stale, raced, clobbered>>
<1>0. accounts \in Seq([id : Nat, balance : Nat])
  BY DEF TypeInv, TypeOK
<1>1. /\ DOMAIN accounts = 1..Len(accounts)
      /\ \A k \in DOMAIN accounts : accounts[k] \in [id : Nat, balance : Nat]
  BY Locals
<1>2. accounts' = [accounts EXCEPT ![i] = [accounts[i] EXCEPT !.balance = accounts[i].balance + 1]]
  BY DEF Deposit
<1>3. /\ [accounts[i] EXCEPT !.balance = accounts[i].balance + 1] \in [id : Nat, balance : Nat]
      /\ [accounts[i] EXCEPT !.balance = accounts[i].balance + 1].id = accounts[i].id
      /\ [accounts[i] EXCEPT !.balance = accounts[i].balance + 1].balance
           = accounts[i].balance + 1
      /\ accounts[i].balance + 1 >= accounts[i].balance
  <2>1. accounts[i] \in [id : Nat, balance : Nat]
    BY <1>1
  <2>2. ASSUME NEW x \in [id : Nat, balance : Nat]
        PROVE  /\ [x EXCEPT !.balance = x.balance + 1] \in [id : Nat, balance : Nat]
               /\ [x EXCEPT !.balance = x.balance + 1].id = x.id
               /\ [x EXCEPT !.balance = x.balance + 1].balance = x.balance + 1
               /\ x.balance + 1 >= x.balance
    OBVIOUS
  <2> QED BY <2>1, <2>2
<1>4. \A k \in DOMAIN accounts : accounts[k].balance \in Nat
  BY <1>1
<1>5. /\ accounts' \in Seq([id : Nat, balance : Nat]) /\ Len(accounts') = Len(accounts)
      /\ DOMAIN accounts' = DOMAIN accounts
  BY <1>0, <1>2, <1>3
<1>6. ASSUME NEW k \in DOMAIN accounts
      PROVE  /\ accounts'[k].id = accounts[k].id
             /\ accounts'[k].balance >= accounts[k].balance
  BY <1>2, <1>3, <1>4, <1>6
<1>7. UNCHANGED <<procOf, users, userLock, acctLock, crypt_buf, pc, req, at, tmp,
                  trouble, stale, raced, clobbered>>
  BY DEF Deposit, locals, ghosts
<1> QED BY <1>5, <1>6, <1>7

\* The steps that write neither file.
LEMMA FilesKept ==
  ASSUME [Next]_vars
  PROVE  /\ procOf' = procOf
         /\ (~ \E t \in Threads : PutUser(t) \/ WriteUser(t)) => users' = users
         /\ (~ \E t \in Threads : PutUser(t)) => clobbered' = clobbered
         /\ \/ accounts' = accounts
            \/ \E t \in Threads : PutAccount(t)
            \/ \E i \in DOMAIN accounts, p \in Procs : Deposit(i, p)
<1>1. CASE UNCHANGED vars
  BY <1>1 DEF vars, ghosts
<1>2. ASSUME NEW t \in Threads, Receive(t) \/ SystemCallFails(t)
      PROVE  UNCHANGED <<procOf, users, accounts, clobbered>>
  BY <1>2 DEF Receive, SystemCallFails, Relaxes, ghosts
<1>3. ASSUME NEW t \in Threads,
             \/ ListUsers(t) \/ CheckNew(t) \/ NewId(t) \/ Hash(t) \/ CopyHash(t)
             \/ ScanUsers(t) \/ SeekUsers(t) \/ ScanAccounts(t) \/ SeekAccounts(t)
             \/ FindUser(t) \/ LockUser(t) \/ ReadUser(t) \/ Recheck(t) \/ UnlockUser(t)
      PROVE  UNCHANGED <<procOf, users, accounts, clobbered>>
  BY <1>3 DEF ListUsers, CheckNew, NewId, Hash, CopyHash, ScanUsers, SeekUsers, ScanAccounts,
              SeekAccounts, FindUser, LockUser, ReadUser, Recheck, UnlockUser, Relaxes, ghosts
<1>4. ASSUME NEW t \in Threads, PutUser(t)
      PROVE  UNCHANGED <<procOf, accounts>>
  BY <1>4 DEF PutUser
<1>5. ASSUME NEW t \in Threads, WriteUser(t)
      PROVE  UNCHANGED <<procOf, accounts, clobbered>>
  BY <1>5 DEF WriteUser
<1>6. ASSUME NEW t \in Threads, PutAccount(t)
      PROVE  UNCHANGED <<procOf, users, clobbered>>
  BY <1>6 DEF PutAccount, ghosts
<1>7. ASSUME NEW i \in DOMAIN accounts, NEW p \in Procs, Deposit(i, p)
      PROVE  UNCHANGED <<procOf, users, clobbered>>
  BY <1>7 DEF Deposit, ghosts
<1>8. ASSUME NEW p \in Procs, Exit(p)
      PROVE  UNCHANGED <<procOf, users, accounts, clobbered>>
  BY <1>8 DEF Exit
<1> QED BY <1>1, <1>2, <1>3, <1>4, <1>5, <1>6, <1>7, <1>8 DEF Next, HandlerStep

\* The files keep their types and never shrink.
LEMMA FilesTyped ==
  ASSUME TypeInv, [Next]_vars
  PROVE  /\ users' \in Seq(UserRec) /\ Len(users') \in Nat
         /\ Len(users) <= Len(users') /\ Len(users') <= MaxUsers
         /\ accounts' \in Seq([id : Nat, balance : Nat]) /\ Len(accounts') \in Nat
         /\ Len(accounts) <= Len(accounts') /\ Len(accounts') <= MaxUsers
<1>0. /\ users \in Seq(UserRec) /\ accounts \in Seq([id : Nat, balance : Nat])
      /\ Len(users) \in Nat /\ Len(accounts) \in Nat
      /\ Len(users) <= MaxUsers /\ Len(accounts) <= MaxUsers
      /\ Len(users) <= Len(users) /\ Len(accounts) <= Len(accounts)
  BY Locals DEF TypeInv, TypeOK
<1>1. /\ users' \in Seq(UserRec) /\ Len(users') \in Nat
      /\ Len(users) <= Len(users') /\ Len(users') <= MaxUsers
  BY <1>0, FilesKept, PutUserDoes, WriteUserDoes
<1>2. /\ accounts' \in Seq([id : Nat, balance : Nat]) /\ Len(accounts') \in Nat
      /\ Len(accounts) <= Len(accounts') /\ Len(accounts') <= MaxUsers
  <2>1. CASE accounts' = accounts
    BY <1>0, <2>1
  <2>2. CASE \E t \in Threads : PutAccount(t)
    BY <2>2, PutAccountDoes
  <2>3. CASE \E i \in DOMAIN accounts, p \in Procs : Deposit(i, p)
    BY <1>0, <2>3, DepositDoes
  <2> QED BY <2>1, <2>2, <2>3, FilesKept
<1> QED BY <1>1, <1>2

\* The lock tables stay lock tables.
LEMMA LocksTyped ==
  ASSUME TypeInv, [Next]_vars
  PROVE  userLock' \in LockTable(Positions) /\ acctLock' \in LockTable(Positions)
<1>0. userLock \in LockTable(Positions) /\ acctLock \in LockTable(Positions)
  BY DEF TypeInv, TypeOK
<1> DEFINE Changed(old, new, p) ==
      \/ new = old \/ new = Close(old, p) \/ new = ReadOnlyPass(old, p)
      \/ \E S : new = Lock(old, S, p)
<1>1. ASSUME NEW old \in LockTable(Positions), NEW new, NEW p \in Procs, Changed(old, new, p)
      PROVE  new \in LockTable(Positions)
  BY <1>1, LockTyped
<1>2. CASE UNCHANGED vars
  BY <1>0, <1>2 DEF vars
<1>3. ASSUME NEW t \in Threads, Receive(t) \/ HandlerStep(t) \/ SystemCallFails(t)
      PROVE  Changed(userLock, userLock', procOf[t]) /\ Changed(acctLock, acctLock', procOf[t])
  <2>1. CASE Receive(t) \/ Hash(t) \/ CopyHash(t) \/ SeekUsers(t) \/ SeekAccounts(t)
             \/ ReadUser(t) \/ WriteUser(t)
    BY <2>1 DEF Receive, Hash, CopyHash, SeekUsers, SeekAccounts, ReadUser, WriteUser
  <2>2. CASE ListUsers(t) \/ CheckNew(t) \/ NewId(t) \/ FindUser(t) \/ Recheck(t)
    BY <2>2 DEF ListUsers, CheckNew, NewId, FindUser, Recheck
  <2>3. CASE ScanUsers(t) \/ ScanAccounts(t) \/ LockUser(t)
    BY <2>3 DEF ScanUsers, ScanAccounts, LockUser
  <2>4. CASE PutUser(t) \/ PutAccount(t) \/ UnlockUser(t)
    BY <2>4 DEF PutUser, PutAccount, UnlockUser
  <2>5. CASE SystemCallFails(t)
    BY <2>5 DEF SystemCallFails
  <2> QED BY <1>3, <2>1, <2>2, <2>3, <2>4, <2>5 DEF HandlerStep
<1>4. ASSUME NEW i \in DOMAIN accounts, NEW p \in Procs, Deposit(i, p)
      PROVE  UNCHANGED <<userLock, acctLock>>
  BY <1>4 DEF Deposit
<1>5. ASSUME NEW p \in Procs, Exit(p)
      PROVE  Changed(userLock, userLock', p) /\ Changed(acctLock, acctLock', p)
  BY <1>5 DEF Exit
<1>6. \A t \in Threads : procOf[t] \in Procs
  BY Locals
<1> HIDE DEF Changed
<1> QED BY <1>0, <1>1, <1>2, <1>3, <1>4, <1>5, <1>6 DEF Next

\* The buffer of crypt(), and the counters.
LEMMA RestTyped ==
  ASSUME TypeInv, [Next]_vars
  PROVE  /\ crypt_buf' \in [Procs -> AllPasswords]
         /\ served' \in Nat /\ trouble' \in Nat
<1>0. crypt_buf \in [Procs -> AllPasswords] /\ served \in Nat /\ trouble \in Nat
  BY DEF TypeInv, TypeOK
<1>1. crypt_buf' \in [Procs -> AllPasswords]
  <2>1. ASSUME NEW t \in Threads, Hash(t) PROVE crypt_buf' \in [Procs -> AllPasswords]
    <3>1. req[t].op \in Additions \cup {"CHANGE_PASSWORD"}
      BY <2>1, Locals DEF Hash, Flowing
    <3>2. req[t] \in Requests
      BY <3>1, Locals, Sent DEF Updates
    <3>3. req[t].password \in AllPasswords
      BY <3>2, RequestTyped
    <3> QED BY <1>0, <2>1, <3>3 DEF Hash
  <2>2. ASSUME NEW p \in Procs, Exit(p) PROVE crypt_buf' \in [Procs -> AllPasswords]
    BY <1>0, <2>2 DEF Exit, AllPasswords
  <2>3. ASSUME NEW t \in Threads, Receive(t) \/ HandlerStep(t) \/ SystemCallFails(t), ~Hash(t)
        PROVE  crypt_buf' = crypt_buf
    BY <2>3 DEF HandlerStep, Receive, SystemCallFails, ListUsers, CheckNew, NewId, CopyHash,
                ScanUsers, SeekUsers, PutUser, ScanAccounts, SeekAccounts, PutAccount, FindUser,
                LockUser, ReadUser, Recheck, WriteUser, UnlockUser
  <2> QED BY <1>0, <2>1, <2>2, <2>3 DEF Next, vars, Deposit
<1>2. served' \in Nat /\ trouble' \in Nat
  <2>1. ASSUME NEW t \in Threads, Receive(t) \/ SystemCallFails(t)
        PROVE  served' \in Nat /\ trouble' \in Nat
    BY <1>0, <2>1 DEF Receive, SystemCallFails, Trouble
  <2>2. ASSUME NEW t \in Threads, HandlerStep(t)
        PROVE  UNCHANGED <<served, trouble>>
    BY <2>2 DEF HandlerStep, ListUsers, CheckNew, NewId, Hash, CopyHash, ScanUsers, SeekUsers,
                PutUser, ScanAccounts, SeekAccounts, PutAccount, FindUser, LockUser, ReadUser,
                Recheck, WriteUser, UnlockUser, bounds
  <2>3. ASSUME NEW i \in DOMAIN accounts, NEW p \in Procs, Deposit(i, p)
        PROVE  served' \in Nat /\ trouble' \in Nat
    BY <1>0, <2>3 DEF Deposit
  <2>4. ASSUME NEW p \in Procs, Exit(p) PROVE served' \in Nat /\ trouble' \in Nat
    BY <1>0, <2>4 DEF Exit, Trouble
  <2> QED BY <1>0, <2>1, <2>2, <2>3, <2>4 DEF Next, vars, bounds
<1> QED BY <1>1, <1>2

\* The steps that change what a thread's grounds are.
LEMMA GroundsKept ==
  ASSUME [Next]_vars
  PROVE  \/ UNCHANGED <<stale, raced>>
         \/ \E t \in Threads : PutUser(t) \/ WriteUser(t) \/ Hash(t)
         \/ \E t \in Threads : /\ Answer(t) \/ AfterUser(t)
                               /\ stale' = [stale EXCEPT ![t] = FALSE] /\ raced' = raced
         \/ \E p \in Procs : Exit(p)
<1>1. ASSUME NEW t \in Threads, ListUsers(t) \/ UnlockUser(t)
      PROVE  Answer(t) /\ stale' = [stale EXCEPT ![t] = FALSE] /\ raced' = raced
  BY <1>1 DEF ListUsers, UnlockUser, Relaxes
<1>2. ASSUME NEW t \in Threads, CheckNew(t) \/ NewId(t) \/ FindUser(t)
      PROVE  \/ UNCHANGED <<stale, raced>>
             \/ Answer(t) /\ stale' = [stale EXCEPT ![t] = FALSE] /\ raced' = raced
  BY <1>2 DEF CheckNew, NewId, FindUser, Relaxes, ghosts
<1>3. ASSUME NEW t \in Threads,
             \/ Receive(t) \/ CopyHash(t) \/ ScanUsers(t) \/ SeekUsers(t) \/ ScanAccounts(t)
             \/ SeekAccounts(t) \/ PutAccount(t) \/ LockUser(t) \/ ReadUser(t) \/ Recheck(t)
      PROVE  UNCHANGED <<stale, raced>>
  BY <1>3 DEF Receive, CopyHash, ScanUsers, SeekUsers, ScanAccounts, SeekAccounts, PutAccount,
              LockUser, ReadUser, Recheck, ghosts
<1>4. ASSUME NEW t \in Threads, SystemCallFails(t)
      PROVE  \/ UNCHANGED <<stale, raced>>
             \/ /\ Answer(t) \/ AfterUser(t)
                /\ stale' = [stale EXCEPT ![t] = FALSE] /\ raced' = raced
  BY <1>4 DEF SystemCallFails, Relaxes, ghosts
<1>5. ASSUME NEW i \in DOMAIN accounts, NEW p \in Procs, Deposit(i, p)
      PROVE  UNCHANGED <<stale, raced>>
  BY <1>5 DEF Deposit, ghosts
<1>6. CASE UNCHANGED vars
  BY <1>6 DEF vars, ghosts
<1> QED BY <1>1, <1>2, <1>3, <1>4, <1>5, <1>6 DEF Next, HandlerStep

\* The history variables keep their types.
LEMMA HistoryTyped ==
  ASSUME TypeInv, [Next]_vars
  PROVE  /\ stale' \in [Threads -> BOOLEAN] /\ raced' \in BOOLEAN
         /\ clobbered' \subseteq Positions
<1>0. stale \in [Threads -> BOOLEAN] /\ raced \in BOOLEAN /\ clobbered \subseteq Positions
  BY DEF TypeInv, TypeOK
<1>1. clobbered' \subseteq Positions
  <2>1. ASSUME NEW t \in Threads, PutUser(t) PROVE clobbered' \subseteq Positions
    <3>1. at[t] \in Positions
      BY <2>1, PutUserDoes DEF Positions
    <3> QED BY <1>0, <2>1, <3>1 DEF PutUser
  <2> QED BY <1>0, <2>1, FilesKept
<1>2. stale' \in [Threads -> BOOLEAN]
  <2>1. ASSUME NEW t \in Threads, PutUser(t) \/ WriteUser(t) \/ Hash(t)
        PROVE  stale' \in [Threads -> BOOLEAN]
    <3>1. \E Q : stale' = [u \in Threads |-> Q[u] = TRUE]
      <4>1. CASE PutUser(t) \/ WriteUser(t)
        <5>1. stale' = [u \in Threads |-> IF u = t THEN FALSE
                                          ELSE stale[u] \/ pc[u] \in Relying]
          BY <4>1 DEF PutUser, WriteUser, Outdates
        <5>2. stale' = [u \in Threads |-> stale'[u] = TRUE]
          BY <5>1, <1>0
        <5> QED BY <5>2
      <4>2. CASE Hash(t)
        <5>1. stale' = [u \in Threads |->
                 \/ stale[u]
                 \/ u # t /\ procOf[u] = procOf[t] /\ pc[u] = "copy"]
          BY <4>2 DEF Hash
        <5>2. stale' = [u \in Threads |-> stale'[u] = TRUE]
          BY <5>1, <1>0
        <5> QED BY <5>2
      <4> QED BY <2>1, <4>1, <4>2
    <3> QED BY <3>1
  <2>2. ASSUME NEW t \in Threads, stale' = [stale EXCEPT ![t] = FALSE]
        PROVE  stale' \in [Threads -> BOOLEAN]
    BY <1>0, <2>2
  <2>3. ASSUME NEW p \in Procs, Exit(p) PROVE stale' \in [Threads -> BOOLEAN]
    BY <1>0, <2>3 DEF Exit
  <2> QED BY <1>0, <2>1, <2>2, <2>3, GroundsKept
<1>3. raced' \in BOOLEAN
  <2>1. ASSUME NEW t \in Threads, PutUser(t) \/ WriteUser(t) PROVE raced' \in BOOLEAN
    BY <2>1 DEF PutUser, WriteUser, Outdates
  <2>2. ASSUME NEW t \in Threads, Hash(t) PROVE raced' = raced
    BY <2>2 DEF Hash
  <2>3. ASSUME NEW p \in Procs, Exit(p) PROVE raced' = raced
    BY <2>3 DEF Exit
  <2> QED BY <1>0, <2>1, <2>2, <2>3, GroundsKept
<1> QED BY <1>1, <1>2, <1>3

\* An exit takes the locals of its threads.
LEMMA ExitLocals ==
  ASSUME TypeInv, NEW p \in Procs, Exit(p)
  PROVE  /\ \A u \in Threads : procOf[u] = p =>
              pc'[u] = "recv" /\ req'[u] = NoRequest /\ at'[u] = 0 /\ tmp'[u] = NoUser
         /\ \A u \in Threads : procOf[u] # p =>
              /\ pc'[u] = pc[u] /\ req'[u] = req[u] /\ at'[u] = at[u] /\ tmp'[u] = tmp[u]
              /\ stale'[u] = stale[u] /\ crypt_buf'[procOf[u]] = crypt_buf[procOf[u]]
         /\ users' = users /\ accounts' = accounts /\ procOf' = procOf /\ raced' = raced
         /\ clobbered' = clobbered /\ trouble' # 0
<1>1. /\ \A u \in Threads : procOf[u] = p =>
           pc'[u] = "recv" /\ req'[u] = NoRequest /\ at'[u] = 0 /\ tmp'[u] = NoUser
      /\ \A u \in Threads : procOf[u] # p =>
           /\ pc'[u] = pc[u] /\ req'[u] = req[u] /\ at'[u] = at[u] /\ tmp'[u] = tmp[u]
           /\ stale'[u] = stale[u]
  BY DEF Exit
<1>2. \A u \in Threads : procOf[u] # p => crypt_buf'[procOf[u]] = crypt_buf[procOf[u]]
  BY Locals DEF Exit, TypeInv, TypeOK
<1>3. trouble' # 0
  BY DEF Exit, Trouble, TypeInv, TypeOK
<1> QED BY <1>1, <1>2, <1>3 DEF Exit

\* The locals keep their types, and go with the steps.
LEMMA LocalsTyped ==
  ASSUME TypeInv, [Next]_vars
  PROVE  /\ pc' \in [Threads -> Steps] /\ req' \in [Threads -> Requests \cup {NoRequest}]
         /\ at' \in [Threads -> 0..MaxUsers] /\ tmp' \in [Threads -> UserRec]
         /\ Flow'
<1>1. /\ Len(users') \in Nat /\ Len(users) <= Len(users')
      /\ Len(accounts') \in Nat /\ Len(accounts) <= Len(accounts')
  BY FilesTyped
<1>2. ASSUME NEW t \in Threads, Turns(t)
      PROVE  /\ pc' \in [Threads -> Steps] /\ req' \in [Threads -> Requests \cup {NoRequest}]
             /\ at' \in [Threads -> 0..MaxUsers] /\ tmp' \in [Threads -> UserRec]
             /\ Flow'
  <2>1. PICK s, r, a, u : Moves(t, s, r, a, u) /\ Turn(t, s, r, a, u)
    BY <1>2 DEF Turns
  <2>2. /\ s \in Steps /\ r \in Requests \cup {NoRequest} /\ a \in 0..MaxUsers
        /\ u \in UserRec /\ Flowing(s, r, a, Len(users), Len(accounts))
    BY <2>1, TurnTyped
  <2> QED BY <1>1, <2>1, <2>2, MovesTyped
<1>3. \A x \in Steps, y \in Requests \cup {NoRequest}, b \in 0..MaxUsers :
        Flowing(x, y, b, Len(users), Len(accounts)) =>
        Flowing(x, y, b, Len(users'), Len(accounts'))
  BY <1>1, Locals, BoundsAssumption DEF Flowing
<1>4. CASE UNCHANGED <<pc, req, at, tmp>>
  <2>1. Flow'
    BY <1>3, <1>4, Locals DEF Flow
  <2> QED BY <1>4, <2>1 DEF TypeInv, TypeOK
<1>5. ASSUME NEW p \in Procs, Exit(p)
      PROVE  /\ pc' \in [Threads -> Steps] /\ req' \in [Threads -> Requests \cup {NoRequest}]
             /\ at' \in [Threads -> 0..MaxUsers] /\ tmp' \in [Threads -> UserRec]
             /\ Flow'
  <2>1. /\ pc' \in [Threads -> Steps] /\ at' \in [Threads -> 0..MaxUsers]
    BY <1>5, BoundsAssumption DEF Exit, Steps, TypeInv, TypeOK
  <2>2. req' \in [Threads -> Requests \cup {NoRequest}] /\ tmp' \in [Threads -> UserRec]
    BY <1>5, NoUserTyped DEF Exit, TypeInv, TypeOK
  <2>3. Flowing("recv", NoRequest, 0, Len(users), Len(accounts))
    BY DEF Flowing, Updating
  <2>4. Flow'
    BY <1>5, <2>3, ExitLocals, Locals DEF Flow
  <2> QED BY <2>1, <2>2, <2>4
<1> QED BY <1>2, <1>4, <1>5, StepTurns DEF TypeInv

\* Every step keeps types and control flow.
LEMMA NextTyped == TypeInv /\ [Next]_vars => TypeInv'
<1> SUFFICES ASSUME TypeInv, [Next]_vars PROVE TypeInv'  OBVIOUS
<1>1. procOf' \in Regimes
  BY FilesKept DEF TypeInv, TypeOK
<1> QED BY <1>1, FilesTyped, LocksTyped, RestTyped, HistoryTyped, LocalsTyped
        DEF TypeInv, TypeOK

\* What bootstrap.c leaves is typed.
LEMMA InitTyped == Init => TypeInv
<1> SUFFICES ASSUME Init PROVE TypeInv  OBVIOUS
<1>1. users \in Seq(UserRec) /\ Len(users) <= MaxUsers
  <2>1. /\ Len(BootUsers) \in Nat /\ Len(BootUsers) <= MaxUsers
        /\ DOMAIN BootUsers = 1..Len(BootUsers)
    BY BootAssumption, BoundsAssumption
  <2>2. \A i \in DOMAIN BootUsers : Record(i, BootUsers[i]) \in UserRec
    BY <2>1, BootAssumption DEF Record, UserRec, AllNames, AllContacts, AllPasswords
  <2>3. users = [i \in 1..Len(BootUsers) |-> Record(i, BootUsers[i])]
    BY <2>1 DEF Init
  <2>4. users \in [1..Len(BootUsers) -> UserRec]
    BY <2>1, <2>2, <2>3
  <2> QED BY <2>1, <2>4
<1>2. accounts \in Seq([id : Nat, balance : Nat]) /\ Len(accounts) <= MaxUsers
  <2>1. PICK n \in 0..Len(BootUsers) :
             accounts \in [1..n -> [id : DOMAIN BootUsers, balance : {0}]]
    BY DEF Init, BootAccounts
  <2>2. n \in Nat /\ n <= MaxUsers /\ DOMAIN BootUsers \subseteq Nat
    BY BootAssumption, BoundsAssumption
  <2>3. accounts \in [1..n -> [id : Nat, balance : Nat]]
    BY <2>1, <2>2
  <2>4. ASSUME NEW S, NEW m \in Nat, NEW f \in [1..m -> S] PROVE f \in Seq(S) /\ Len(f) = m
    OBVIOUS
  <2>5. accounts \in Seq([id : Nat, balance : Nat]) /\ Len(accounts) = n
    BY <2>2, <2>3, <2>4, Zenon
  <2> QED BY <2>2, <2>5
<1>3. userLock \in LockTable(Positions) /\ acctLock \in LockTable(Positions)
  BY DEF Init, Unlocked, LockTable
<1>4. /\ crypt_buf \in [Procs -> AllPasswords] /\ pc \in [Threads -> Steps]
      /\ req \in [Threads -> Requests \cup {NoRequest}]
      /\ at \in [Threads -> 0..MaxUsers] /\ tmp \in [Threads -> UserRec]
  BY NoUserTyped, BoundsAssumption DEF Init, AllPasswords, Steps
<1>5. Flow
  BY DEF Init, Flow, Flowing, Updating
<1> QED BY <1>1, <1>2, <1>3, <1>4, <1>5 DEF TypeInv, TypeOK, Init

\* Every variable keeps its type and every thread its place in the code, for
\* any number of threads, users and failures; in particular write_user() and
\* atomic_update_user() write to positions in the file or at its end only, and
\* a role is one of the four.
THEOREM TypeCorrect == Spec => [](TypeOK /\ Flow)
<1>1. TypeInv => TypeOK /\ Flow
  BY DEF TypeInv
<1> QED BY <1>1, InitTyped, NextTyped, PTL DEF Spec

-----------------------------------------------------------------------------
(* Updates keep identities, in every regime.  A record about to be written *)
(* back is of the user at that position, unless an addition has replaced   *)
(* him.                                                                    *)

\* The same user, perhaps with another role among those that may be changed.
SameUser(x, y) ==
  /\ x.id = y.id /\ x.name = y.name
  /\ x.role = y.role \/ {x.role, y.role} = {"employee", "manager"}

Faithful ==
  \A t \in Threads :
    Updating(pc[t], req[t]) /\ at[t] \notin clobbered => SameUser(users[at[t]], tmp[t])

\* What a turn leads to when it leads into an update.
LEMMA TurnUpdates ==
  ASSUME TypeInv, NEW t \in Threads, NEW s, NEW r, NEW a, NEW u, Turn(t, s, r, a, u),
         Updating(s, r)
  PROVE  /\ r = req[t] /\ a = at[t] /\ a \in DOMAIN users /\ r \in Requests
         /\ \/ /\ pc[t] = "hash" /\ s = "copy" /\ u = tmp[t] /\ Updating(pc[t], req[t])
            \/ /\ pc[t] = "copy" /\ s = "write" /\ r.op = "CHANGE_PASSWORD"
               /\ u = [tmp[t] EXCEPT !.password = crypt_buf[procOf[t]]]
               /\ Updating(pc[t], req[t])
            \/ /\ pc[t] = "recheck" /\ s = "write" /\ r.op # "CHANGE_PASSWORD"
               /\ u = [tmp[t] EXCEPT !.contact = r.contact] /\ Updating(pc[t], req[t])
               /\ check_uniqueness(tmp[t].name, r.contact, tmp[t].id) \/ trouble' # 0
            \/ /\ pc[t] = "read" /\ s \in {"recheck", "hash"} /\ u = users[a]
            \/ /\ pc[t] = "read" /\ s = "write" /\ r.op = "CHANGE_ROLE"
               /\ u = [users[a] EXCEPT !.role = r.role]
               /\ MayChangeRole(users[a], r)
<1>1. Flowing(pc[t], req[t], at[t], Len(users), Len(accounts))
  BY Locals
<1>2. /\ Flowing(s, r, a, Len(users), Len(accounts)) /\ r \in Requests \cup {NoRequest}
      /\ DOMAIN users = 1..Len(users)
  BY TurnTyped, Locals
<1>3. a \in DOMAIN users /\ r.op \in Additions \cup Updates
  BY <1>2 DEF Flowing, Updating, Updates, Additions
<1>4. r \in Requests
  BY <1>2, <1>3, Sent
<1>5. ~Ends(s, r, a, u) /\ ~Starts(t, s, r, a, u) /\ ~Aims(t, s, r, a, u)
  BY DEF Ends, Starts, Aims, Updating
<1>6. CASE Passes(t, s, r, a, u)
  BY <1>3, <1>4, <1>6 DEF Passes, Updating
<1>7. CASE Fills(t, s, r, a, u)
  <2>1. r = req[t] /\ a = at[t]
    BY <1>7 DEF Fills
  <2>2. ~(pc[t] = "newid" /\ s = "hash")
    BY <1>1, <2>1 DEF Flowing, Updating, Additions
  <2>3. CASE /\ pc[t] = "copy" /\ s = IF r.op \in Additions THEN "scan" ELSE "write"
             /\ u = [tmp[t] EXCEPT !.password = crypt_buf[procOf[t]]]
    <3>1. s = "write" /\ r.op = "CHANGE_PASSWORD"
      BY <1>1, <2>1, <2>3 DEF Flowing, Updating
    <3> QED BY <1>3, <1>4, <2>1, <2>3, <3>1 DEF Updating
  <2>4. CASE /\ pc[t] = "read" /\ u = users[a] /\ s \in {"recheck", "hash"}
    BY <1>3, <1>4, <2>1, <2>4
  <2>5. CASE /\ pc[t] = "read" /\ s = "write" /\ r.op = "CHANGE_ROLE"
             /\ MayChangeRole(users[a], r) /\ u = [users[a] EXCEPT !.role = r.role]
    BY <1>3, <1>4, <2>1, <2>5
  <2>6. CASE /\ pc[t] = "recheck" /\ s = "write"
             /\ u = [tmp[t] EXCEPT !.contact = r.contact]
             /\ check_uniqueness(tmp[t].name, r.contact, tmp[t].id) \/ trouble' # 0
    <3>1. r.op # "CHANGE_PASSWORD"
      BY <1>1, <2>1, <2>6 DEF Flowing
    <3> QED BY <1>3, <1>4, <2>1, <2>6, <3>1 DEF Updating
  <2> QED BY <1>7, <2>2, <2>3, <2>4, <2>5, <2>6 DEF Fills
<1> QED BY <1>5, <1>6, <1>7 DEF Turn

\* The fields of a record about to be written back.
LEMMA UpdateFields ==
  ASSUME TypeInv, NEW t \in Threads, NEW s, NEW r, NEW a, NEW u, Turn(t, s, r, a, u),
         Updating(s, r)
  PROVE  \/ /\ Updating(pc[t], req[t])
            /\ u.id = tmp[t].id /\ u.name = tmp[t].name /\ u.role = tmp[t].role
            /\ \/ pc[t] \in {"hash", "copy"} /\ u.contact = tmp[t].contact
               \/ /\ pc[t] = "recheck" /\ u.contact = r.contact
                  /\ check_uniqueness(tmp[t].name, r.contact, tmp[t].id) \/ trouble' # 0
         \/ /\ pc[t] = "read" /\ u.contact = users[a].contact
            /\ u.id = users[a].id /\ u.name = users[a].name
            /\ u.role # users[a].role => {u.role, users[a].role} \subseteq {"employee", "manager"}
<1>1. /\ r = req[t] /\ a = at[t] /\ a \in DOMAIN users /\ r \in Requests
      /\ users[a] \in UserRec /\ tmp[t] \in UserRec
      /\ crypt_buf[procOf[t]] \in AllPasswords /\ r.contact \in AllContacts
  BY TurnUpdates, Locals, RequestTyped
<1>2. CASE pc[t] = "hash" /\ u = tmp[t] /\ Updating(pc[t], req[t])
  BY <1>2
<1>3. CASE /\ pc[t] = "copy" /\ u = [tmp[t] EXCEPT !.password = crypt_buf[procOf[t]]]
           /\ Updating(pc[t], req[t])
  BY <1>1, <1>3, FieldTyped
<1>4. CASE /\ pc[t] = "recheck" /\ u = [tmp[t] EXCEPT !.contact = r.contact]
           /\ Updating(pc[t], req[t])
           /\ check_uniqueness(tmp[t].name, r.contact, tmp[t].id) \/ trouble' # 0
  <2>1. u.id = tmp[t].id /\ u.name = tmp[t].name /\ u.role = tmp[t].role /\ u.contact = r.contact
    BY <1>1, <1>4, FieldTyped
  <2> QED BY <1>4, <2>1
<1>5. CASE pc[t] = "read" /\ u = users[a]
  BY <1>5
<1>6. CASE /\ pc[t] = "read" /\ r.op = "CHANGE_ROLE" /\ MayChangeRole(users[a], r)
           /\ u = [users[a] EXCEPT !.role = r.role]
  <2>1. r.role \in {"employee", "manager"} /\ users[a].role \in {"employee", "manager"}
    BY <1>1, <1>6, RequestTyped DEF MayChangeRole, UserRec, Roles
  <2>2. /\ u.id = users[a].id /\ u.name = users[a].name /\ u.role = r.role
        /\ u.contact = users[a].contact
    BY <1>1, <1>6, <2>1, FieldTyped DEF Roles
  <2> QED BY <1>6, <2>1, <2>2
<1> QED BY <1>2, <1>3, <1>4, <1>5, <1>6, TurnUpdates

\* The turn of a thread keeps its record that of the user it has read.
LEMMA TurnFaithful ==
  ASSUME TypeInv, Faithful, NEW t \in Threads, NEW s, NEW r, NEW a, NEW u,
         Turn(t, s, r, a, u), Updating(s, r), a \notin clobbered
  PROVE  SameUser(users[a], u)
<1>1. a = at[t] /\ users[a] \in UserRec /\ tmp[t] \in UserRec
  BY TurnUpdates, Locals
<1>2. CASE /\ Updating(pc[t], req[t])
           /\ u.id = tmp[t].id /\ u.name = tmp[t].name /\ u.role = tmp[t].role
  BY <1>1, <1>2 DEF Faithful, SameUser
<1>3. CASE /\ u.id = users[a].id /\ u.name = users[a].name
           /\ u.role # users[a].role => {u.role, users[a].role} \subseteq {"employee", "manager"}
  BY <1>3 DEF SameUser
<1> QED BY <1>2, <1>3, UpdateFields

\* Every step keeps the records about to be written back.
LEMMA FaithfulStep ==
  ASSUME TypeInv, Faithful, [Next]_vars
  PROVE  Faithful'
<1>1. CASE users' = users /\ clobbered' = clobbered
  <2>1. ASSUME NEW t \in Threads, Turns(t) PROVE Faithful'
    <3>1. PICK s, r, a, u : Moves(t, s, r, a, u) /\ Turn(t, s, r, a, u)
      BY <2>1 DEF Turns
    <3>2. Updating(s, r) /\ a \notin clobbered => SameUser(users[a], u)
      BY <3>1, TurnFaithful
    <3>3. /\ pc'[t] = s /\ req'[t] = r /\ at'[t] = a /\ tmp'[t] = u
          /\ \A w \in Threads \ {t} :
               pc'[w] = pc[w] /\ req'[w] = req[w] /\ at'[w] = at[w] /\ tmp'[w] = tmp[w]
      BY <3>1, Moved, TypedShaped DEF TypeInv
    <3> QED BY <1>1, <3>2, <3>3 DEF Faithful
  <2>2. CASE UNCHANGED <<pc, req, at, tmp>>
    BY <1>1, <2>2 DEF Faithful
  <2>3. ASSUME NEW p \in Procs, Exit(p) PROVE Faithful'
    <3>1. ~Updating("recv", NoRequest)
      BY DEF Updating
    <3> QED BY <1>1, <2>3, <3>1, ExitLocals DEF Faithful
  <2> QED BY <2>1, <2>2, <2>3, StepTurns DEF TypeInv
<1>2. ASSUME NEW t \in Threads, PutUser(t) PROVE Faithful'
  <2>1. /\ pc'[t] \in {"ascan", "recv"}
        /\ \A w \in Threads \ {t} :
             pc'[w] = pc[w] /\ req'[w] = req[w] /\ at'[w] = at[w] /\ tmp'[w] = tmp[w]
    BY <1>2 DEF PutUser, AfterUser, Answer, Goto, TypeInv, TypeOK
  <2>2. ASSUME NEW w \in Threads, Updating(pc'[w], req'[w]), at'[w] \notin clobbered'
        PROVE  SameUser(users'[at'[w]], tmp'[w])
    <3>1. w # t /\ Updating(pc[w], req[w]) /\ at'[w] = at[w] /\ tmp'[w] = tmp[w]
      BY <2>1, <2>2 DEF Updating
    <3>2. at[w] \in DOMAIN users
      BY <3>1, Locals DEF Flowing
    <3>3. at[w] \notin clobbered /\ at[w] # at[t]
      BY <1>2, <2>2, <3>1, <3>2 DEF PutUser
    <3>4. users'[at[w]] = users[at[w]]
      BY <1>2, <3>2, <3>3, PutUserDoes
    <3> QED BY <3>1, <3>3, <3>4 DEF Faithful
  <2> QED BY <2>2 DEF Faithful
<1>3. ASSUME NEW t \in Threads, WriteUser(t) PROVE Faithful'
  <2>1. /\ pc'[t] = "unlock"
        /\ \A w \in Threads \ {t} :
             pc'[w] = pc[w] /\ req'[w] = req[w] /\ at'[w] = at[w] /\ tmp'[w] = tmp[w]
    BY <1>3, WriteUserDoes, Moved, TypedShaped DEF TypeInv
  <2>2. ASSUME NEW w \in Threads, Updating(pc'[w], req'[w]), at'[w] \notin clobbered'
        PROVE  SameUser(users'[at'[w]], tmp'[w])
    <3>1. /\ w # t /\ Updating(pc[w], req[w]) /\ at'[w] = at[w] /\ tmp'[w] = tmp[w]
          /\ Updating(pc[t], req[t])
      BY <1>3, <2>1, <2>2, WriteUserDoes DEF Updating
    <3>2. at[w] \in DOMAIN users /\ at[w] \notin clobbered
      BY <1>3, <2>2, <3>1, Locals, WriteUserDoes DEF Flowing
    <3>3. SameUser(users[at[w]], tmp[w])
      BY <3>1, <3>2 DEF Faithful
    <3>4. CASE at[w] = at[t]
      <4>1. SameUser(users[at[w]], tmp[t]) /\ users'[at[w]] = tmp[t]
        BY <1>3, <3>1, <3>2, <3>4, WriteUserDoes DEF Faithful
      <4> QED BY <3>1, <3>3, <4>1 DEF SameUser
    <3>5. CASE at[w] # at[t]
      BY <1>3, <3>1, <3>2, <3>3, <3>5, WriteUserDoes
    <3> QED BY <3>4, <3>5
  <2> QED BY <2>2 DEF Faithful
<1> QED BY <1>1, <1>2, <1>3, FilesKept

\* With any number of threads and processes, stale reads, failing calls and
\* exits: no update changes a user's id or name or turns a customer or an
\* admin into something else.  Only write_user() with an id that was given out
\* twice replaces a user.
THEOREM IdentityIsKept == Spec => IdentityKept
<1>1. Init => Faithful
  BY DEF Init, Faithful, Updating
<1>2. TypeInv /\ Faithful /\ [Next]_vars => Faithful'
  BY FaithfulStep
<1>3. Spec => []TypeInv
  BY TypeCorrect, PTL DEF TypeInv
<1>4. TypeInv /\ Faithful /\ [Next]_vars =>
        [ \A i \in DOMAIN users \ clobbered' :
            /\ i \in DOMAIN users'
            /\ users'[i].id = users[i].id
            /\ users'[i].name = users[i].name
            /\ \/ users'[i].role = users[i].role
               \/ {users[i].role, users'[i].role} = {"employee", "manager"} ]_vars
  <2> SUFFICES ASSUME TypeInv, Faithful, [Next]_vars, NEW i \in DOMAIN users \ clobbered'
               PROVE  i \in DOMAIN users' /\ SameUser(users[i], users'[i])
    BY DEF SameUser
  <2>1. CASE users' = users
    BY <2>1 DEF SameUser
  <2>2. ASSUME NEW t \in Threads, PutUser(t)
        PROVE  i \in DOMAIN users' /\ SameUser(users[i], users'[i])
    <3>1. i # at[t]
      BY <2>2 DEF PutUser
    <3> QED BY <2>2, <3>1, PutUserDoes DEF SameUser
  <2>3. ASSUME NEW t \in Threads, WriteUser(t)
        PROVE  i \in DOMAIN users' /\ SameUser(users[i], users'[i])
    <3>1. /\ i \in DOMAIN users' /\ i \notin clobbered /\ Updating(pc[t], req[t])
          /\ users'[at[t]] = tmp[t] /\ (i # at[t] => users'[i] = users[i])
      BY <2>3, WriteUserDoes DEF Updating
    <3>2. i = at[t] => SameUser(users[i], tmp[t])
      BY <3>1 DEF Faithful
    <3> QED BY <3>1, <3>2 DEF SameUser
  <2> QED BY <2>1, <2>2, <2>3, FilesKept
<1> QED BY <1>1, <1>2, <1>3, <1>4, PTL DEF Spec, IdentityKept

-----------------------------------------------------------------------------
(* Steps with the locks they take, as long as no call fails.               *)

\* What process p may make of the locks of a file.
LockStep(old, new, p) ==
  \/ new = old
  \/ new = Close(old, p)
  \/ \E S \in SUBSET Positions : Grantable(old, S, p) /\ new = Lock(old, S, p)

\* Process p has locked the whole file.
HoldsAll(tab, p) == \A x \in Positions : tab[x] = p

\* A turn with its locks: write_user() and write_account() lock the file
\* before they look for a place in it.
LockTurn(t) ==
  /\ Turns(t)
  /\ LockStep(userLock, userLock', procOf[t])
  /\ LockStep(acctLock, acctLock', procOf[t])
  /\ pc[t] = "scan" /\ pc'[t] \in {"seek", "put"} =>
       userLock' = Lock(userLock, Positions, procOf[t])
  /\ pc[t] = "seek" => userLock' = userLock
  /\ pc[t] = "ascan" /\ pc'[t] \in {"aseek", "aput"} =>
       acctLock' = Lock(acctLock, Positions, procOf[t])
  /\ pc[t] = "aseek" => acctLock' = acctLock
  /\ pc[t] = "put" => PutUser(t)

\* A process keeps what it has locked while others take and drop locks.
LEMMA OthersKeepOff ==
  ASSUME NEW tab \in LockTable(Positions), NEW new, NEW p \in Procs, NEW q \in Procs, p # q,
         HoldsAll(tab, p), LockStep(tab, new, q)
  PROVE  HoldsAll(new, p)
<1>0. DOMAIN tab = Positions
  BY DEF LockTable
<1>1. CASE new = Close(tab, q)
  BY <1>0, <1>1 DEF Close, HoldsAll
<1>2. ASSUME NEW S \in SUBSET Positions, Grantable(tab, S, q), new = Lock(tab, S, q)
      PROVE  HoldsAll(new, p)
  <2>1. S = {}
    BY <1>2, NoProcAssumption DEF Grantable, HoldsAll
  <2> QED BY <1>0, <1>2, <2>1 DEF Lock, HoldsAll
<1> QED BY <1>1, <1>2 DEF LockStep

\* lock_file() locks it all.
LEMMA LockHoldsAll ==
  ASSUME NEW tab \in LockTable(Positions), NEW p \in Procs
  PROVE  HoldsAll(Lock(tab, Positions, p), p)
BY DEF LockTable, Lock, HoldsAll

\* Every step without trouble is the turn of one thread with its locks, or a
\* deposit.
LEMMA LockSteps ==
  ASSUME TypeInv, [Next]_vars, trouble' = 0
  PROVE  /\ trouble = 0
         /\ \/ UNCHANGED <<pc, req, at, tmp, userLock, acctLock>>
            \/ \E t \in Threads : LockTurn(t)
<1>0. trouble \in Nat /\ Shaped /\ \A t \in Threads : procOf[t] \in Procs
  BY TypedShaped, Locals DEF TypeInv, TypeOK
<1>1. \A t \in Threads : ~SystemCallFails(t)
  BY <1>0 DEF SystemCallFails, Trouble
<1>2. \A p \in Procs : ~Exit(p)
  BY ExitLocals
<1>3. CASE UNCHANGED vars
  BY <1>3 DEF vars, locals, bounds
<1>4. ASSUME NEW i \in DOMAIN accounts, NEW p \in Procs, Deposit(i, p)
      PROVE  UNCHANGED <<pc, req, at, tmp, userLock, acctLock, trouble>>
  BY <1>4 DEF Deposit, locals
<1>5. ASSUME NEW t \in Threads, Receive(t) \/ HandlerStep(t)
      PROVE  trouble' = trouble /\ LockTurn(t)
  <2>1. Turns(t)
    BY <1>0, <1>5, ReceiveTurns, AdditionTurns, UpdateTurns DEF HandlerStep
  <2>2. CASE Receive(t) \/ Hash(t) \/ CopyHash(t) \/ ReadUser(t) \/ WriteUser(t)
    <3>1. UNCHANGED <<userLock, acctLock, trouble>> /\ pc[t] \notin {"scan", "ascan", "put"}
      BY <2>2 DEF Receive, Hash, CopyHash, ReadUser, WriteUser, bounds
    <3> QED BY <2>1, <3>1 DEF LockTurn, LockStep
  <2>3. CASE SeekUsers(t) \/ SeekAccounts(t)
    <3>1. UNCHANGED <<userLock, acctLock, trouble>> /\ pc[t] \notin {"scan", "ascan", "put"}
      BY <2>3 DEF SeekUsers, SeekAccounts, bounds
    <3> QED BY <2>1, <3>1 DEF LockTurn, LockStep
  <2>4. CASE ListUsers(t) \/ CheckNew(t) \/ NewId(t) \/ FindUser(t) \/ Recheck(t)
             \/ UnlockUser(t) \/ PutUser(t)
    <3>1. /\ userLock' = Close(userLock, procOf[t]) /\ UNCHANGED <<acctLock, trouble>>
          /\ pc[t] \notin {"scan", "seek", "ascan", "aseek"}
          /\ pc[t] = "put" => PutUser(t)
      BY <2>4 DEF ListUsers, CheckNew, NewId, FindUser, Recheck, UnlockUser, PutUser,
                  ReadOnlyPass, bounds
    <3> QED BY <2>1, <3>1 DEF LockTurn, LockStep
  <2>5. CASE ScanUsers(t)
    <3>1. /\ pc[t] = "scan" /\ Grantable(userLock, Positions, procOf[t])
          /\ userLock' = Lock(userLock, Positions, procOf[t]) /\ UNCHANGED <<acctLock, trouble>>
      BY <2>5 DEF ScanUsers, bounds
    <3> QED BY <2>1, <3>1 DEF LockTurn, LockStep
  <2>6. CASE ScanAccounts(t)
    <3>1. /\ pc[t] = "ascan" /\ Grantable(acctLock, Positions, procOf[t])
          /\ acctLock' = Lock(acctLock, Positions, procOf[t]) /\ UNCHANGED <<userLock, trouble>>
      BY <2>6 DEF ScanAccounts, bounds
    <3> QED BY <2>1, <3>1 DEF LockTurn, LockStep
  <2>7. CASE PutAccount(t)
    <3>1. /\ pc[t] = "aput" /\ acctLock' = Close(acctLock, procOf[t])
          /\ UNCHANGED <<userLock, trouble>>
      BY <2>7 DEF PutAccount, bounds
    <3> QED BY <2>1, <3>1 DEF LockTurn, LockStep
  <2>8. CASE LockUser(t)
    <3>1. /\ pc[t] = "lock" /\ Grantable(userLock, {at[t]}, procOf[t])
          /\ userLock' = Lock(userLock, {at[t]}, procOf[t]) /\ UNCHANGED <<acctLock, trouble>>
      BY <2>8 DEF LockUser, bounds
    <3>2. {at[t]} \in SUBSET Positions
      <4>1. at[t] \in 1..Len(users) /\ Len(users) \in Nat /\ Len(users) <= MaxUsers
        BY <3>1, Locals DEF Flowing
      <4> QED BY <4>1, BoundsAssumption DEF Positions
    <3> QED BY <2>1, <3>1, <3>2 DEF LockTurn, LockStep
  <2> QED BY <1>5, <2>2, <2>3, <2>4, <2>5, <2>6, <2>7, <2>8 DEF HandlerStep
<1> QED BY <1>1, <1>2, <1>3, <1>4, <1>5 DEF Next

\* Where the steps that need a file locked come from.
LEMMA TurnSeeks ==
  ASSUME NEW t \in Threads, NEW s, NEW r, NEW a, NEW u, Turn(t, s, r, a, u)
  PROVE  /\ s \in {"seek", "put"} => pc[t] \in {"scan", "seek"} /\ r = req[t] /\ u = tmp[t]
         /\ s = "seek" => /\ pc[t] = "scan"
                          /\ \A i \in DOMAIN users : users[i].id # tmp[t].id
         /\ s = "put" => \/ /\ pc[t] = "scan" /\ a \in DOMAIN users
                            /\ FirstAt(users, a, u.id)
                         \/ pc[t] = "seek" /\ a = Len(users) + 1
         /\ s \in {"aseek", "aput"} => pc[t] \in {"ascan", "aseek"} /\ r = req[t] /\ u = tmp[t]
         /\ s = "aseek" => /\ pc[t] = "ascan"
                           /\ \A k \in DOMAIN accounts : accounts[k].id # tmp[t].id
         /\ s = "aput" => \/ /\ pc[t] = "ascan" /\ a \in DOMAIN accounts
                             /\ FirstAt(accounts, a, u.id)
                          \/ pc[t] = "aseek" /\ a = Len(accounts) + 1
         /\ s = "ascan" => pc[t] = "put" /\ r = req[t] /\ u = tmp[t]
BY DEF Turn, Ends, Starts, Passes, Fills, Aims

\* A thread that looks for the end of a file, or has found its place in it,
\* has the whole file locked.
Locked ==
  \A t \in Threads :
    /\ pc[t] \in {"seek", "put"} => HoldsAll(userLock, procOf[t])
    /\ pc[t] \in {"aseek", "aput"} => HoldsAll(acctLock, procOf[t])

\* Where no two threads share a process, nobody takes these locks away.
LEMMA LockedStep ==
  ASSUME TypeInv, Exclusive, Locked, [Next]_vars, trouble' = 0
  PROVE  Locked'
<1>0. /\ procOf' = procOf /\ \A t \in Threads : procOf[t] \in Procs
      /\ userLock \in LockTable(Positions) /\ acctLock \in LockTable(Positions)
  BY FilesKept, Locals DEF TypeInv, TypeOK
<1>1. CASE UNCHANGED <<pc, req, at, tmp, userLock, acctLock>>
  BY <1>0, <1>1 DEF Locked, HoldsAll
<1>2. ASSUME NEW t \in Threads, LockTurn(t) PROVE Locked'
  <2>1. PICK s, r, a, u : Moves(t, s, r, a, u) /\ Turn(t, s, r, a, u)
    BY <1>2 DEF LockTurn, Turns
  <2>2. pc'[t] = s /\ \A w \in Threads \ {t} : pc'[w] = pc[w]
    BY <2>1, Moved, TypedShaped DEF TypeInv
  <2>3. ASSUME NEW w \in Threads, w # t
        PROVE  /\ pc[w] \in {"seek", "put"} => HoldsAll(userLock', procOf[w])
               /\ pc[w] \in {"aseek", "aput"} => HoldsAll(acctLock', procOf[w])
    <3>1. procOf[w] # procOf[t]
      BY <2>3 DEF Exclusive
    <3> QED BY <1>0, <1>2, <3>1, OthersKeepOff DEF Locked, LockTurn
  <2>4. /\ s \in {"seek", "put"} => HoldsAll(userLock', procOf[t])
        /\ s \in {"aseek", "aput"} => HoldsAll(acctLock', procOf[t])
    <3>1. /\ s \in {"seek", "put"} => pc[t] \in {"scan", "seek"}
          /\ s \in {"aseek", "aput"} => pc[t] \in {"ascan", "aseek"}
      BY <2>1, TurnSeeks
    <3>2. /\ HoldsAll(Lock(userLock, Positions, procOf[t]), procOf[t])
          /\ HoldsAll(Lock(acctLock, Positions, procOf[t]), procOf[t])
      BY <1>0, LockHoldsAll
    <3>3. s \in {"seek", "put"} => HoldsAll(userLock', procOf[t])
      BY <1>2, <2>2, <3>1, <3>2 DEF LockTurn, Locked
    <3>4. s \in {"aseek", "aput"} => HoldsAll(acctLock', procOf[t])
      BY <1>2, <2>2, <3>1, <3>2 DEF LockTurn, Locked
    <3> QED BY <3>3, <3>4
  <2>5. \A w \in Threads :
          /\ pc'[w] \in {"seek", "put"} => HoldsAll(userLock', procOf[w])
          /\ pc'[w] \in {"aseek", "aput"} => HoldsAll(acctLock', procOf[w])
    BY <2>2, <2>3, <2>4
  <2> QED BY <1>0, <2>5 DEF Locked, HoldsAll
<1> QED BY <1>1, <1>2, LockSteps

-----------------------------------------------------------------------------
(* User ids.  In every regime no id runs ahead of its position; where the  *)
(* locks exclude and nothing fails the id is the position.  Between the    *)
(* two sections of generate_new_userId() and write_user() the file may     *)
(* grow, so the id a thread carries may be taken: the scan then finds the  *)
(* record to replace at exactly that position.                             *)

\* The thread has made the record of a new user.
Adding(s, r) ==
  \/ s \in {"scan", "seek", "put"}
  \/ s \in {"hash", "copy"} /\ r.op \in Additions

Bounded(s, r, a, u, n) ==
  /\ Adding(s, r) => u.id \in 1..(n + 1)
  /\ s = "put" => u.id <= a
  /\ Updating(s, r) => u.id \in 1..a

IdsBounded ==
  /\ \A i \in DOMAIN users : users[i].id \in 1..i
  /\ \A t \in Threads : Bounded(pc[t], req[t], at[t], tmp[t], Len(users))

\* What a turn leads to when it leads into an addition.
LEMMA TurnAdds ==
  ASSUME TypeInv, NEW t \in Threads, NEW s, NEW r, NEW a, NEW u, Turn(t, s, r, a, u),
         Adding(s, r)
  PROVE  /\ r = req[t] /\ r \in Requests
         /\ \/ /\ pc[t] = "newid" /\ s = "hash" /\ r.role # "other"
               /\ \/ u = NewUser(Len(users) + 1, r)
                  \/ u = NewUser(1, r) /\ trouble' # 0
            \/ /\ pc[t] = "hash" /\ s = "copy" /\ u = tmp[t] /\ Adding(pc[t], req[t])
            \/ /\ pc[t] = "copy" /\ s = "scan" /\ Adding(pc[t], req[t])
               /\ u = [tmp[t] EXCEPT !.password = crypt_buf[procOf[t]]]
            \/ pc[t] \in {"scan", "seek"} /\ s \in {"seek", "put"} /\ u = tmp[t]
<1>1. Flowing(pc[t], req[t], at[t], Len(users), Len(accounts))
  BY Locals
<1>2. /\ Flowing(s, r, a, Len(users), Len(accounts)) /\ r \in Requests \cup {NoRequest}
  BY TurnTyped
<1>3. r.op \in Additions
  BY <1>2 DEF Flowing, Adding
<1>4. r \in Requests
  BY <1>2, <1>3, Sent
<1>5. ~Ends(s, r, a, u) /\ ~Starts(t, s, r, a, u)
  BY DEF Ends, Starts, Adding
<1>6. CASE Passes(t, s, r, a, u)
  BY <1>3, <1>4, <1>6 DEF Passes, Adding
<1>7. CASE Fills(t, s, r, a, u)
  BY <1>3, <1>4, <1>7 DEF Fills, Adding, Additions
<1>8. CASE Aims(t, s, r, a, u)
  BY <1>4, <1>8 DEF Aims, Adding
<1> QED BY <1>5, <1>6, <1>7, <1>8 DEF Turn

\* A turn leads to a bounded id.
LEMMA TurnBounded ==
  ASSUME TypeInv, IdsBounded, NEW t \in Threads, NEW s, NEW r, NEW a, NEW u,
         Turn(t, s, r, a, u)
  PROVE  Bounded(s, r, a, u, Len(users))
<1>0. /\ Len(users) \in Nat /\ DOMAIN users = 1..Len(users) /\ tmp[t] \in UserRec
      /\ crypt_buf[procOf[t]] \in AllPasswords /\ tmp[t].id \in Nat
      /\ Bounded(pc[t], req[t], at[t], tmp[t], Len(users))
      /\ \A i \in DOMAIN users : users[i] \in UserRec /\ users[i].id \in 1..i
  BY Locals DEF IdsBounded
<1>1. \A w \in AllPasswords : [tmp[t] EXCEPT !.password = w].id = tmp[t].id
  BY <1>0, FieldTyped
<1>2. ASSUME Adding(s, r) PROVE u.id \in 1..(Len(users) + 1)
  <2>1. CASE pc[t] = "newid" /\ s = "hash"
    <3>1. /\ r \in Requests /\ r.role # "other"
          /\ u = NewUser(Len(users) + 1, r) \/ u = NewUser(1, r)
      BY <1>2, <2>1, TurnAdds
    <3>2. u.id = Len(users) + 1 \/ u.id = 1
      BY <3>1 DEF NewUser
    <3> QED BY <1>0, <3>2
  <2>2. CASE pc[t] # "newid"
    <3>1. /\ Adding(pc[t], req[t])
          /\ u = tmp[t] \/ u = [tmp[t] EXCEPT !.password = crypt_buf[procOf[t]]]
      BY <1>2, <2>2, TurnAdds DEF Adding
    <3>2. u.id = tmp[t].id
      BY <1>0, <1>1, <3>1
    <3> QED BY <1>0, <3>1, <3>2 DEF Bounded
  <2> QED BY <1>2, <2>1, <2>2, TurnAdds
<1>3. ASSUME s = "put" PROVE u.id <= a
  <2>1. /\ u = tmp[t] /\ pc[t] \in {"scan", "seek"}
        /\ \/ a \in DOMAIN users /\ users[a].id = u.id
           \/ a = Len(users) + 1
    BY <1>3, TurnSeeks DEF FirstAt
  <2>2. u.id \in 1..(Len(users) + 1)
    BY <1>0, <2>1 DEF Bounded, Adding
  <2> QED BY <1>0, <2>1, <2>2
<1>4. ASSUME Updating(s, r) PROVE u.id \in 1..a
  <2>1. /\ r = req[t] /\ a = at[t] /\ a \in DOMAIN users
    BY <1>4, TurnUpdates
  <2>2. CASE Updating(pc[t], req[t]) /\ u.id = tmp[t].id
    BY <1>0, <2>1, <2>2 DEF Bounded
  <2>3. CASE u.id = users[a].id
    BY <1>0, <2>1, <2>3
  <2> QED BY <1>4, <2>2, <2>3, UpdateFields
<1> QED BY <1>2, <1>3, <1>4 DEF Bounded

\* Every step keeps the ids bounded.
LEMMA BoundedStep ==
  ASSUME TypeInv, IdsBounded, [Next]_vars
  PROVE  IdsBounded'
<1>0. /\ Len(users) \in Nat /\ Len(users') \in Nat /\ Len(users) <= Len(users')
      /\ DOMAIN users = 1..Len(users)
  BY FilesTyped, Locals
<1>1. \A i \in DOMAIN users' : users'[i].id \in 1..i
  <2>1. ASSUME NEW t \in Threads, PutUser(t) PROVE \A i \in DOMAIN users' : users'[i].id \in 1..i
    <3>1. tmp[t].id \in 1..at[t]
      <4>1. tmp[t].id \in 1..(Len(users) + 1) /\ tmp[t].id <= at[t]
        BY <2>1, PutUserDoes DEF IdsBounded, Bounded, Adding
      <4> QED BY <1>0, <2>1, <4>1, PutUserDoes
    <3> QED BY <2>1, <3>1, PutUserDoes DEF IdsBounded
  <2>2. ASSUME NEW t \in Threads, WriteUser(t)
        PROVE  \A i \in DOMAIN users' : users'[i].id \in 1..i
    <3>1. tmp[t].id \in 1..at[t]
      BY <2>2, WriteUserDoes DEF IdsBounded, Bounded, Updating
    <3> QED BY <2>2, <3>1, WriteUserDoes DEF IdsBounded
  <2>3. CASE users' = users
    BY <2>3 DEF IdsBounded
  <2> QED BY <2>1, <2>2, <2>3, FilesKept
<1>2. ASSUME NEW s, NEW r, NEW a, NEW u, Bounded(s, r, a, u, Len(users))
      PROVE  Bounded(s, r, a, u, Len(users'))
  <2>1. 1..(Len(users) + 1) \subseteq 1..(Len(users') + 1)
    BY <1>0
  <2> QED BY <1>2, <2>1 DEF Bounded
<1>3. \A t \in Threads : Bounded(pc'[t], req'[t], at'[t], tmp'[t], Len(users))
  <2>1. ASSUME NEW t \in Threads, Turns(t)
        PROVE  \A w \in Threads : Bounded(pc'[w], req'[w], at'[w], tmp'[w], Len(users))
    <3>1. PICK s, r, a, u : Moves(t, s, r, a, u) /\ Turn(t, s, r, a, u)
      BY <2>1 DEF Turns
    <3>2. Bounded(s, r, a, u, Len(users))
      BY <3>1, TurnBounded
    <3> QED BY <3>1, <3>2, Moved, TypedShaped DEF TypeInv, IdsBounded
  <2>2. CASE UNCHANGED <<pc, req, at, tmp>>
    BY <2>2 DEF IdsBounded
  <2>3. ASSUME NEW p \in Procs, Exit(p)
        PROVE  \A w \in Threads : Bounded(pc'[w], req'[w], at'[w], tmp'[w], Len(users))
    <3>1. Bounded("recv", NoRequest, 0, NoUser, Len(users))
      BY DEF Bounded, Adding, Updating
    <3> QED BY <2>3, <3>1, ExitLocals DEF IdsBounded
  <2> QED BY <2>1, <2>2, <2>3, StepTurns DEF TypeInv
<1> QED BY <1>1, <1>2, <1>3 DEF IdsBounded

\* The id a thread carries is the position it has come to.
Exact(s, r, a, u, n) ==
  /\ s = "seek" => u.id = n + 1
  /\ s = "put" \/ Updating(s, r) => u.id = a

IdsExact ==
  /\ \A i \in DOMAIN users : users[i].id = i
  /\ \A t \in Threads : Exact(pc[t], req[t], at[t], tmp[t], Len(users))

\* A turn leads to an exact id.
LEMMA TurnExact ==
  ASSUME TypeInv, IdsBounded, IdsExact, NEW t \in Threads, NEW s, NEW r, NEW a, NEW u,
         Turn(t, s, r, a, u)
  PROVE  Exact(s, r, a, u, Len(users))
<1>0. /\ Len(users) \in Nat /\ DOMAIN users = 1..Len(users)
      /\ Bounded(pc[t], req[t], at[t], tmp[t], Len(users))
      /\ Exact(pc[t], req[t], at[t], tmp[t], Len(users))
      /\ \A i \in DOMAIN users : users[i].id = i
  BY Locals DEF IdsBounded, IdsExact
<1>1. ASSUME s = "seek" PROVE u.id = Len(users) + 1
  <2>1. /\ pc[t] = "scan" /\ u = tmp[t]
        /\ \A i \in DOMAIN users : users[i].id # tmp[t].id
    BY <1>1, TurnSeeks
  <2>2. u.id \in 1..(Len(users) + 1)
    BY <1>0, <2>1 DEF Bounded, Adding
  <2> QED BY <1>0, <2>1, <2>2
<1>2. ASSUME s = "put" PROVE u.id = a
  <2>1. \/ a \in DOMAIN users /\ users[a].id = u.id
        \/ pc[t] = "seek" /\ a = Len(users) + 1 /\ u = tmp[t]
    BY <1>2, TurnSeeks DEF FirstAt
  <2> QED BY <1>0, <2>1 DEF Exact
<1>3. ASSUME Updating(s, r) PROVE u.id = a
  <2>1. a = at[t] /\ a \in DOMAIN users
    BY <1>3, TurnUpdates
  <2> QED BY <1>0, <1>3, <2>1, UpdateFields DEF Exact
<1> QED BY <1>1, <1>2, <1>3 DEF Exact

\* No two threads have their place in users.db, nor do they look for its end
\* while another is about to write.
LEMMA OneWriter ==
  ASSUME TypeInv, Exclusive, Locked, NEW t \in Threads, NEW w \in Threads, t # w,
         pc[t] = "put"
  PROVE  pc[w] \notin {"seek", "put"}
<1>1. at[t] \in 1..(Len(users) + 1) /\ at[t] \in 0..MaxUsers /\ Len(users) \in Nat
  BY Locals DEF Flowing
<1>2. at[t] \in Positions
  BY <1>1, BoundsAssumption DEF Positions
<1> QED BY <1>2 DEF Locked, HoldsAll, Exclusive

\* Where the locks exclude, every step without trouble keeps the ids exact.
LEMMA ExactStep ==
  ASSUME TypeInv, IdsBounded, Exclusive, Locked, IdsExact, [Next]_vars, trouble' = 0
  PROVE  IdsExact'
<1>0. /\ Len(users) \in Nat /\ Len(users') \in Nat /\ DOMAIN users = 1..Len(users)
      /\ procOf' = procOf
  BY FilesTyped, FilesKept, Locals
<1>1. CASE users' = users
  <2>1. ASSUME NEW t \in Threads, LockTurn(t) PROVE IdsExact'
    <3>1. PICK s, r, a, u : Moves(t, s, r, a, u) /\ Turn(t, s, r, a, u)
      BY <2>1 DEF LockTurn, Turns
    <3>2. Exact(s, r, a, u, Len(users))
      BY <3>1, TurnExact
    <3>3. \A w \in Threads : Exact(pc'[w], req'[w], at'[w], tmp'[w], Len(users))
      BY <3>1, <3>2, Moved, TypedShaped DEF TypeInv, IdsExact
    <3> QED BY <1>1, <3>3 DEF IdsExact
  <2>2. CASE UNCHANGED <<pc, req, at, tmp>>
    BY <1>1, <2>2 DEF IdsExact
  <2> QED BY <2>1, <2>2, LockSteps
<1>2. ASSUME NEW t \in Threads, PutUser(t) PROVE IdsExact'
  <2>1. /\ pc[t] = "put" /\ tmp[t].id = at[t]
    BY <1>2, PutUserDoes DEF IdsExact, Exact
  <2>2. \A i \in DOMAIN users' : users'[i].id = i
    <3>1. /\ DOMAIN users' = DOMAIN users \cup {at[t]} /\ users'[at[t]] = tmp[t]
          /\ \A i \in DOMAIN users : i # at[t] => users'[i] = users[i]
      BY <1>2, PutUserDoes
    <3> QED BY <2>1, <3>1 DEF IdsExact
  <2>3. /\ pc'[t] \in {"ascan", "recv"}
        /\ \A w \in Threads \ {t} :
             pc'[w] = pc[w] /\ req'[w] = req[w] /\ at'[w] = at[w] /\ tmp'[w] = tmp[w]
    BY <1>2 DEF PutUser, AfterUser, Answer, Goto, TypeInv, TypeOK
  <2>4. ASSUME NEW w \in Threads
        PROVE  Exact(pc'[w], req'[w], at'[w], tmp'[w], Len(users'))
    <3>1. CASE w = t
      BY <2>3, <3>1 DEF Exact, Updating
    <3>2. CASE w # t
      <4>1. pc[w] \notin {"seek", "put"}
        BY <2>1, <3>2, OneWriter
      <4> QED BY <2>3, <3>2, <4>1 DEF IdsExact, Exact
    <3> QED BY <3>1, <3>2
  <2> QED BY <2>2, <2>4 DEF IdsExact
<1>3. ASSUME NEW t \in Threads, WriteUser(t) PROVE IdsExact'
  <2>1. tmp[t].id = at[t]
    BY <1>3, WriteUserDoes DEF IdsExact, Exact, Updating
  <2>2. \A i \in DOMAIN users' : users'[i].id = i
    BY <1>3, <2>1, WriteUserDoes DEF IdsExact
  <2>3. /\ pc'[t] = "unlock" /\ Len(users') = Len(users)
        /\ \A w \in Threads \ {t} :
             pc'[w] = pc[w] /\ req'[w] = req[w] /\ at'[w] = at[w] /\ tmp'[w] = tmp[w]
    BY <1>3, WriteUserDoes, Moved, TypedShaped DEF TypeInv
  <2>4. ASSUME NEW w \in Threads
        PROVE  Exact(pc'[w], req'[w], at'[w], tmp'[w], Len(users'))
    <3>1. CASE w = t
      BY <2>3, <3>1 DEF Exact, Updating
    <3>2. CASE w # t
      BY <2>3, <3>2 DEF IdsExact
    <3> QED BY <3>1, <3>2
  <2> QED BY <2>2, <2>4 DEF IdsExact
<1> QED BY <1>1, <1>2, <1>3, FilesKept

\* The invariant of the ids.
IdsInv ==
  /\ TypeInv /\ IdsBounded
  /\ Exclusive /\ trouble = 0 => Locked /\ IdsExact

\* It holds in every regime, whatever fails.
LEMMA IdsInvariant == Spec => []IdsInv
<1>1. Init => IdsInv
  <2> SUFFICES ASSUME Init PROVE IdsInv  OBVIOUS
  <2>1. TypeInv
    BY InitTyped
  <2>2. /\ DOMAIN BootUsers = 1..Len(BootUsers) /\ Len(BootUsers) \in Nat
        /\ users = [i \in DOMAIN BootUsers |-> Record(i, BootUsers[i])]
    BY BootAssumption, BoundsAssumption DEF Init
  <2>3. \A i \in DOMAIN users : users[i].id = i /\ users[i].id \in 1..i
    BY <2>2 DEF Record
  <2>4. \A t \in Threads : pc[t] = "recv"
    BY DEF Init
  <2>5. IdsBounded /\ IdsExact /\ Locked
    BY <2>3, <2>4 DEF IdsBounded, IdsExact, Locked, Bounded, Exact, Adding, Updating
  <2> QED BY <2>1, <2>5 DEF IdsInv
<1>2. IdsInv /\ [Next]_vars => IdsInv'
  <2> SUFFICES ASSUME IdsInv, [Next]_vars PROVE IdsInv'  OBVIOUS
  <2>1. TypeInv /\ IdsBounded
    BY DEF IdsInv
  <2>2. TypeInv' /\ IdsBounded'
    BY <2>1, NextTyped, BoundedStep
  <2>3. ASSUME Exclusive', trouble' = 0 PROVE Locked' /\ IdsExact'
    <3>1. Exclusive /\ trouble = 0
      BY <2>1, <2>3, FilesKept, LockSteps DEF Exclusive
    <3> QED BY <2>1, <2>3, <3>1, LockedStep, ExactStep DEF IdsInv
  <2> QED BY <2>2, <2>3 DEF IdsInv
<1> QED BY <1>1, <1>2, PTL DEF Spec

\* With any number of threads, processes, users and failures no id is larger
\* than its position, and where no two threads share a process and nothing
\* fails the id is the position: the lock that write_user() holds from its
\* scan to its write() makes up for the unlocked gap after
\* generate_new_userId().
THEOREM IdsAreCounted == Spec => []IdsArePositions
<1>1. IdsInv => IdsArePositions
  <2> SUFFICES ASSUME IdsInv, NEW i \in DOMAIN users
               PROVE  /\ users[i].id <= i
                      /\ Exclusive /\ trouble = 0 => users[i].id = i
    BY DEF IdsArePositions
  <2>1. i \in Nat /\ users[i].id \in 1..i
    BY Locals DEF IdsInv, IdsBounded
  <2> QED BY <2>1 DEF IdsInv, IdsExact
<1> QED BY <1>1, IdsInvariant, PTL

-----------------------------------------------------------------------------
(* The hash that is stored.  crypt() leaves its result in a buffer all     *)
(* threads of the process share; stale[t] records that another thread has  *)
(* called it between the call and the copy.                                *)

\* The buffer of crypt() is the thread's until the copy, then the record has it.
Hashed(t) ==
  Exclusive \/ ~stale[t] =>
    /\ pc[t] = "copy" => crypt_buf[procOf[t]] = req[t].password
    /\ pc[t] \in {"scan", "seek", "put", "write"} /\ req[t].password # None =>
         tmp[t].password = req[t].password

HashInv == \A t \in Threads : Hashed(t)

\* What a thread relies on does not become fresh again while it relies on it.
LEMMA StaleStays ==
  ASSUME TypeInv, [Next]_vars, NEW w \in Threads, ~stale'[w]
  PROVE  ~stale[w] \/ pc'[w] \in {"recv", "ascan", "unlock"}
<1>0. stale \in [Threads -> BOOLEAN] /\ pc \in [Threads -> Steps]
  BY DEF TypeInv, TypeOK
<1>1. ASSUME NEW t \in Threads, PutUser(t)
      PROVE  ~stale[w] \/ pc'[w] \in {"recv", "ascan", "unlock"}
  <2>1. stale' = [u \in Threads |-> IF u = t THEN FALSE
                                    ELSE stale[u] \/ pc[u] \in Relying]
    BY <1>1 DEF PutUser, Outdates
  <2>2. pc'[t] \in {"recv", "ascan"}
    BY <1>0, <1>1 DEF PutUser, AfterUser, Answer, Goto
  <2> QED BY <2>1, <2>2
<1>2. ASSUME NEW t \in Threads, WriteUser(t)
      PROVE  ~stale[w] \/ pc'[w] \in {"recv", "ascan", "unlock"}
  <2>1. stale' = [u \in Threads |-> IF u = t THEN FALSE
                                    ELSE stale[u] \/ pc[u] \in Relying]
    BY <1>2 DEF WriteUser, Outdates
  <2>2. pc'[t] = "unlock"
    BY <1>0, <1>2 DEF WriteUser, Goto
  <2> QED BY <2>1, <2>2
<1>3. ASSUME NEW t \in Threads, Hash(t)
      PROVE  ~stale[w] \/ pc'[w] \in {"recv", "ascan", "unlock"}
  BY <1>3 DEF Hash
<1>4. ASSUME NEW t \in Threads, Answer(t) \/ AfterUser(t), stale' = [stale EXCEPT ![t] = FALSE]
      PROVE  ~stale[w] \/ pc'[w] \in {"recv", "ascan", "unlock"}
  <2>1. pc'[t] \in {"recv", "ascan"}
    BY <1>0, <1>4 DEF AfterUser, Answer, Goto
  <2> QED BY <1>0, <1>4, <2>1
<1>5. ASSUME NEW p \in Procs, Exit(p)
      PROVE  ~stale[w] \/ pc'[w] \in {"recv", "ascan", "unlock"}
  BY <1>5, ExitLocals
<1> QED BY <1>1, <1>2, <1>3, <1>4, <1>5, GroundsKept

\* A turn other than a call of crypt() leaves the buffers alone.
LEMMA BufferKept ==
  ASSUME [Next]_vars, ~ \E t \in Threads : Hash(t), ~ \E p \in Procs : Exit(p)
  PROVE  crypt_buf' = crypt_buf
<1>1. ASSUME NEW t \in Threads, Receive(t) \/ HandlerStep(t) \/ SystemCallFails(t), ~Hash(t)
      PROVE  crypt_buf' = crypt_buf
  BY <1>1 DEF HandlerStep, Receive, SystemCallFails, ListUsers, CheckNew, NewId, CopyHash,
              ScanUsers, SeekUsers, PutUser, ScanAccounts, SeekAccounts, PutAccount, FindUser,
              LockUser, ReadUser, Recheck, WriteUser, UnlockUser
<1> QED BY <1>1 DEF Next, vars, Deposit

\* A turn that is no call of crypt() leads to a record with the hash.
LEMMA TurnHashed ==
  ASSUME TypeInv, NEW t \in Threads, Hashed(t), Exclusive \/ ~stale[t],
         NEW s, NEW r, NEW a, NEW u, Turn(t, s, r, a, u)
  PROVE  s \in {"scan", "seek", "put", "write"} /\ r.password # None =>
           u.password = r.password
<1>0. /\ tmp[t] \in UserRec /\ crypt_buf[procOf[t]] \in AllPasswords
      /\ Flowing(pc[t], req[t], at[t], Len(users), Len(accounts))
  BY Locals
<1>1. [tmp[t] EXCEPT !.password = crypt_buf[procOf[t]]].password = crypt_buf[procOf[t]]
  BY <1>0, FieldTyped
<1>2. ASSUME s \in {"scan", "seek", "put"} PROVE u.password = r.password \/ r.password = None
  <2>1. Adding(s, r)
    BY <1>2 DEF Adding
  <2>2. /\ r = req[t]
        /\ \/ /\ pc[t] = "copy" /\ u = [tmp[t] EXCEPT !.password = crypt_buf[procOf[t]]]
           \/ pc[t] \in {"scan", "seek"} /\ u = tmp[t]
    BY <1>2, <2>1, TurnAdds
  <2> QED BY <1>1, <2>2 DEF Hashed
<1>3. ASSUME s = "write" PROVE u.password = r.password \/ r.password = None
  <2>1. Updating(s, r)
    BY <1>3 DEF Updating
  <2>2. /\ r = req[t] /\ r \in Requests
        /\ \/ pc[t] = "copy" /\ u = [tmp[t] EXCEPT !.password = crypt_buf[procOf[t]]]
           \/ pc[t] = "recheck"
           \/ r.op = "CHANGE_ROLE"
    BY <1>3, <2>1, TurnUpdates
  <2>3. CASE pc[t] = "copy" /\ u = [tmp[t] EXCEPT !.password = crypt_buf[procOf[t]]]
    BY <1>1, <2>2, <2>3 DEF Hashed
  <2>4. CASE pc[t] = "recheck" \/ r.op = "CHANGE_ROLE"
    <3>1. r.op \in {"MODIFY_CUSTOMER", "MODIFY_USER", "CHANGE_ROLE"}
      BY <1>0, <2>2, <2>4 DEF Flowing
    <3> QED BY <2>2, <3>1, RequestTyped
  <2> QED BY <2>2, <2>3, <2>4
<1> QED BY <1>2, <1>3

\* Every step keeps it.
LEMMA HashStep ==
  ASSUME TypeInv, HashInv, [Next]_vars
  PROVE  HashInv'
<1>0. /\ procOf' = procOf /\ (Exclusive' <=> Exclusive)
      /\ crypt_buf \in [Procs -> AllPasswords] /\ \A t \in Threads : procOf[t] \in Procs
  BY FilesKept, Locals DEF Exclusive, TypeInv, TypeOK
<1>1. ASSUME NEW t \in Threads, Hash(t) PROVE HashInv'
  <2>1. /\ pc[t] = "hash" /\ UNCHANGED <<req, at, tmp>>
        /\ pc' = [pc EXCEPT ![t] = "copy"]
        /\ crypt_buf' = [crypt_buf EXCEPT ![procOf[t]] = req[t].password]
        /\ stale' = [u \in Threads |->
                 \/ stale[u]
                 \/ u # t /\ procOf[u] = procOf[t] /\ pc[u] = "copy"]
    BY <1>1 DEF Hash, Goto, locals
  <2>2. pc'[t] = "copy" /\ \A w \in Threads \ {t} : pc'[w] = pc[w]
    BY <2>1 DEF TypeInv, TypeOK
  <2>3. crypt_buf'[procOf[t]] = req[t].password
    BY <1>0, <2>1
  <2>4. ASSUME NEW w \in Threads, w # t PROVE Hashed(w)'
    <3> SUFFICES ASSUME Exclusive \/ ~stale'[w]
                 PROVE  /\ pc[w] = "copy" => crypt_buf'[procOf[w]] = req[w].password
                        /\ pc[w] \in {"scan", "seek", "put", "write"} /\ req[w].password # None
                             => tmp[w].password = req[w].password
      BY <1>0, <2>1, <2>2, <2>4 DEF Hashed
    <3>1. Exclusive \/ ~stale[w]
      BY <2>1
    <3>2. pc[w] = "copy" => procOf[w] # procOf[t]
      BY <2>1, <2>4 DEF Exclusive
    <3> QED BY <1>0, <2>1, <3>1, <3>2 DEF HashInv, Hashed
  <2>5. Hashed(t)'
    BY <1>0, <2>1, <2>2, <2>3 DEF Hashed
  <2> QED BY <2>4, <2>5 DEF HashInv
<1>2. ASSUME NEW p \in Procs, Exit(p) PROVE HashInv'
  <2>1. ASSUME NEW w \in Threads PROVE Hashed(w)'
    <3>1. CASE procOf[w] = p
      BY <1>2, <3>1, ExitLocals DEF Hashed
    <3>2. CASE procOf[w] # p
      BY <1>0, <1>2, <3>2, ExitLocals DEF Hashed, HashInv
    <3> QED BY <3>1, <3>2
  <2> QED BY <2>1 DEF HashInv
<1>3. CASE /\ ~ \E t \in Threads : Hash(t)
           /\ ~ \E p \in Procs : Exit(p)
  <2>1. crypt_buf' = crypt_buf
    BY <1>3, BufferKept
  <2>2. CASE UNCHANGED <<pc, req, at, tmp>>
    <3>1. ASSUME NEW w \in Threads PROVE Hashed(w)'
      BY <1>0, <2>1, <2>2, StaleStays DEF Hashed, HashInv
    <3> QED BY <3>1 DEF HashInv
  <2>3. ASSUME NEW t \in Threads, Turns(t), pc'[t] # "copy" PROVE HashInv'
    <3>1. PICK s, r, a, u : Moves(t, s, r, a, u) /\ Turn(t, s, r, a, u)
      BY <2>3 DEF Turns
    <3>2. /\ pc'[t] = s /\ req'[t] = r /\ tmp'[t] = u
          /\ \A w \in Threads \ {t} :
               pc'[w] = pc[w] /\ req'[w] = req[w] /\ tmp'[w] = tmp[w]
      BY <3>1, Moved, TypedShaped DEF TypeInv
    <3>3. ASSUME NEW w \in Threads, w # t PROVE Hashed(w)'
      BY <1>0, <2>1, <3>2, <3>3, StaleStays DEF Hashed, HashInv
    <3>4. Hashed(t)'
      <4> SUFFICES ASSUME Exclusive \/ ~stale'[t], s \in {"scan", "seek", "put", "write"},
                          r.password # None
                   PROVE  u.password = r.password
        BY <1>0, <2>3, <3>2 DEF Hashed
      <4>1. Exclusive \/ ~stale[t]
        BY <3>2, StaleStays
      <4> QED BY <3>1, <4>1, TurnHashed DEF HashInv
    <3> QED BY <3>3, <3>4 DEF HashInv
  <2>4. ASSUME NEW t \in Threads, Receive(t) \/ HandlerStep(t) \/ SystemCallFails(t)
        PROVE  pc'[t] # "copy"
    <3>1. pc \in [Threads -> Steps]
      BY DEF TypeInv, TypeOK
    <3>2. ASSUME NEW s, pc' = [pc EXCEPT ![t] = s], s # "copy" PROVE pc'[t] # "copy"
      BY <3>1, <3>2
    <3> QED BY <1>3, <2>4, <3>2 DEF HandlerStep, Receive, SystemCallFails, ListUsers, CheckNew,
             NewId, CopyHash, ScanUsers, SeekUsers, PutUser, ScanAccounts, SeekAccounts,
             PutAccount, FindUser, LockUser, ReadUser, Recheck, WriteUser, UnlockUser, Goto,
             Answer, AfterUser, Scan
  <2>5. ASSUME NEW t \in Threads, Receive(t) \/ HandlerStep(t) \/ SystemCallFails(t)
        PROVE  Turns(t)
    BY <2>5, TypedShaped, ReceiveTurns, AdditionTurns, UpdateTurns, FailTurns
       DEF HandlerStep, TypeInv
  <2>6. ASSUME NEW i \in DOMAIN accounts, NEW p \in Procs, Deposit(i, p)
        PROVE  UNCHANGED <<pc, req, at, tmp>>
    BY <2>6 DEF Deposit, locals
  <2> QED BY <1>3, <2>2, <2>3, <2>4, <2>5, <2>6 DEF Next, vars, locals
<1> QED BY <1>1, <1>2, <1>3

\* In every regime, whatever fails: the hash that write_user() or
\* atomic_update_user() is about to write is that of the password in the
\* request, unless threads share the process and another one called crypt()
\* in between.
THEOREM PasswordIsKept == Spec => []PasswordAsTyped
<1>1. Init => HashInv
  BY DEF Init, HashInv, Hashed
<1>2. TypeInv /\ HashInv /\ [Next]_vars => HashInv'
  BY HashStep
<1>3. Spec => []TypeInv
  BY TypeCorrect, PTL DEF TypeInv
<1>4. HashInv => PasswordAsTyped
  BY DEF HashInv, Hashed, PasswordAsTyped
<1> QED BY <1>1, <1>2, <1>3, <1>4, PTL DEF Spec

-----------------------------------------------------------------------------
(* Uniqueness.  As long as no thread has written on stale grounds and      *)
(* nothing has failed, what the threads that are not stale have seen of    *)
(* users.db is still true of it.                                           *)

\* A new user would be unique, and comes at the end.
FreshNew(s, r, a, u) ==
  /\ s = "newid" \/ Adding(s, r) =>
       \A i \in DOMAIN users : users[i].name # r.name /\ users[i].contact # r.contact
  /\ Adding(s, r) => u.name = r.name /\ u.contact = r.contact /\ u.id = Len(users) + 1
  /\ s = "put" => a = Len(users) + 1

\* A modified user is the one at his position, with an unused contact.
FreshUpdate(s, r, a, u) ==
  Updating(s, r) =>
    /\ u.id = a /\ u.name = users[a].name
    /\ \A i \in DOMAIN users : i # a => users[i].contact # u.contact

Fresh(t) ==
  ~stale[t] => /\ FreshNew(pc[t], req[t], at[t], tmp[t])
               /\ FreshUpdate(pc[t], req[t], at[t], tmp[t])

UniqueInv ==
  /\ Unique
  /\ \A i \in DOMAIN users : users[i].id = i
  /\ \A t \in Threads : Fresh(t)

\* The turn of a thread that is not stale, in an addition.
LEMMA TurnFreshNew ==
  ASSUME TypeInv, IdsBounded, UniqueInv, NEW t \in Threads, ~stale[t], trouble' = 0,
         NEW s, NEW r, NEW a, NEW u, Turn(t, s, r, a, u)
  PROVE  FreshNew(s, r, a, u)
<1>0. /\ Len(users) \in Nat /\ DOMAIN users = 1..Len(users) /\ tmp[t] \in UserRec
      /\ crypt_buf[procOf[t]] \in AllPasswords
      /\ FreshNew(pc[t], req[t], at[t], tmp[t])
      /\ \A i \in DOMAIN users : users[i].id = i
  BY Locals DEF UniqueInv, Fresh
<1>1. ASSUME s = "newid"
      PROVE  \A i \in DOMAIN users : users[i].name # r.name /\ users[i].contact # r.contact
  <2>1. r = req[t] /\ check_uniqueness(r.name, r.contact, 0)
    BY <1>1 DEF Turn, Ends, Starts, Passes, Fills, Aims
  <2>2. \A i \in DOMAIN users : users[i].id # 0
    BY <1>0
  <2> QED BY <2>1, <2>2 DEF check_uniqueness
<1>2. ASSUME Adding(s, r)
      PROVE  /\ \A i \in DOMAIN users : users[i].name # r.name /\ users[i].contact # r.contact
             /\ u.name = r.name /\ u.contact = r.contact /\ u.id = Len(users) + 1
  <2>0. r = req[t] /\ r \in Requests
    BY <1>2, TurnAdds
  <2>1. CASE pc[t] = "newid"
    <3>1. u = NewUser(Len(users) + 1, r)
      BY <1>2, <2>1, TurnAdds
    <3>2. u.name = r.name /\ u.contact = r.contact /\ u.id = Len(users) + 1
      BY <3>1 DEF NewUser
    <3> QED BY <1>0, <2>0, <2>1, <3>2 DEF FreshNew
  <2>2. CASE pc[t] # "newid"
    <3>1. /\ Adding(pc[t], req[t])
          /\ u = tmp[t] \/ u = [tmp[t] EXCEPT !.password = crypt_buf[procOf[t]]]
      BY <1>2, <2>2, TurnAdds DEF Adding
    <3>2. u.id = tmp[t].id /\ u.name = tmp[t].name /\ u.contact = tmp[t].contact
      <4>1. CASE u = tmp[t]
        BY <4>1
      <4>2. CASE u = [tmp[t] EXCEPT !.password = crypt_buf[procOf[t]]]
        BY <1>0, <4>2, FieldTyped
      <4> QED BY <3>1, <4>1, <4>2
    <3> QED BY <1>0, <2>0, <3>1, <3>2 DEF FreshNew
  <2> QED BY <2>1, <2>2
<1>3. ASSUME s = "put" PROVE a = Len(users) + 1
  <2>1. /\ u = tmp[t] /\ pc[t] \in {"scan", "seek"}
        /\ \/ a \in DOMAIN users /\ users[a].id = u.id
           \/ a = Len(users) + 1
    BY <1>3, TurnSeeks DEF FirstAt
  <2>2. u.id = Len(users) + 1
    BY <1>0, <2>1 DEF FreshNew, Adding
  <2> QED BY <1>0, <2>1, <2>2
<1> QED BY <1>1, <1>2, <1>3 DEF FreshNew

\* The turn of a thread that is not stale, in an update.
LEMMA TurnFreshUpdate ==
  ASSUME TypeInv, UniqueInv, NEW t \in Threads, ~stale[t], trouble' = 0,
         NEW s, NEW r, NEW a, NEW u, Turn(t, s, r, a, u)
  PROVE  FreshUpdate(s, r, a, u)
<1> SUFFICES ASSUME Updating(s, r)
             PROVE  /\ u.id = a /\ u.name = users[a].name
                    /\ \A i \in DOMAIN users : i # a => users[i].contact # u.contact
  BY DEF FreshUpdate
<1>0. /\ FreshUpdate(pc[t], req[t], at[t], tmp[t]) /\ Unique
      /\ \A i \in DOMAIN users : users[i].id = i
  BY DEF UniqueInv, Fresh
<1>1. r = req[t] /\ a = at[t] /\ a \in DOMAIN users
  BY TurnUpdates
<1>2. CASE /\ Updating(pc[t], req[t]) /\ u.id = tmp[t].id /\ u.name = tmp[t].name
           /\ u.contact = tmp[t].contact
  BY <1>0, <1>1, <1>2 DEF FreshUpdate
<1>3. CASE /\ Updating(pc[t], req[t]) /\ u.id = tmp[t].id /\ u.name = tmp[t].name
           /\ u.contact = r.contact /\ check_uniqueness(tmp[t].name, r.contact, tmp[t].id)
  <2>1. u.id = a /\ u.name = users[a].name /\ tmp[t].id = a
    BY <1>0, <1>1, <1>3 DEF FreshUpdate
  <2>2. \A i \in DOMAIN users : i # a => users[i].contact # r.contact
    BY <1>0, <1>3, <2>1 DEF check_uniqueness
  <2> QED BY <1>3, <2>1, <2>2
<1>4. CASE u.id = users[a].id /\ u.name = users[a].name /\ u.contact = users[a].contact
  BY <1>0, <1>1, <1>4 DEF Unique
<1> QED BY <1>2, <1>3, <1>4, UpdateFields

\* Steps that do not write users.db.
LEMMA UniqueReads ==
  ASSUME TypeInv, IdsBounded, UniqueInv, [Next]_vars, trouble' = 0, users' = users
  PROVE  UniqueInv'
<1>0. ASSUME NEW s, NEW r, NEW a, NEW u, NEW w \in Threads,
             pc'[w] = s, req'[w] = r, at'[w] = a, tmp'[w] = u,
             ~stale'[w] => FreshNew(s, r, a, u) /\ FreshUpdate(s, r, a, u)
      PROVE  Fresh(w)'
  BY <1>0 DEF Fresh, FreshNew, FreshUpdate
<1>1. Unique' /\ \A i \in DOMAIN users' : users'[i].id = i
  BY DEF UniqueInv, Unique
<1>2. ASSUME NEW s \in {"recv", "ascan", "unlock"}, NEW r, NEW a, NEW u
      PROVE  FreshNew(s, r, a, u) /\ FreshUpdate(s, r, a, u)
  BY DEF FreshNew, FreshUpdate, Adding, Updating
<1>3. ASSUME NEW w \in Threads,
             pc'[w] = pc[w] /\ req'[w] = req[w] /\ at'[w] = at[w] /\ tmp'[w] = tmp[w]
      PROVE  Fresh(w)'
  <2>1. ~stale'[w] => ~stale[w] \/ pc[w] \in {"recv", "ascan", "unlock"}
    BY <1>3, StaleStays
  <2>2. ~stale'[w] => /\ FreshNew(pc[w], req[w], at[w], tmp[w])
                      /\ FreshUpdate(pc[w], req[w], at[w], tmp[w])
    BY <1>2, <2>1 DEF UniqueInv, Fresh
  <2> QED BY <1>0, <1>3, <2>2
<1>4. ASSUME NEW t \in Threads, LockTurn(t) PROVE \A w \in Threads : Fresh(w)'
  <2>1. PICK s, r, a, u : Moves(t, s, r, a, u) /\ Turn(t, s, r, a, u)
    BY <1>4 DEF LockTurn, Turns
  <2>2. /\ pc'[t] = s /\ req'[t] = r /\ at'[t] = a /\ tmp'[t] = u
        /\ \A w \in Threads \ {t} :
             pc'[w] = pc[w] /\ req'[w] = req[w] /\ at'[w] = at[w] /\ tmp'[w] = tmp[w]
    BY <2>1, Moved, TypedShaped DEF TypeInv
  <2>3. ~stale'[t] => FreshNew(s, r, a, u) /\ FreshUpdate(s, r, a, u)
    <3>1. CASE ~stale[t]
      BY <2>1, <3>1, TurnFreshNew, TurnFreshUpdate
    <3>2. CASE s \in {"recv", "ascan", "unlock"}
      BY <1>2, <3>2
    <3> QED BY <2>2, <3>1, <3>2, StaleStays
  <2>4. Fresh(t)'
    BY <1>0, <2>2, <2>3
  <2> QED BY <1>3, <2>2, <2>4
<1>5. CASE UNCHANGED <<pc, req, at, tmp>>
  <2>1. \A w \in Threads : Fresh(w)'
    BY <1>3, <1>5
  <2> QED BY <1>1, <2>1 DEF UniqueInv
<1> QED BY <1>1, <1>4, <1>5, LockSteps DEF UniqueInv

\* A write to users.db outdates what all others have seen.
LEMMA UniqueWrites ==
  ASSUME TypeInv, UniqueInv, [Next]_vars, ~raced', NEW t \in Threads,
         PutUser(t) \/ WriteUser(t)
  PROVE  UniqueInv'
<1>0. stale \in [Threads -> BOOLEAN] /\ pc \in [Threads -> Steps] /\ ~stale[t]
  BY DEF TypeInv, TypeOK, PutUser, WriteUser, Outdates
<1>1. stale' = [u \in Threads |-> IF u = t THEN FALSE
                                  ELSE stale[u] \/ pc[u] \in Relying]
  BY DEF PutUser, WriteUser, Outdates
<1>2. pc'[t] \in {"recv", "ascan", "unlock"} /\ \A w \in Threads \ {t} : pc'[w] = pc[w]
  BY <1>0 DEF PutUser, WriteUser, AfterUser, Answer, Goto
<1>3. ASSUME NEW w \in Threads PROVE Fresh(w)'
  <2>1. ~stale'[w] => pc'[w] \notin Relying
    BY <1>1, <1>2 DEF Relying
  <2>2. pc'[w] \notin Relying => ~Adding(pc'[w], req'[w]) /\ ~Updating(pc'[w], req'[w])
                                 /\ pc'[w] \notin {"newid", "put"}
    BY DEF Relying, Adding, Updating
  <2> QED BY <2>1, <2>2 DEF Fresh, FreshNew, FreshUpdate
<1>4. CASE PutUser(t)
  <2>1. /\ \A i \in DOMAIN users : users[i].name # req[t].name /\ users[i].contact # req[t].contact
        /\ tmp[t].name = req[t].name /\ tmp[t].contact = req[t].contact
        /\ tmp[t].id = Len(users) + 1 /\ at[t] = Len(users) + 1
    BY <1>0, <1>4, PutUserDoes DEF UniqueInv, Fresh, FreshNew, Adding
  <2>2. /\ DOMAIN users' = DOMAIN users \cup {at[t]} /\ users'[at[t]] = tmp[t]
        /\ \A i \in DOMAIN users : i # at[t] => users'[i] = users[i]
    BY <1>4, PutUserDoes
  <2>3. at[t] \notin DOMAIN users
    <3>1. Len(users) \in Nat /\ DOMAIN users = 1..Len(users)
      BY Locals
    <3> QED BY <2>1, <3>1
  <2>4. \A i \in DOMAIN users' : users'[i].id = i
    <3>1. tmp[t].id = at[t]
      BY <2>1
    <3> QED BY <2>2, <2>3, <3>1 DEF UniqueInv
  <2>5. Unique'
    BY <2>1, <2>2, <2>3 DEF UniqueInv, Unique
  <2> QED BY <1>3, <2>4, <2>5 DEF UniqueInv
<1>5. CASE WriteUser(t)
  <2>1. /\ tmp[t].id = at[t] /\ tmp[t].name = users[at[t]].name
        /\ \A i \in DOMAIN users : i # at[t] => users[i].contact # tmp[t].contact
    BY <1>0, <1>5, WriteUserDoes DEF UniqueInv, Fresh, FreshUpdate, Updating
  <2>2. /\ at[t] \in DOMAIN users /\ DOMAIN users' = DOMAIN users /\ users'[at[t]] = tmp[t]
        /\ \A i \in DOMAIN users : i # at[t] => users'[i] = users[i]
    BY <1>5, WriteUserDoes
  <2>3. \A i \in DOMAIN users' : users'[i].id = i
    BY <2>1, <2>2 DEF UniqueInv
  <2>4. Unique'
    BY <2>1, <2>2 DEF UniqueInv, Unique
  <2> QED BY <1>3, <2>3, <2>4 DEF UniqueInv
<1> QED BY <1>4, <1>5

\* Once raced, always raced.
LEMMA RacedStays ==
  ASSUME TypeInv, [Next]_vars, raced
  PROVE  raced'
<1>1. ASSUME NEW t \in Threads, PutUser(t) \/ WriteUser(t) PROVE raced'
  BY <1>1 DEF PutUser, WriteUser, Outdates
<1>2. ASSUME NEW t \in Threads, Hash(t) PROVE raced' = raced
  BY <1>2 DEF Hash
<1>3. ASSUME NEW p \in Procs, Exit(p) PROVE raced' = raced
  BY <1>3 DEF Exit
<1> QED BY <1>1, <1>2, <1>3, GroundsKept

\* The invariant of the registry, in every regime.
LEMMA UniqueInvariant == Spec => [](~raced /\ trouble = 0 => UniqueInv)
<1> DEFINE Inv == ~raced /\ trouble = 0 => UniqueInv
<1>1. Init => Inv
  <2> SUFFICES ASSUME Init PROVE UniqueInv  OBVIOUS
  <2>1. users = [i \in DOMAIN BootUsers |-> Record(i, BootUsers[i])]
    BY DEF Init
  <2>2. \A t \in Threads : Fresh(t)
    BY DEF Init, Fresh, FreshNew, FreshUpdate, Adding, Updating
  <2>3. Unique /\ \A i \in DOMAIN users : users[i].id = i
    BY <2>1, BootAssumption DEF Unique, Record
  <2> QED BY <2>2, <2>3 DEF UniqueInv
<1>2. IdsInv /\ Inv /\ [Next]_vars => Inv'
  <2> SUFFICES ASSUME IdsInv, Inv, [Next]_vars, ~raced', trouble' = 0 PROVE UniqueInv'
    OBVIOUS
  <2>1. TypeInv /\ IdsBounded
    BY DEF IdsInv
  <2>2. ~raced /\ trouble = 0
    BY <2>1, RacedStays, LockSteps
  <2>3. UniqueInv
    BY <2>2
  <2> QED BY <2>1, <2>3, UniqueReads, UniqueWrites, FilesKept
<1> QED BY <1>1, <1>2, IdsInvariant, PTL DEF Spec

\* In every regime: check_uniqueness() keeps names and contacts unique as long
\* as no thread writes after another has written since its own check.  The
\* locks play no part in it.
THEOREM UniqueIfUnraced == Spec => []UniqueUnlessRaced
<1>1. (~raced /\ trouble = 0 => UniqueInv) => UniqueUnlessRaced
  BY DEF UniqueInv, UniqueUnlessRaced
<1> QED BY <1>1, UniqueInvariant, PTL

-----------------------------------------------------------------------------
(* Accounts.  write_account() comes after write_user() in a section of its *)
(* own: a customer without an account has a thread on its way to open one, *)
(* also while his record is being modified by another.                     *)

\* The thread has added a customer and not opened the account.
Opening == {"ascan", "aseek", "aput"}

\* The user with this id has an account, or is about to get one.
Provided(id) ==
  \/ HasAccount(id)
  \/ \E t \in Threads : pc[t] \in Opening /\ tmp[t].id = id

\* The same after the step.
ProvidedNext(id) ==
  \/ \E k \in DOMAIN accounts' : accounts'[k].id = id
  \/ \E t \in Threads : pc'[t] \in Opening /\ tmp'[t].id = id

\* The place write_account() has found is that of the account, or the end of a
\* file that has none.
Placed(s, a, u) ==
  /\ s = "aseek" => \A k \in DOMAIN accounts : accounts[k].id # u.id
  /\ s = "aput" => \/ a \in DOMAIN accounts /\ accounts[a].id = u.id
                   \/ /\ a = Len(accounts) + 1
                      /\ \A k \in DOMAIN accounts : accounts[k].id # u.id

\* Nothing that concerns owners happens to accounts.db.
SameOwners ==
  /\ DOMAIN accounts' = DOMAIN accounts /\ Len(accounts') = Len(accounts)
  /\ \A k \in DOMAIN accounts : accounts'[k].id = accounts[k].id

DistinctOwners ==
  \A k, l \in DOMAIN accounts : accounts[k].id = accounts[l].id => k = l

AllPlaced == \A t \in Threads : Placed(pc[t], at[t], tmp[t])

AccountsInv ==
  /\ DistinctOwners /\ AllPlaced
  /\ \A i \in DOMAIN users : users[i].role = "customer" => Provided(users[i].id)
  /\ \A t \in Threads :
       /\ Updating(pc[t], req[t]) /\ tmp[t].role = "customer" => Provided(tmp[t].id)
       /\ Adding(pc[t], req[t]) => tmp[t].role = req[t].role

\* Owners change when an account is opened only.
LEMMA OwnersKept ==
  ASSUME TypeInv, [Next]_vars
  PROVE  SameOwners \/ \E t \in Threads : PutAccount(t)
<1>1. CASE accounts' = accounts
  BY <1>1 DEF SameOwners
<1>2. CASE \E i \in DOMAIN accounts, p \in Procs : Deposit(i, p)
  BY <1>2, DepositDoes DEF SameOwners
<1> QED BY <1>1, <1>2, FilesKept

\* Without trouble a thread that opens an account goes on until it is open.
LEMMA OpeningStays ==
  ASSUME TypeInv, [Next]_vars, trouble' = 0, NEW w \in Threads, pc[w] \in Opening
  PROVE  PutAccount(w) \/ (pc'[w] \in Opening /\ tmp'[w] = tmp[w])
<1>0. /\ trouble \in Nat /\ Shaped /\ pc \in [Threads -> Steps] /\ tmp \in [Threads -> UserRec]
  BY TypedShaped DEF TypeInv, TypeOK
<1>1. \A t \in Threads : ~SystemCallFails(t)
  BY <1>0 DEF SystemCallFails, Trouble
<1>2. \A p \in Procs : ~Exit(p)
  BY ExitLocals
<1>3. ASSUME NEW t \in Threads, Receive(t) \/ HandlerStep(t), t # w
      PROVE  pc'[w] = pc[w] /\ tmp'[w] = tmp[w]
  <2>1. Turns(t)
    BY <1>0, <1>3, ReceiveTurns, AdditionTurns, UpdateTurns DEF HandlerStep
  <2>2. PICK s, r, a, u : Moves(t, s, r, a, u)
    BY <2>1 DEF Turns
  <2> QED BY <1>0, <1>3, <2>2, Moved
<1>4. CASE Receive(w) \/ HandlerStep(w)
  <2>1. ScanAccounts(w) \/ SeekAccounts(w) \/ PutAccount(w)
    BY <1>4 DEF Opening, Receive, HandlerStep, ListUsers, CheckNew, NewId, Hash, CopyHash,
                ScanUsers, SeekUsers, PutUser, FindUser, LockUser, ReadUser, Recheck, WriteUser,
                UnlockUser
  <2>2. CASE ScanAccounts(w) \/ SeekAccounts(w)
    BY <1>0, <2>2 DEF ScanAccounts, SeekAccounts, Scan, Goto, Opening
  <2> QED BY <2>1, <2>2
<1>5. CASE UNCHANGED vars \/ \E i \in DOMAIN accounts, p \in Procs : Deposit(i, p)
  BY <1>5 DEF vars, locals, Deposit
<1> QED BY <1>1, <1>2, <1>3, <1>4, <1>5 DEF Next

\* Who is provided for stays so.
LEMMA ProvidedStays ==
  ASSUME TypeInv, [Next]_vars, trouble' = 0, AllPlaced, NEW id, Provided(id)
  PROVE  ProvidedNext(id)
<1>1. ASSUME NEW k \in DOMAIN accounts, accounts[k].id = id
      PROVE  \E j \in DOMAIN accounts' : accounts'[j].id = id
  <2>1. CASE SameOwners
    BY <1>1, <2>1 DEF SameOwners
  <2>2. ASSUME NEW t \in Threads, PutAccount(t)
        PROVE  \E j \in DOMAIN accounts' : accounts'[j].id = id
    <3>1. /\ pc[t] = "aput" /\ DOMAIN accounts' = DOMAIN accounts \cup {at[t]}
          /\ accounts'[at[t]].id = tmp[t].id
          /\ \A j \in DOMAIN accounts : j # at[t] => accounts'[j] = accounts[j]
      BY <2>2, PutAccountDoes
    <3>2. CASE k # at[t]
      BY <1>1, <3>1, <3>2
    <3>3. CASE k = at[t]
      <4>0. Len(accounts) \in Nat /\ DOMAIN accounts = 1..Len(accounts)
        BY Locals
      <4>1. accounts[k].id = tmp[t].id
        BY <1>1, <3>1, <3>3, <4>0 DEF AllPlaced, Placed
      <4> QED BY <1>1, <3>1, <3>3, <4>1
    <3> QED BY <3>2, <3>3
  <2> QED BY <2>1, <2>2, OwnersKept
<1>2. ASSUME NEW t \in Threads, pc[t] \in Opening, tmp[t].id = id PROVE ProvidedNext(id)
  <2>1. CASE PutAccount(t)
    <3>1. at[t] \in DOMAIN accounts' /\ accounts'[at[t]].id = tmp[t].id
      BY <2>1, PutAccountDoes
    <3> QED BY <1>2, <3>1 DEF ProvidedNext
  <2>2. CASE pc'[t] \in Opening /\ tmp'[t] = tmp[t]
    BY <1>2, <2>2 DEF ProvidedNext
  <2> QED BY <1>2, <2>1, <2>2, OpeningStays
<1> QED BY <1>1, <1>2 DEF Provided, HasAccount, ProvidedNext

\* The turn of a thread finds a place.
LEMMA TurnPlaced ==
  ASSUME AllPlaced, NEW t \in Threads, NEW s, NEW r, NEW a, NEW u, Turn(t, s, r, a, u)
  PROVE  Placed(s, a, u)
<1>1. ASSUME s = "aput"
      PROVE  \/ a \in DOMAIN accounts /\ accounts[a].id = u.id
             \/ /\ a = Len(accounts) + 1
                /\ \A k \in DOMAIN accounts : accounts[k].id # u.id
  <2>1. /\ u = tmp[t]
        /\ \/ a \in DOMAIN accounts /\ accounts[a].id = u.id
           \/ pc[t] = "aseek" /\ a = Len(accounts) + 1
    BY <1>1, TurnSeeks DEF FirstAt
  <2> QED BY <2>1 DEF AllPlaced, Placed
<1>2. s = "aseek" => \A k \in DOMAIN accounts : accounts[k].id # u.id
  BY TurnSeeks
<1> QED BY <1>1, <1>2 DEF Placed

\* No two threads have their place in accounts.db, nor do they look for its
\* end while another is about to write.
LEMMA OneOpener ==
  ASSUME TypeInv, Exclusive, Locked, NEW t \in Threads, NEW w \in Threads, t # w,
         pc[t] = "aput"
  PROVE  pc[w] \notin {"aseek", "aput"}
<1>1. at[t] \in 1..(Len(accounts) + 1) /\ at[t] \in 0..MaxUsers /\ Len(accounts) \in Nat
  BY Locals DEF Flowing
<1>2. at[t] \in Positions
  BY <1>1, BoundsAssumption DEF Positions
<1> QED BY <1>2 DEF Locked, HoldsAll, Exclusive

\* Every step without trouble keeps owners distinct and places right.
LEMMA PlacedStep ==
  ASSUME TypeInv, Exclusive, Locked, DistinctOwners, AllPlaced, [Next]_vars, trouble' = 0
  PROVE  DistinctOwners' /\ AllPlaced'
<1>1. CASE SameOwners
  <2>1. DistinctOwners'
    BY <1>1 DEF DistinctOwners, SameOwners
  <2>2. ASSUME NEW s, NEW a, NEW u, Placed(s, a, u), NEW w \in Threads,
               pc'[w] = s, at'[w] = a, tmp'[w] = u
        PROVE  Placed(pc[w], at[w], tmp[w])'
    BY <1>1, <2>2 DEF Placed, SameOwners
  <2>3. ASSUME NEW t \in Threads, LockTurn(t) PROVE AllPlaced'
    <3>1. PICK s, r, a, u : Moves(t, s, r, a, u) /\ Turn(t, s, r, a, u)
      BY <2>3 DEF LockTurn, Turns
    <3>2. Placed(s, a, u)
      BY <3>1, TurnPlaced
    <3>3. /\ pc'[t] = s /\ at'[t] = a /\ tmp'[t] = u
          /\ \A w \in Threads \ {t} : pc'[w] = pc[w] /\ at'[w] = at[w] /\ tmp'[w] = tmp[w]
      BY <3>1, Moved, TypedShaped DEF TypeInv
    <3>4. ASSUME NEW w \in Threads PROVE Placed(pc[w], at[w], tmp[w])'
      BY <2>2, <3>2, <3>3 DEF AllPlaced
    <3> QED BY <3>4 DEF AllPlaced
  <2>4. CASE UNCHANGED <<pc, req, at, tmp>>
    BY <1>1, <2>1, <2>4 DEF AllPlaced, Placed, SameOwners
  <2> QED BY <2>1, <2>3, <2>4, LockSteps
<1>2. ASSUME NEW t \in Threads, PutAccount(t) PROVE DistinctOwners' /\ AllPlaced'
  <2>1. /\ pc[t] = "aput" /\ DOMAIN accounts' = DOMAIN accounts \cup {at[t]}
        /\ accounts'[at[t]].id = tmp[t].id
        /\ \A j \in DOMAIN accounts : j # at[t] => accounts'[j] = accounts[j]
        /\ Moves(t, "recv", NoRequest, 0, NoUser)
    BY <1>2, PutAccountDoes
  <2>2. \/ at[t] \in DOMAIN accounts /\ accounts[at[t]].id = tmp[t].id
        \/ \A k \in DOMAIN accounts : accounts[k].id # tmp[t].id
    BY <2>1 DEF AllPlaced, Placed
  <2>3. DistinctOwners'
    BY <2>1, <2>2 DEF DistinctOwners
  <2>4. pc'[t] = "recv" /\ \A w \in Threads \ {t} : pc'[w] = pc[w]
    BY <2>1, Moved, TypedShaped DEF TypeInv
  <2>5. ASSUME NEW w \in Threads PROVE pc'[w] \notin {"aseek", "aput"}
    BY <2>1, <2>4, OneOpener
  <2> QED BY <2>3, <2>5 DEF AllPlaced, Placed
<1> QED BY <1>1, <1>2, OwnersKept

\* The role of the record a thread makes is the one asked for, and a customer
\* whose record is written back is provided for.
LEMMA TurnProvided ==
  ASSUME TypeInv, AccountsInv, NEW t \in Threads, NEW s, NEW r, NEW a, NEW u,
         Turn(t, s, r, a, u)
  PROVE  /\ Updating(s, r) /\ u.role = "customer" => Provided(u.id)
         /\ Adding(s, r) => u.role = r.role
<1>0. tmp[t] \in UserRec /\ crypt_buf[procOf[t]] \in AllPasswords
  BY Locals
<1>1. ASSUME Updating(s, r), u.role = "customer" PROVE Provided(u.id)
  <2>1. a \in DOMAIN users
    BY <1>1, TurnUpdates
  <2>2. CASE Updating(pc[t], req[t]) /\ u.id = tmp[t].id /\ u.role = tmp[t].role
    BY <1>1, <2>2 DEF AccountsInv
  <2>3. CASE /\ u.id = users[a].id
             /\ u.role # users[a].role => {u.role, users[a].role} \subseteq {"employee", "manager"}
    BY <1>1, <2>1, <2>3 DEF AccountsInv
  <2> QED BY <1>1, <2>2, <2>3, UpdateFields
<1>2. ASSUME Adding(s, r) PROVE u.role = r.role
  <2>1. r = req[t]
    BY <1>2, TurnAdds
  <2>2. CASE pc[t] = "newid"
    <3>1. u = NewUser(Len(users) + 1, r) \/ u = NewUser(1, r)
      BY <1>2, <2>2, TurnAdds
    <3> QED BY <3>1 DEF NewUser
  <2>3. CASE pc[t] # "newid"
    <3>1. /\ Adding(pc[t], req[t])
          /\ u = tmp[t] \/ u = [tmp[t] EXCEPT !.password = crypt_buf[procOf[t]]]
      BY <1>2, <2>3, TurnAdds DEF Adding
    <3>2. [tmp[t] EXCEPT !.password = crypt_buf[procOf[t]]].role = tmp[t].role
      BY <1>0, FieldTyped
    <3>3. u.role = tmp[t].role
      BY <3>1, <3>2
    <3> QED BY <2>1, <3>1, <3>3 DEF AccountsInv
  <2> QED BY <2>2, <2>3
<1> QED BY <1>1, <1>2

\* Where the locks exclude, every step without trouble keeps customers
\* provided for.
LEMMA AccountsStep ==
  ASSUME TypeInv, Exclusive, Locked, AccountsInv, [Next]_vars, trouble' = 0
  PROVE  AccountsInv'
<1>0. AllPlaced /\ DistinctOwners' /\ AllPlaced' /\ \A id : Provided(id) => ProvidedNext(id)
  BY PlacedStep, ProvidedStays DEF AccountsInv
<1>1. /\ \A w \in Threads : /\ Updating(pc'[w], req'[w]) /\ tmp'[w].role = "customer"
                                 => ProvidedNext(tmp'[w].id)
                            /\ Adding(pc'[w], req'[w]) => tmp'[w].role = req'[w].role
  <2>1. ASSUME NEW t \in Threads, LockTurn(t), NEW w \in Threads
        PROVE  /\ Updating(pc'[w], req'[w]) /\ tmp'[w].role = "customer" => Provided(tmp'[w].id)
               /\ Adding(pc'[w], req'[w]) => tmp'[w].role = req'[w].role
    <3>1. PICK s, r, a, u : Moves(t, s, r, a, u) /\ Turn(t, s, r, a, u)
      BY <2>1 DEF LockTurn, Turns
    <3>2. /\ Updating(s, r) /\ u.role = "customer" => Provided(u.id)
          /\ Adding(s, r) => u.role = r.role
      BY <3>1, TurnProvided
    <3> QED BY <3>1, <3>2, Moved, TypedShaped DEF TypeInv, AccountsInv
  <2>2. ASSUME UNCHANGED <<pc, req, at, tmp>>, NEW w \in Threads
        PROVE  /\ Updating(pc'[w], req'[w]) /\ tmp'[w].role = "customer" => Provided(tmp'[w].id)
               /\ Adding(pc'[w], req'[w]) => tmp'[w].role = req'[w].role
    BY <2>2 DEF AccountsInv
  <2> QED BY <1>0, <2>1, <2>2, LockSteps
<1>2. ASSUME NEW i \in DOMAIN users', users'[i].role = "customer"
      PROVE  ProvidedNext(users'[i].id)
  <2>1. CASE users' = users
    <3>1. Provided(users[i].id)
      BY <1>2, <2>1 DEF AccountsInv
    <3> QED BY <1>0, <2>1, <3>1
  <2>2. ASSUME NEW t \in Threads, WriteUser(t) PROVE ProvidedNext(users'[i].id)
    <3>1. /\ DOMAIN users' = DOMAIN users /\ users'[at[t]] = tmp[t] /\ pc[t] = "write"
          /\ (i # at[t] => users'[i] = users[i])
      BY <1>2, <2>2, WriteUserDoes
    <3>2. CASE i # at[t]
      <4>1. Provided(users[i].id) /\ users'[i].id = users[i].id
        BY <1>2, <3>1, <3>2 DEF AccountsInv
      <4> QED BY <1>0, <4>1
    <3>3. CASE i = at[t]
      <4>1. Provided(tmp[t].id) /\ users'[i].id = tmp[t].id
        BY <1>2, <3>1, <3>3 DEF AccountsInv, Updating
      <4> QED BY <1>0, <4>1
    <3> QED BY <3>2, <3>3
  <2>3. ASSUME NEW t \in Threads, PutUser(t) PROVE ProvidedNext(users'[i].id)
    <3>1. /\ DOMAIN users' = DOMAIN users \cup {at[t]} /\ users'[at[t]] = tmp[t]
          /\ pc[t] = "put" /\ \A j \in DOMAIN users : j # at[t] => users'[j] = users[j]
      BY <2>3, PutUserDoes
    <3>2. CASE i # at[t]
      <4>1. Provided(users[i].id) /\ users'[i].id = users[i].id
        BY <1>2, <3>1, <3>2 DEF AccountsInv
      <4> QED BY <1>0, <4>1
    <3>3. CASE i = at[t]
      <4>1. users'[i].id = tmp[t].id /\ tmp[t].role = "customer" /\ req[t].role = "customer"
        BY <1>2, <3>1, <3>3 DEF AccountsInv, Adding
      <4>2. req[t].op \in Additions /\ req[t] \in Requests \cup {NoRequest}
        BY <3>1, Locals DEF Flowing
      <4>3. req[t].op # "ADD_EMPLOYEE"
        BY <4>1, <4>2, Sent, RequestTyped
      <4>4. pc' = [pc EXCEPT ![t] = "ascan"] /\ tmp' = tmp
        BY <2>3, <4>3 DEF PutUser, AfterUser, Goto
      <4>5. pc'[t] \in Opening
        BY <4>4 DEF Opening, TypeInv, TypeOK
      <4>6. users'[i].id = tmp'[t].id
        BY <4>1, <4>4
      <4> QED BY <4>5, <4>6 DEF ProvidedNext
    <3> QED BY <3>2, <3>3
  <2> QED BY <2>1, <2>2, <2>3, FilesKept
<1> QED BY <1>0, <1>1, <1>2 DEF AccountsInv, Provided, HasAccount, ProvidedNext

\* What bootstrap.c leaves in accounts.db.
LEMMA BootProvides ==
  ASSUME Init
  PROVE  /\ DistinctOwners
         /\ \A k \in DOMAIN accounts : accounts[k].id \in DOMAIN users
         /\ \A i \in DOMAIN users : users[i].role = "customer" => HasAccount(i)
<1>1. /\ accounts \in BootAccounts
      /\ users = [i \in DOMAIN BootUsers |-> Record(i, BootUsers[i])]
  BY DEF Init
<1>2. PICK n \in 0..Len(BootUsers) :
           accounts \in [1..n -> [id : DOMAIN BootUsers, balance : {0}]]
  BY <1>1 DEF BootAccounts
<1>3. /\ \A k, l \in DOMAIN accounts : k < l => accounts[k].id < accounts[l].id
      /\ {accounts[k].id : k \in DOMAIN accounts}
           = {i \in DOMAIN BootUsers : BootUsers[i].role = "customer"}
  BY <1>1 DEF BootAccounts
<1>4. /\ DOMAIN accounts \subseteq Nat
      /\ \A k \in DOMAIN accounts : accounts[k].id \in Nat /\ accounts[k].id \in DOMAIN BootUsers
  BY <1>2, BootAssumption, BoundsAssumption
<1>5. DistinctOwners
  BY <1>3, <1>4 DEF DistinctOwners
<1>6. \A i \in DOMAIN users : users[i].role = BootUsers[i].role /\ i \in DOMAIN BootUsers
  BY <1>1 DEF Record
<1>7. \A i \in DOMAIN users : users[i].role = "customer" => HasAccount(i)
  BY <1>3, <1>6 DEF HasAccount
<1> QED BY <1>1, <1>4, <1>5, <1>7

\* Where no two threads share a process and nothing fails, for any number of
\* threads and users: every customer has an account or a thread that is about
\* to open it, and no two accounts have one owner, although write_user() and
\* write_account() are two sections and an id may be given out twice.
THEOREM AccountForEach == Spec => []OneAccountEach
<1> DEFINE Inv == Exclusive /\ trouble = 0 => AccountsInv
<1>1. Init => Inv
  <2> SUFFICES ASSUME Init PROVE AccountsInv  OBVIOUS
  <2>1. \A t \in Threads : pc[t] = "recv"
    BY DEF Init
  <2>2. \A i \in DOMAIN users : users[i].id = i
    BY DEF Init, Record
  <2>3. AllPlaced
    BY <2>1 DEF AllPlaced, Placed
  <2> QED BY <2>1, <2>2, <2>3, BootProvides DEF AccountsInv, Provided, Updating, Adding
<1>2. IdsInv /\ Inv /\ [Next]_vars => Inv'
  <2> SUFFICES ASSUME IdsInv, Inv, [Next]_vars, Exclusive', trouble' = 0 PROVE AccountsInv'
    OBVIOUS
  <2>1. TypeInv
    BY DEF IdsInv
  <2>2. Exclusive /\ trouble = 0
    BY <2>1, FilesKept, LockSteps DEF Exclusive
  <2>3. Locked
    BY <2>2 DEF IdsInv
  <2> QED BY <2>1, <2>2, <2>3, AccountsStep
<1>3. Inv => OneAccountEach
  BY DEF AccountsInv, DistinctOwners, Provided, Opening, OneAccountEach, DedicatedAccount
<1> QED BY <1>1, <1>2, <1>3, IdsInvariant, PTL DEF Spec

-----------------------------------------------------------------------------
(* Balances.  Without a race every new customer's id is new, so that       *)
(* write_account() finds no account to replace.                            *)

NewOwner(t) ==
  pc[t] \in Opening =>
    /\ tmp[t].id <= Len(users)
    /\ \A k \in DOMAIN accounts : accounts[k].id # tmp[t].id
    /\ \A w \in Threads : w # t /\ pc[w] \in Opening => tmp[w].id # tmp[t].id
    /\ pc[t] = "aput" => at[t] = Len(accounts) + 1

OwnersInv ==
  /\ \A k \in DOMAIN accounts : accounts[k].id <= Len(users)
  /\ \A t \in Threads : NewOwner(t)

\* Where a turn leads to when it leads into opening an account.
LEMMA TurnOpens ==
  ASSUME TypeInv, OwnersInv, NEW t \in Threads, NEW s, NEW r, NEW a, NEW u,
         Turn(t, s, r, a, u), s \in Opening, pc[t] # "put"
  PROVE  /\ pc[t] \in Opening /\ u = tmp[t]
         /\ s = "aput" => a = Len(accounts) + 1
<1>1. pc[t] \in {"ascan", "aseek"} /\ u = tmp[t]
  BY TurnSeeks DEF Opening
<1>2. ASSUME s = "aput" PROVE a = Len(accounts) + 1
  <2>1. \/ a \in DOMAIN accounts /\ accounts[a].id = tmp[t].id
        \/ a = Len(accounts) + 1
    BY <1>1, <1>2, TurnSeeks DEF FirstAt
  <2> QED BY <1>1, <2>1 DEF OwnersInv, NewOwner, Opening
<1> QED BY <1>1, <1>2 DEF Opening

\* Every step without race or trouble keeps the new owners new.
LEMMA OwnersStep ==
  ASSUME TypeInv, Exclusive, Locked, UniqueInv, OwnersInv, [Next]_vars, ~raced', trouble' = 0
  PROVE  OwnersInv'
<1>0. /\ Len(users) \in Nat /\ Len(users') \in Nat /\ Len(users) <= Len(users')
      /\ \A k \in DOMAIN accounts : accounts[k].id \in Nat
      /\ \A t \in Threads : tmp[t].id \in Nat
  BY FilesTyped, Locals
<1>a. \A n \in Nat : n <= Len(users) => n <= Len(users')
  BY <1>0
<1>1. ASSUME NEW t \in Threads, PutAccount(t) PROVE OwnersInv'
  <2>1. /\ pc[t] = "aput" /\ DOMAIN accounts' = DOMAIN accounts \cup {at[t]}
        /\ accounts'[at[t]].id = tmp[t].id /\ users' = users
        /\ \A j \in DOMAIN accounts : j # at[t] => accounts'[j] = accounts[j]
        /\ Moves(t, "recv", NoRequest, 0, NoUser)
    BY <1>1, PutAccountDoes
  <2>2. /\ pc'[t] = "recv"
        /\ \A w \in Threads \ {t} : pc'[w] = pc[w] /\ at'[w] = at[w] /\ tmp'[w] = tmp[w]
    BY <2>1, Moved, TypedShaped DEF TypeInv
  <2>3. tmp[t].id <= Len(users)
    BY <2>1 DEF OwnersInv, NewOwner, Opening
  <2>4. \A k \in DOMAIN accounts' : accounts'[k].id <= Len(users')
    BY <2>1, <2>3 DEF OwnersInv
  <2>5. ASSUME NEW w \in Threads PROVE NewOwner(w)'
    <3> SUFFICES ASSUME pc'[w] \in Opening PROVE NewOwner(w)'
      BY DEF NewOwner
    <3>1. w # t /\ pc[w] \in Opening
      BY <2>2 DEF Opening
    <3>2. pc[w] # "aput" /\ tmp[w].id # tmp[t].id
      BY <2>1, <3>1, OneOpener DEF OwnersInv, NewOwner, Opening
    <3>3. tmp'[w].id <= Len(users') /\ pc'[w] # "aput"
      BY <2>1, <2>2, <3>1, <3>2 DEF OwnersInv, NewOwner
    <3>4. \A k \in DOMAIN accounts' : accounts'[k].id # tmp'[w].id
      BY <2>1, <2>2, <3>1, <3>2 DEF OwnersInv, NewOwner
    <3>5. \A v \in Threads : v # w /\ pc'[v] \in Opening => tmp'[v].id # tmp'[w].id
      BY <2>2, <3>1 DEF OwnersInv, NewOwner, Opening
    <3> QED BY <3>3, <3>4, <3>5 DEF NewOwner
  <2> QED BY <2>4, <2>5 DEF OwnersInv
<1>2. CASE SameOwners
  <2>1. \A k \in DOMAIN accounts' : accounts'[k].id <= Len(users')
    BY <1>0, <1>a, <1>2 DEF OwnersInv, SameOwners
  <2>2. CASE UNCHANGED <<pc, req, at, tmp>>
    <3>1. \A w \in Threads : pc[w] \in Opening => tmp[w].id <= Len(users')
      BY <1>0, <1>a DEF OwnersInv, NewOwner
    <3>2. \A w \in Threads : NewOwner(w)'
      BY <1>2, <2>2, <3>1 DEF OwnersInv, NewOwner, SameOwners
    <3> QED BY <2>1, <3>2 DEF OwnersInv
  <2>3. ASSUME NEW t \in Threads, LockTurn(t), pc[t] # "put" PROVE OwnersInv'
    <3>1. PICK s, r, a, u : Moves(t, s, r, a, u) /\ Turn(t, s, r, a, u)
      BY <2>3 DEF LockTurn, Turns
    <3>2. /\ pc'[t] = s /\ at'[t] = a /\ tmp'[t] = u
          /\ \A w \in Threads \ {t} : pc'[w] = pc[w] /\ at'[w] = at[w] /\ tmp'[w] = tmp[w]
      BY <3>1, Moved, TypedShaped DEF TypeInv
    <3>3. s \in Opening => pc[t] \in Opening /\ u = tmp[t] /\ (s = "aput" => a = Len(accounts) + 1)
      BY <2>3, <3>1, TurnOpens
    <3>4. \A w \in Threads : pc'[w] \in Opening => pc[w] \in Opening /\ tmp'[w] = tmp[w]
      BY <3>2, <3>3
    <3>5. \A w \in Threads : pc'[w] = "aput" => at'[w] = Len(accounts') + 1
      BY <1>2, <3>2, <3>3 DEF OwnersInv, NewOwner, Opening, SameOwners
    <3>6. \A w \in Threads : pc'[w] \in Opening => tmp'[w].id <= Len(users')
      BY <1>0, <1>a, <3>4 DEF OwnersInv, NewOwner
    <3>7. ASSUME NEW w \in Threads PROVE NewOwner(w)'
      BY <1>2, <3>4, <3>5, <3>6 DEF OwnersInv, NewOwner, SameOwners
    <3> QED BY <2>1, <3>7 DEF OwnersInv
  <2>4. ASSUME NEW t \in Threads, PutUser(t) PROVE OwnersInv'
    <3>1. tmp[t].id = Len(users) + 1 /\ at[t] = Len(users) + 1 /\ pc[t] = "put"
      <4>1. ~stale[t]
        BY <2>4 DEF PutUser, Outdates
      <4> QED BY <2>4, <4>1, PutUserDoes DEF UniqueInv, Fresh, FreshNew, Adding
    <3>2. Len(users') = Len(users) + 1
      <4>1. Len(users') = IF at[t] <= Len(users) THEN Len(users) ELSE at[t]
        BY <2>4, PutUserDoes
      <4> QED BY <1>0, <3>1, <4>1
    <3>3. /\ pc'[t] = "recv" \/ (pc'[t] = "ascan" /\ tmp'[t] = tmp[t])
          /\ \A w \in Threads \ {t} : pc'[w] = pc[w] /\ at'[w] = at[w] /\ tmp'[w] = tmp[w]
      BY <2>4 DEF PutUser, AfterUser, Answer, Goto, TypeInv, TypeOK
    <3>4. /\ \A k \in DOMAIN accounts : accounts[k].id # tmp[t].id
          /\ \A w \in Threads : pc[w] \in Opening => tmp[w].id # tmp[t].id
      BY <1>0, <3>1 DEF OwnersInv, NewOwner
    <3>5. \A w \in Threads : pc'[w] \in Opening => tmp'[w].id <= Len(users')
      BY <1>0, <1>a, <3>1, <3>2, <3>3 DEF OwnersInv, NewOwner, Opening
    <3>6. ASSUME NEW w \in Threads, w # t PROVE NewOwner(w)'
      BY <1>2, <3>3, <3>4, <3>5, <3>6 DEF OwnersInv, NewOwner, SameOwners, Opening
    <3>7. NewOwner(t)'
      BY <1>2, <3>3, <3>4, <3>5 DEF OwnersInv, NewOwner, SameOwners, Opening
    <3> QED BY <2>1, <3>6, <3>7 DEF OwnersInv
  <2>5. ASSUME NEW t \in Threads, LockTurn(t), pc[t] = "put" PROVE PutUser(t)
    BY <2>5 DEF LockTurn
  <2> QED BY <2>2, <2>3, <2>4, <2>5, LockSteps
<1> QED BY <1>1, <1>2, OwnersKept

\* Where no two threads share a process, nothing fails and no two additions
\* race for an id, no step of any number of threads takes money from an
\* account: write_account() only ever writes at the end of the file.
THEOREM BalanceIsKept == Spec => BalanceKept
<1> DEFINE InvU == ~raced /\ trouble = 0 => UniqueInv
           InvO == Exclusive /\ ~raced /\ trouble = 0 => OwnersInv
<1>1. Init => InvO
  <2> SUFFICES ASSUME Init PROVE OwnersInv  OBVIOUS
  <2>1. \A t \in Threads : NewOwner(t)
    BY DEF Init, NewOwner, Opening
  <2>2. DOMAIN users = 1..Len(users) /\ Len(users) \in Nat
    BY InitTyped, Locals
  <2>3. \A k \in DOMAIN accounts : accounts[k].id <= Len(users)
    BY <2>2, BootProvides
  <2> QED BY <2>1, <2>3 DEF OwnersInv
<1>2. IdsInv /\ InvU /\ InvO /\ [Next]_vars => InvO'
  <2> SUFFICES ASSUME IdsInv, InvU, InvO, [Next]_vars, Exclusive', ~raced', trouble' = 0
               PROVE  OwnersInv'
    OBVIOUS
  <2>1. TypeInv
    BY DEF IdsInv
  <2>2. Exclusive /\ ~raced /\ trouble = 0
    BY <2>1, FilesKept, LockSteps, RacedStays DEF Exclusive
  <2>3. Locked /\ UniqueInv /\ OwnersInv
    BY <2>2 DEF IdsInv
  <2> QED BY <2>1, <2>2, <2>3, OwnersStep
<1>3. IdsInv /\ InvO /\ [Next]_vars =>
        [ Exclusive /\ ~raced' /\ trouble' = 0 =>
            \A k \in DOMAIN accounts : accounts'[k].balance >= accounts[k].balance ]_vars
  <2> SUFFICES ASSUME IdsInv, InvO, [Next]_vars, Exclusive, ~raced', trouble' = 0,
                      NEW k \in DOMAIN accounts
               PROVE  accounts'[k].balance >= accounts[k].balance
    OBVIOUS
  <2>1. TypeInv
    BY DEF IdsInv
  <2>2. OwnersInv
    BY <2>1, LockSteps, RacedStays
  <2>3. /\ Len(accounts) \in Nat /\ DOMAIN accounts = 1..Len(accounts)
        /\ accounts[k].balance \in Nat
    BY <2>1, Locals
  <2>4. CASE accounts' = accounts
    BY <2>3, <2>4
  <2>5. ASSUME NEW t \in Threads, PutAccount(t)
        PROVE  accounts'[k].balance >= accounts[k].balance
    <3>1. pc[t] = "aput" /\ (k # at[t] => accounts'[k] = accounts[k])
      BY <2>1, <2>5, PutAccountDoes
    <3>2. at[t] = Len(accounts) + 1
      BY <2>2, <3>1 DEF OwnersInv, NewOwner, Opening
    <3> QED BY <2>3, <3>1, <3>2
  <2>6. ASSUME NEW i \in DOMAIN accounts, NEW p \in Procs, Deposit(i, p)
        PROVE  accounts'[k].balance >= accounts[k].balance
    BY <2>1, <2>6, DepositDoes
  <2> QED BY <2>4, <2>5, <2>6, FilesKept
<1>4. Spec => []InvU
  BY UniqueInvariant
<1> QED BY <1>1, <1>2, <1>3, <1>4, IdsInvariant, PTL DEF Spec, BalanceKept
=============================================================================
