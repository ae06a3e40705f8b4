------------------------------- MODULE Users --------------------------------
(***************************************************************************)
(* The user registry: users.db and the opening of accounts in accounts.db, *)
(* under add_new_customer(), modify_customer() (employee_module.c),        *)
(* add_employee(), modify_user(), change_user_role(), list_all_users()     *)
(* (admin_module.c), change_password(), view_personal_details()            *)
(* (customer_module.c) and the helpers of utils.c they call.               *)
(*                                                                         *)
(* Adding a user is a chain of separately locked sections: uniqueness      *)
(* check, new id, password hash, write_user(), write_account().  A user id *)
(* counts records, and is modelled from 1 (the code starts at 1001).  The  *)
(* e-mail address and the phone number, which all the code treats alike,   *)
(* are one field, contact.  A hash is the password it was made from.       *)
(***************************************************************************)
EXTENDS Integers, Sequences, FileLocks

CONSTANTS Threads,     \* client threads
          Regimes,     \* ways in which threads may belong to processes
          BootUsers,   \* the users bootstrap.c adds
          None,        \* an argument a request does not have
          Names,       \* user names typed for new users
          Contacts,    \* addresses and numbers typed
          Passwords,   \* passwords typed
          Ops,         \* the requests that are sent
          MaxUsers,    \* bound: records in users.db, and the ids named
          MaxEvents    \* bound: requests, deposits, failing calls and exits

Roles == {"customer", "employee", "manager", "admin"}

ASSUME RegimesAssumption == Regimes \subseteq [Threads -> Procs]
ASSUME BootAssumption ==
  /\ Len(BootUsers) \in 0..MaxUsers /\ DOMAIN BootUsers = 1..Len(BootUsers)
  /\ \A i \in DOMAIN BootUsers : BootUsers[i].role \in Roles
  /\ \A i, j \in DOMAIN BootUsers : i # j =>
       /\ BootUsers[i].name # BootUsers[j].name
       /\ BootUsers[i].contact # BootUsers[j].contact
ASSUME BoundsAssumption == MaxUsers \in Nat /\ MaxEvents \in Nat

VARIABLES
  procOf,     \* the process each thread belongs to
  users,      \* users.db
  accounts,   \* accounts.db: owner and balance
  userLock,   \* fcntl locks on the records of users.db
  acctLock,   \* fcntl locks on the records of accounts.db
  crypt_buf,  \* the static result buffer of crypt() in each process
  pc,         \* the next section or system call of each thread
  req,        \* the request each thread serves
  at,         \* the position a record is written to, 0 if none
  tmp,        \* the user record being made or modified
  served,     \* requests received and deposits made
  trouble,    \* system calls that failed, and exits
  stale,      \* history: what the thread relies on has been overwritten
  raced,      \* history: a thread wrote users.db on stale grounds
  clobbered   \* history: records of users.db an addition has replaced

locals == <<req, at, tmp>>
bounds == <<served, trouble>>
ghosts == <<stale, raced, clobbered>>
vars   == <<procOf, users, accounts, userLock, acctLock, crypt_buf, pc, locals,
            bounds, ghosts>>

-----------------------------------------------------------------------------
Positions == 1..MaxUsers

\* No two threads share a process, so that the locks exclude.
Exclusive == \A t, u \in Threads : procOf[t] = procOf[u] => t = u

\* What the payloads parse to.  "other" is a role the handlers do not know.
Requests ==
  {r \in
    [op : {"ADD_CUSTOMER"}, id : {0}, name : Names, contact : Contacts,
     password : Passwords, role : {"customer"}]
    \cup
    [op : {"ADD_EMPLOYEE"}, id : {0}, name : Names, contact : Contacts,
     password : Passwords, role : {"employee", "manager", "admin", "other"}]
    \cup
    [op : {"MODIFY_CUSTOMER", "MODIFY_USER"}, id : Positions, name : {None},
     contact : Contacts, password : {None}, role : {"other"}]
    \cup
    [op : {"CHANGE_ROLE"}, id : Positions, name : {None}, contact : {None},
     password : {None}, role : {"employee", "manager", "other"}]
    \cup
    [op : {"CHANGE_PASSWORD"}, id : Positions, name : {None}, contact : {None},
     password : Passwords, role : {"other"}]
    \cup
    [op : {"LIST_USERS"}, id : {0}, name : {None}, contact : {None},
     password : {None}, role : {"other"}]
  : r.op \in Ops}

NoRequest == [op |-> "NONE", id |-> 0, name |-> None, contact |-> None,
              password |-> None, role |-> "other"]
NoUser == [id |-> 0, name |-> None, contact |-> None, password |-> None,
           role |-> "customer"]

Record(id, u) == [id |-> id, name |-> u.name, contact |-> u.contact,
                  password |-> u.password, role |-> u.role]

\* The record an addition fills in: the hash is not in it yet.
NewUser(id, r) == [id |-> id, name |-> r.name, contact |-> r.contact,
                   password |-> None, role |-> r.role]

\* accounts.db after bootstrap.c: one for each customer, as they were added.
BootAccounts ==
  {s \in UNION {[1..n -> [id : DOMAIN BootUsers, balance : {0}]] : n \in 0..Len(BootUsers)} :
     /\ \A k, l \in DOMAIN s : k < l => s[k].id < s[l].id
     /\ {s[k].id : k \in DOMAIN s} = {i \in DOMAIN BootUsers : BootUsers[i].role = "customer"}}

\* bootstrap.c has added the first users, one after the other.
Init ==
  /\ procOf \in Regimes
  /\ users = [i \in DOMAIN BootUsers |-> Record(i, BootUsers[i])]
  /\ accounts \in BootAccounts
  /\ userLock = Unlocked(Positions)
  /\ acctLock = Unlocked(Positions)
  /\ crypt_buf = [p \in Procs |-> None]
  /\ pc = [t \in Threads |-> "recv"]
  /\ req = [t \in Threads |-> NoRequest]
  /\ at = [t \in Threads |-> 0]
  /\ tmp = [t \in Threads |-> NoUser]
  /\ served = 0 /\ trouble = 0
  /\ stale = [t \in Threads |-> FALSE]
  /\ raced = FALSE /\ clobbered = {}

Goto(t, step) == pc' = [pc EXCEPT ![t] = step]

\* send_response(): the handler's locals go out of scope.
Answer(t) ==
  /\ Goto(t, "recv")
  /\ req' = [req EXCEPT ![t] = NoRequest]
  /\ at' = [at EXCEPT ![t] = 0]
  /\ tmp' = [tmp EXCEPT ![t] = NoUser]

\* s[i] is the first record with this id.
FirstAt(s, i, id) == s[i].id = id /\ \A j \in 1..(i - 1) : s[j].id # id

\* The loop of write_user() and write_account(), which look for a record to
\* replace.
Scan(t, s, found, notFound) ==
  \/ \E i \in DOMAIN s : /\ FirstAt(s, i, tmp[t].id)
                         /\ at' = [at EXCEPT ![t] = i]
                         /\ Goto(t, found)
  \/ /\ \A i \in DOMAIN s : s[i].id # tmp[t].id
     /\ Goto(t, notFound)
     /\ UNCHANGED at

\* lseek() to record i and write().
PutAt(s, i, rec) == IF i <= Len(s) THEN [s EXCEPT ![i] = rec] ELSE Append(s, rec)

\* Steps at which a thread has looked at users.db and will write to it.
Relying == {"newid", "hash", "copy", "scan", "seek", "put", "recheck", "write"}

\* Thread t writes users.db: what the others have seen of it is out of date.
Outdates(t) ==
  /\ stale' = [u \in Threads |-> IF u = t THEN FALSE
                                 ELSE stale[u] \/ pc[u] \in Relying]
  /\ raced' = (raced \/ stale[t])

\* Thread t is done without having written.
Relaxes(t) == stale' = [stale EXCEPT ![t] = FALSE] /\ UNCHANGED <<raced, clobbered>>

-----------------------------------------------------------------------------
(* Routes.                                                                 *)

Additions == {"ADD_CUSTOMER", "ADD_EMPLOYEE"}
Updates   == {"MODIFY_CUSTOMER", "MODIFY_USER", "CHANGE_ROLE", "CHANGE_PASSWORD"}

Receive(t) ==
  /\ pc[t] = "recv"
  /\ served + trouble < MaxEvents
  /\ served' = served + 1
  /\ \E r \in Requests :
       /\ req' = [req EXCEPT ![t] = r]
       /\ \/ r.op \in Additions /\ Goto(t, "check")
          \/ r.op \in Updates /\ Goto(t, "find")
          \/ r.op = "LIST_USERS" /\ Goto(t, "list")
  /\ UNCHANGED <<procOf, users, accounts, userLock, acctLock, crypt_buf, at, tmp,
                 trouble, ghosts>>

\* list_all_users(), and read_user() of view_personal_details().
ListUsers(t) ==
  /\ pc[t] = "list"
  /\ userLock' = ReadOnlyPass(userLock, procOf[t])
  /\ Answer(t) /\ Relaxes(t)
  /\ UNCHANGED <<procOf, users, accounts, acctLock, crypt_buf, bounds>>

-----------------------------------------------------------------------------
(* add_new_customer() and add_employee().                                  *)

\* Mutant: only user names are compared.
check_uniquenessNamesOnly(name, contact, self) ==
  \A i \in DOMAIN users : users[i].id = self \/ users[i].name # name

\* check_uniqueness() of users.db as it is now.
check_uniqueness(name, contact, self) ==
  \A i \in DOMAIN users :
    users[i].id = self \/ (users[i].name # name /\ users[i].contact # contact)

CheckNew(t) ==
  /\ pc[t] = "check"
  /\ userLock' = ReadOnlyPass(userLock, procOf[t])
  /\ \/ /\ check_uniqueness(req[t].name, req[t].contact, 0)
        /\ Goto(t, "newid")
        /\ UNCHANGED <<locals, ghosts>>
     \/ /\ ~check_uniqueness(req[t].name, req[t].contact, 0)
        /\ Answer(t) /\ Relaxes(t)
  /\ UNCHANGED <<procOf, users, accounts, acctLock, crypt_buf, bounds>>

\* Mutant: the id is the number of records.
generate_new_userIdOfLast(t) == Len(users)

\* Mutant: the id is one too high.
generate_new_userIdSkips(t) == Len(users) + 2

generate_new_userId(t) == Len(users) + 1

\* generate_new_userId(), and the record is filled in; add_employee() refuses
\* an unknown role.
NewId(t) ==
  /\ pc[t] = "newid"
  /\ userLock' = ReadOnlyPass(userLock, procOf[t])
  /\ \/ /\ req[t].role # "other"
        /\ tmp' = [tmp EXCEPT ![t] = NewUser(generate_new_userId(t), req[t])]
        /\ Goto(t, "hash")
        /\ UNCHANGED <<req, at, ghosts>>
     \/ /\ req[t].role = "other"
        /\ Answer(t) /\ Relaxes(t)
  /\ UNCHANGED <<procOf, users, accounts, acctLock, crypt_buf, bounds>>

\* crypt() of generate_password_hash(): all threads of a process get the
\* result in the same buffer.
Hash(t) ==
  /\ pc[t] = "hash"
  /\ crypt_buf' = [crypt_buf EXCEPT ![procOf[t]] = req[t].password]
  /\ stale' = [u \in Threads |->
                 \/ stale[u]
                 \/ u # t /\ procOf[u] = procOf[t] /\ pc[u] = "copy"]
  /\ Goto(t, "copy")
  /\ UNCHANGED <<procOf, users, accounts, userLock, acctLock, locals, bounds,
                 raced, clobbered>>

\* Mutant: the copy is forgotten.
CopyHashForgets(t) ==
  /\ pc[t] = "copy"
  /\ Goto(t, IF req[t].op \in Additions THEN "scan" ELSE "write")
  /\ UNCHANGED <<procOf, users, accounts, userLock, acctLock, crypt_buf, locals,
                 bounds, ghosts>>

\* strncpy() of the buffer into the record.
CopyHash(t) ==
  /\ pc[t] = "copy"
  /\ tmp' = [tmp EXCEPT ![t].password = crypt_buf[procOf[t]]]
  /\ Goto(t, IF req[t].op \in Additions THEN "scan" ELSE "write")
  /\ UNCHANGED <<procOf, users, accounts, userLock, acctLock, crypt_buf, req, at,
                 bounds, ghosts>>

\* write_user(): open(O_RDWR), lock_file(), and the scan for the user id.
ScanUsers(t) ==
  /\ pc[t] = "scan"
  /\ Grantable(userLock, Positions, procOf[t])
  /\ userLock' = Lock(userLock, Positions, procOf[t])
  /\ Scan(t, users, "put", "seek")
  /\ UNCHANGED <<procOf, users, accounts, acctLock, crypt_buf, req, tmp, bounds,
                 ghosts>>

\* lseek(SEEK_END).
SeekUsers(t) ==
  /\ pc[t] = "seek"
  /\ Len(users) < MaxUsers   \* bound
  /\ at' = [at EXCEPT ![t] = Len(users) + 1]
  /\ Goto(t, "put")
  /\ UNCHANGED <<procOf, users, accounts, userLock, acctLock, crypt_buf, req, tmp,
                 bounds, ghosts>>

\* Mutant: the account is opened only by later requests.
AfterUserNoAccount(t) == Answer(t)

\* write_user() has returned.
AfterUser(t) ==
  \/ /\ req[t].op = "ADD_CUSTOMER"
     /\ Goto(t, "ascan")
     /\ at' = [at EXCEPT ![t] = 0]
     /\ UNCHANGED <<req, tmp>>
  \/ req[t].op = "ADD_EMPLOYEE" /\ Answer(t)

\* write() of the record, in place or at the end; unlock_file(); close().
PutUser(t) ==
  /\ pc[t] = "put"
  /\ users' = PutAt(users, at[t], tmp[t])
  /\ clobbered' = IF at[t] \in DOMAIN users THEN clobbered \cup {at[t]}
                                            ELSE clobbered
  /\ Outdates(t)
  /\ userLock' = Close(userLock, procOf[t])
  /\ AfterUser(t)
  /\ UNCHANGED <<procOf, accounts, acctLock, crypt_buf, bounds>>

\* write_account(), in the same three steps.
ScanAccounts(t) ==
  /\ pc[t] = "ascan"
  /\ Grantable(acctLock, Positions, procOf[t])
  /\ acctLock' = Lock(acctLock, Positions, procOf[t])
  /\ Scan(t, accounts, "aput", "aseek")
  /\ UNCHANGED <<procOf, users, accounts, userLock, crypt_buf, req, tmp, bounds,
                 ghosts>>

SeekAccounts(t) ==
  /\ pc[t] = "aseek"
  /\ Len(accounts) < MaxUsers   \* bound
  /\ at' = [at EXCEPT ![t] = Len(accounts) + 1]
  /\ Goto(t, "aput")
  /\ UNCHANGED <<procOf, users, accounts, userLock, acctLock, crypt_buf, req, tmp,
                 bounds, ghosts>>

PutAccount(t) ==
  /\ pc[t] = "aput"
  /\ accounts' = PutAt(accounts, at[t], [id |-> tmp[t].id, balance |-> 0])
  /\ acctLock' = Close(acctLock, procOf[t])
  /\ Answer(t)
  /\ UNCHANGED <<procOf, users, userLock, crypt_buf, bounds, ghosts>>

-----------------------------------------------------------------------------
(* atomic_update_user() and the modifiers it is called with.               *)

\* find_user_offset().
FindUser(t) ==
  /\ pc[t] = "find"
  /\ userLock' = ReadOnlyPass(userLock, procOf[t])
  /\ \/ \E i \in DOMAIN users : /\ FirstAt(users, i, req[t].id)
                                /\ at' = [at EXCEPT ![t] = i]
                                /\ Goto(t, "lock")
                                /\ UNCHANGED <<req, tmp, ghosts>>
     \/ /\ \A i \in DOMAIN users : users[i].id # req[t].id
        /\ Answer(t) /\ Relaxes(t)
  /\ UNCHANGED <<procOf, users, accounts, acctLock, crypt_buf, bounds>>

LockUser(t) ==
  /\ pc[t] = "lock"
  /\ Grantable(userLock, {at[t]}, procOf[t])
  /\ userLock' = Lock(userLock, {at[t]}, procOf[t])
  /\ Goto(t, "read")
  /\ UNCHANGED <<procOf, users, accounts, acctLock, crypt_buf, locals, bounds,
                 ghosts>>

\* Mutant: the role of any user can be changed.
MayChangeRoleOfAll(user, r) == r.role # "other"

\* Mutant: the last branch, for an unknown role, is missing.
MayChangeRoleToAny(user, r) == user.role \notin {"customer", "admin"}

\* The checks of change_role_modifier().
MayChangeRole(user, r) ==
  user.role \notin {"customer", "admin"} /\ r.role # "other"

\* read(), and the modifier up to the section it enters next.
ReadUser(t) ==
  LET user == users[at[t]]
      r    == req[t]
  IN  /\ pc[t] = "read"
      /\ \/ /\ \/ r.op = "MODIFY_USER"
               \/ r.op = "MODIFY_CUSTOMER" /\ user.role = "customer"
            /\ tmp' = [tmp EXCEPT ![t] = user]
            /\ Goto(t, "recheck")
         \/ /\ r.op = "CHANGE_PASSWORD"
            /\ tmp' = [tmp EXCEPT ![t] = user]
            /\ Goto(t, "hash")
         \/ /\ r.op = "CHANGE_ROLE" /\ MayChangeRole(user, r)
            /\ tmp' = [tmp EXCEPT ![t] = [user EXCEPT !.role = r.role]]
            /\ Goto(t, "write")
         \/ /\ \/ r.op = "MODIFY_CUSTOMER" /\ user.role # "customer"
               \/ r.op = "CHANGE_ROLE" /\ ~MayChangeRole(user, r)
            /\ Goto(t, "unlock")
            /\ UNCHANGED tmp
      /\ UNCHANGED <<procOf, users, accounts, userLock, acctLock, crypt_buf, req,
                     at, bounds, ghosts>>

\* check_uniqueness() inside the modifiers of modify_customer() and
\* modify_user(): its close() drops the record lock of the update itself.
Recheck(t) ==
  /\ pc[t] = "recheck"
  /\ userLock' = ReadOnlyPass(userLock, procOf[t])
  /\ \/ /\ check_uniqueness(tmp[t].name, req[t].contact, tmp[t].id)
        /\ tmp' = [tmp EXCEPT ![t].contact = req[t].contact]
        /\ Goto(t, "write")
     \/ /\ ~check_uniqueness(tmp[t].name, req[t].contact, tmp[t].id)
        /\ Goto(t, "unlock")
        /\ UNCHANGED tmp
  /\ UNCHANGED <<procOf, users, accounts, acctLock, crypt_buf, req, at, bounds,
                 ghosts>>

WriteUser(t) ==
  /\ pc[t] = "write"
  /\ users' = [users EXCEPT ![at[t]] = tmp[t]]
  /\ Outdates(t)
  /\ Goto(t, "unlock")
  /\ UNCHANGED <<procOf, accounts, userLock, acctLock, crypt_buf, locals, bounds,
                 clobbered>>

UnlockUser(t) ==
  /\ pc[t] = "unlock"
  /\ userLock' = Close(userLock, procOf[t])
  /\ Answer(t) /\ Relaxes(t)
  /\ UNCHANGED <<procOf, users, accounts, acctLock, crypt_buf, bounds>>

-----------------------------------------------------------------------------
(* What happens around the handlers.                                       *)

\* A customer pays money in (deposit_money(), one step as Ledger shows).
Deposit(i, p) ==
  /\ served + trouble < MaxEvents
  /\ served' = served + 1
  /\ FirstAt(accounts, i, accounts[i].id)
  /\ Grantable(acctLock, {i}, p)
  /\ accounts' = [accounts EXCEPT ![i].balance = @ + 1]
  /\ UNCHANGED <<procOf, users, userLock, acctLock, crypt_buf, pc, locals, trouble,
                 ghosts>>

Trouble == served + trouble < MaxEvents /\ trouble' = trouble + 1

\* A system call fails.  check_uniqueness() that cannot open the file finds
\* everything unique, and generate_new_userId() returns the first id.  A
\* failed lock_file() goes unnoticed, and so does a failed write() of
\* write_user() or write_account(); their open() ends the addition.  In
\* atomic_update_user() every failure ends the update.
SystemCallFails(t) ==
  /\ Trouble
  /\ \/ /\ pc[t] = "check"
        /\ Goto(t, "newid")
        /\ UNCHANGED <<userLock, acctLock, locals, ghosts>>
     \/ /\ pc[t] = "newid" /\ req[t].role # "other"
        /\ tmp' = [tmp EXCEPT ![t] = NewUser(1, req[t])]
        /\ Goto(t, "hash")
        /\ UNCHANGED <<userLock, acctLock, req, at, ghosts>>
     \/ /\ \/ pc[t] = "scan" /\ Scan(t, users, "put", "seek")
           \/ pc[t] = "ascan" /\ Scan(t, accounts, "aput", "aseek")
        /\ UNCHANGED <<userLock, acctLock, req, tmp, ghosts>>
     \/ /\ pc[t] = "put"
        /\ userLock' = Close(userLock, procOf[t])
        /\ AfterUser(t)
        /\ Relaxes(t)
        /\ UNCHANGED acctLock
     \/ /\ pc[t] \in {"scan", "ascan"}
        /\ Answer(t) /\ Relaxes(t)
        /\ UNCHANGED <<userLock, acctLock>>
     \/ /\ pc[t] \in {"find", "lock", "list"}
        /\ userLock' \in {userLock, Close(userLock, procOf[t])}
        /\ Answer(t) /\ Relaxes(t)
        /\ UNCHANGED acctLock
     \/ /\ pc[t] = "aput"
        /\ acctLock' = Close(acctLock, procOf[t])
        /\ Answer(t) /\ Relaxes(t)
        /\ UNCHANGED userLock
     \/ /\ pc[t] = "recheck"
        /\ tmp' = [tmp EXCEPT ![t].contact = req[t].contact]
        /\ Goto(t, "write")
        /\ UNCHANGED <<userLock, acctLock, req, at, ghosts>>
     \/ /\ pc[t] \in {"read", "write"}
        /\ Goto(t, "unlock")
        /\ UNCHANGED <<userLock, acctLock, locals, ghosts>>
  /\ UNCHANGED <<procOf, users, accounts, crypt_buf, served>>

\* A process exits, its threads with it, and is started again.
Exit(p) ==
  LET Dead(f, v) == [t \in Threads |-> IF procOf[t] = p THEN v ELSE f[t]]
  IN  /\ Trouble
      /\ \E t \in Threads : procOf[t] = p
      /\ userLock' = Close(userLock, p)
      /\ acctLock' = Close(acctLock, p)
      /\ crypt_buf' = [crypt_buf EXCEPT ![p] = None]
      /\ pc' = Dead(pc, "recv")
      /\ req' = Dead(req, NoRequest)
      /\ at' = Dead(at, 0)
      /\ tmp' = Dead(tmp, NoUser)
      /\ stale' = Dead(stale, FALSE)
      /\ UNCHANGED <<procOf, users, accounts, served, raced, clobbered>>

-----------------------------------------------------------------------------
HandlerStep(t) ==
  \/ ListUsers(t) \/ CheckNew(t) \/ NewId(t) \/ Hash(t) \/ CopyHash(t)
  \/ ScanUsers(t) \/ SeekUsers(t) \/ PutUser(t)
  \/ ScanAccounts(t) \/ SeekAccounts(t) \/ PutAccount(t)
  \/ FindUser(t) \/ LockUser(t) \/ ReadUser(t) \/ Recheck(t)
  \/ WriteUser(t) \/ UnlockUser(t)

Next ==
  \/ \E t \in Threads : Receive(t) \/ HandlerStep(t) \/ SystemCallFails(t)
  \/ \E i \in DOMAIN accounts, p \in Procs : Deposit(i, p)
  \/ \E p \in Procs : Exit(p)

Spec == Init /\ [][Next]_vars

-----------------------------------------------------------------------------
(* Properties.                                                             *)

AllNames     == Names \cup {BootUsers[i].name : i \in DOMAIN BootUsers} \cup {None}
AllContacts  == Contacts \cup {BootUsers[i].contact : i \in DOMAIN BootUsers} \cup {None}
AllPasswords == Passwords \cup {BootUsers[i].password : i \in DOMAIN BootUsers} \cup {None}
UserRec == [id : Nat, name : AllNames, contact : AllContacts,
            password : AllPasswords, role : Roles]
Steps == {"recv", "list", "check", "newid", "hash", "copy", "scan", "seek", "put",
          "ascan", "aseek", "aput", "find", "lock", "read", "recheck", "write",
          "unlock"}

TypeOK ==
  /\ procOf \in Regimes
  /\ users \in Seq(UserRec) /\ Len(users) <= MaxUsers
  /\ accounts \in Seq([id : Nat, balance : Nat]) /\ Len(accounts) <= MaxUsers
  /\ userLock \in LockTable(Positions) /\ acctLock \in LockTable(Positions)
  /\ crypt_buf \in [Procs -> AllPasswords]
  /\ pc \in [Threads -> Steps]
  /\ req \in [Threads -> Requests \cup {NoRequest}]
  /\ at \in [Threads -> 0..MaxUsers]
  /\ tmp \in [Threads -> UserRec]
  /\ served \in Nat /\ trouble \in Nat
  /\ stale \in [Threads -> BOOLEAN] /\ raced \in BOOLEAN
  /\ clobbered \subseteq Positions

\* No two users share a user name, an address or a number.
Unique ==
  \A i, j \in DOMAIN users :
    i # j => users[i].name # users[j].name /\ users[i].contact # users[j].contact

\* check_uniqueness() and generate_new_userId() are called within a lock to
\* keep additions apart: as long as no call fails, a user about to be written
\* is new to users.db, with an id, a name and a contact that nobody has.
NewUserIsNew ==
  trouble = 0 =>
    \A t \in Threads : pc[t] = "put" =>
      \A i \in DOMAIN users :
        /\ users[i].id # tmp[t].id
        /\ users[i].name # tmp[t].name /\ users[i].contact # tmp[t].contact

\* check_uniqueness() keeps names and contacts unique as long as nothing is
\* written between a check and the write it is made for.
UniqueUnlessRaced == ~raced /\ trouble = 0 => Unique

\* generate_new_userId(): no id runs ahead of the record's position, whatever
\* fails and races; where the locks exclude the id is the position, so that
\* ids are unique although check, id and write are separate sections.
IdsArePositions ==
  \A i \in DOMAIN users :
    /\ users[i].id <= i
    /\ Exclusive /\ trouble = 0 => users[i].id = i

\* A user stays who he is.  No update, stale or not, changes the id or the
\* user name, or turns a customer or an admin into something else: only an
\* addition that was given the same id does.
IdentityKept ==
  [][ \A i \in DOMAIN users \ clobbered' :
        /\ i \in DOMAIN users'
        /\ users'[i].id = users[i].id
        /\ users'[i].name = users[i].name
        /\ \/ users'[i].role = users[i].role
           \/ {users[i].role, users'[i].role} = {"employee", "manager"} ]_vars

\* The hash that is stored is that of the password typed, unless another
\* thread of the process called crypt() in between.
PasswordAsTyped ==
  \A t \in Threads :
    /\ pc[t] \in {"put", "write"} /\ req[t].password # None
    /\ Exclusive \/ ~stale[t]
    => tmp[t].password = req[t].password

HasAccount(id) == \E k \in DOMAIN accounts : accounts[k].id = id

\* Each customer has a dedicated account, but for the moment between
\* write_user() and write_account(), as long as nothing fails.
DedicatedAccount ==
  trouble = 0 =>
    \A i \in DOMAIN users :
      users[i].role = "customer" =>
        \/ HasAccount(users[i].id)
        \/ \E t \in Threads : /\ pc[t] \in {"ascan", "aseek", "aput"}
                              /\ tmp[t].id = users[i].id

\* Where the locks exclude each customer has a dedicated account, and a single
\* one.  (In one server two write_account()s seek to the same end, and one
\* overwrites the other's account.)
OneAccountEach ==
  Exclusive =>
    /\ DedicatedAccount
    /\ trouble = 0 =>
         \A k, l \in DOMAIN accounts : accounts[k].id = accounts[l].id => k = l

\* Opening an account never empties one that is in use, unless two additions
\* raced for an id.
BalanceKept ==
  [][ Exclusive /\ ~raced' /\ trouble' = 0 =>
        \A k \in DOMAIN accounts : accounts'[k].balance >= accounts[k].balance ]_vars
=============================================================================
