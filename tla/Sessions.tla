------------------------------ MODULE Sessions ------------------------------
(***************************************************************************)
(* Logging in and out: the LOGIN and LOGOUT routes and the clean-up of     *)
(* client_thread_main() (server.c), login_user() and verify_password()     *)
(* (utils.c), and the login loop of the client's main() (client.c).        *)
(*                                                                         *)
(* A connection is a client process and the server thread that serves it.  *)
(* The client sends one request and waits for its answer, so a connection  *)
(* has one program counter; the client may be killed at any time, and the  *)
(* thread goes on until its next recv_request() fails.  The two sections   *)
(* under db_lock are one step each.                                        *)
(***************************************************************************)
EXTENDS Integers, FiniteSets

CONSTANTS Conns,         \* connections
          Users,         \* user ids with a record in users.db
          NoUser,        \* user id 0
          RoleOf,        \* the role of each user
          PasswordOf,    \* the password of each user
          Passwords,     \* what people type
          Choices,       \* the roles people choose at the login prompt
          Customers,     \* the users whose account managers can deactivate
          MaxSessions,   \* slots of active_sessions
          MaxLogins,     \* bound: LOGIN requests sent in a behaviour
          MaxToggles,    \* bound: activations and deactivations
          MaxExits       \* bound: times the server exits and is started again

ASSUME UsersAssumption ==
  /\ NoUser \notin Users
  /\ PasswordOf \in [Users -> Passwords]
  /\ Passwords # {} /\ Choices # {}
  /\ Customers \subseteq Users
ASSUME SessionsAssumption == MaxSessions \in Nat \ {0}
ASSUME BoundsAssumption ==
  MaxLogins \in Nat /\ MaxToggles \in Nat /\ MaxExits \in Nat

VARIABLES
  active_sessions,  \* who occupies each slot, NoUser if nobody
  current,          \* current_userId of each thread
  pc,               \* where each connection is
  attempt,          \* user name, password and role of a LOGIN request
  answer,           \* the user id a SUCCESS names, else NoUser
  client,           \* userId of each client: whose menu it shows
  gone,             \* connections whose client has exited or was killed
  crypt_buf,        \* the static result buffer of crypt(): a password hashed
  inactive,         \* users whose account is deactivated
  logins, toggles, exits   \* counters for the bounds

counts == <<logins, toggles, exits>>
vars   == <<active_sessions, current, pc, attempt, answer, client, gone,
            crypt_buf, inactive, counts>>

Slots    == 1..MaxSessions
Attempts == [user : Users \cup {NoUser}, password : Passwords, choice : Choices]
NoAttempt == [user |-> NoUser, password |-> CHOOSE p \in Passwords : TRUE,
              choice |-> CHOOSE r \in Choices : TRUE]

Init ==
  /\ active_sessions = [i \in Slots |-> NoUser]
  /\ current = [c \in Conns |-> NoUser]
  /\ pc = [c \in Conns |-> "unconnected"]
  /\ attempt = [c \in Conns |-> NoAttempt]
  /\ answer = [c \in Conns |-> NoUser]
  /\ client = [c \in Conns |-> NoUser]
  /\ gone = {}
  /\ crypt_buf = NoAttempt.password
  /\ inactive = {}
  /\ logins = 0 /\ toggles = 0 /\ exits = 0

Goto(c, step) == pc' = [pc EXCEPT ![c] = step]

-----------------------------------------------------------------------------
(* The client.                                                             *)

\* connect(), accept(), pthread_create().
Connect(c) ==
  /\ pc[c] = "unconnected"
  /\ Goto(c, "prompt")
  /\ UNCHANGED <<active_sessions, current, attempt, answer, client, gone,
                 crypt_buf, inactive, counts>>

\* The login prompt: a role is chosen, a name (that need not exist) and a
\* password are typed, and LOGIN is sent.
SendLogin(c) ==
  /\ pc[c] = "prompt" /\ c \notin gone
  /\ logins < MaxLogins
  /\ logins' = logins + 1
  /\ \E a \in Attempts : attempt' = [attempt EXCEPT ![c] = a]
  /\ Goto(c, "lookup")
  /\ UNCHANGED <<active_sessions, current, answer, client, gone, crypt_buf,
                 inactive, toggles, exits>>

\* The answer to LOGIN: the menu if the role is the one chosen, otherwise the
\* prompt again, with no LOGOUT sent.
ReadAnswer(c) ==
  /\ pc[c] = "answered" /\ c \notin gone
  /\ \/ /\ answer[c] # NoUser
        /\ RoleOf[answer[c]] = attempt[c].choice
        /\ client' = [client EXCEPT ![c] = answer[c]]
        /\ Goto(c, "menu")
     \/ /\ ~(answer[c] # NoUser /\ RoleOf[answer[c]] = attempt[c].choice)
        /\ client' = [client EXCEPT ![c] = NoUser]
        /\ Goto(c, "prompt")
  /\ attempt' = [attempt EXCEPT ![c] = NoAttempt]
  /\ answer' = [answer EXCEPT ![c] = NoUser]
  /\ UNCHANGED <<active_sessions, current, gone, crypt_buf, inactive, counts>>

\* The menu's last entry: LOGOUT is sent.
SendLogout(c) ==
  /\ pc[c] = "menu" /\ c \notin gone
  /\ Goto(c, "logout")
  /\ UNCHANGED <<active_sessions, current, attempt, answer, client, gone,
                 crypt_buf, inactive, counts>>

\* LOGOUT is answered: the menu returns to main(), which starts over.
LeaveMenu(c) ==
  /\ pc[c] = "logged_out" /\ c \notin gone
  /\ client' = [client EXCEPT ![c] = NoUser]
  /\ Goto(c, "prompt")
  /\ UNCHANGED <<active_sessions, current, attempt, answer, gone, crypt_buf,
                 inactive, counts>>

\* "Exit Client", or Ctrl+C: the socket is closed.
Leave(c) ==
  /\ pc[c] # "unconnected" /\ c \notin gone
  /\ gone' = gone \cup {c}
  /\ client' = [client EXCEPT ![c] = NoUser]
  /\ UNCHANGED <<active_sessions, current, pc, attempt, answer, crypt_buf,
                 inactive, counts>>

-----------------------------------------------------------------------------
(* The server.                                                             *)

\* login_user() up to the return of crypt() in verify_password(): all threads
\* get the result in the same buffer.  An unknown name is refused.
Lookup(c) ==
  /\ pc[c] = "lookup"
  /\ \/ /\ attempt[c].user = NoUser
        /\ Goto(c, "answered")
        /\ UNCHANGED crypt_buf
     \/ /\ attempt[c].user # NoUser
        /\ crypt_buf' = attempt[c].password
        /\ Goto(c, "compare")
  /\ UNCHANGED <<active_sessions, current, attempt, answer, client, gone,
                 inactive, counts>>

\* strcmp() with the stored hash, then the status of user and account.
Compare(c) ==
  /\ pc[c] = "compare"
  /\ \/ /\ crypt_buf = PasswordOf[attempt[c].user]
        /\ attempt[c].user \notin inactive
        /\ Goto(c, "session")
     \/ /\ crypt_buf # PasswordOf[attempt[c].user] \/ attempt[c].user \in inactive
        /\ Goto(c, "answered")
  /\ UNCHANGED <<active_sessions, current, attempt, answer, client, gone,
                 crypt_buf, inactive, counts>>

\* Mutant: the scan stops one slot short.
OccupiedStopsShort(u) == \E i \in 1..(MaxSessions - 1) : active_sessions[i] = u

Occupied(u) == \E i \in Slots : active_sessions[i] = u

\* Slot i is the first that holds u.
First(i, u) ==
  /\ active_sessions[i] = u
  /\ \A j \in 1..(i - 1) : active_sessions[j] # u

\* Mutant: nobody looks whether the user is logged in already.
TakeSessionUnchecked(c) ==
  LET u == attempt[c].user
  IN  /\ pc[c] = "session"
      /\ Goto(c, "answered")
      /\ answer' = [answer EXCEPT ![c] = u]
      /\ \/ /\ \E i \in Slots :
                 /\ First(i, NoUser)
                 /\ active_sessions' = [active_sessions EXCEPT ![i] = u]
            /\ current' = [current EXCEPT ![c] = u]
         \/ /\ ~Occupied(NoUser)
            /\ UNCHANGED <<active_sessions, current>>
      /\ UNCHANGED <<attempt, client, gone, crypt_buf, inactive, counts>>

\* The section under db_lock.  With every slot taken SUCCESS is answered all
\* the same, and current_userId stays what it was.
TakeSession(c) ==
  LET u == attempt[c].user
  IN  /\ pc[c] = "session"
      /\ Goto(c, "answered")
      /\ \/ /\ Occupied(u)
            /\ UNCHANGED <<active_sessions, current, answer>>
         \/ /\ ~Occupied(u)
            /\ \E i \in Slots :
                 /\ First(i, NoUser)
                 /\ active_sessions' = [active_sessions EXCEPT ![i] = u]
            /\ current' = [current EXCEPT ![c] = u]
            /\ answer' = [answer EXCEPT ![c] = u]
         \/ /\ ~Occupied(u) /\ ~Occupied(NoUser)
            /\ answer' = [answer EXCEPT ![c] = u]
            /\ UNCHANGED <<active_sessions, current>>
      /\ UNCHANGED <<attempt, client, gone, crypt_buf, inactive, counts>>

\* Mutant: a free slot is marked -1.
remove_active_sessionMarks(u) ==
  \/ \E i \in Slots : /\ First(i, u)
                      /\ active_sessions' = [active_sessions EXCEPT ![i] = -1]
  \/ ~Occupied(u) /\ UNCHANGED active_sessions

\* remove_active_session(), under db_lock.
remove_active_session(u) ==
  \/ \E i \in Slots : /\ First(i, u)
                      /\ active_sessions' = [active_sessions EXCEPT ![i] = NoUser]
  \/ ~Occupied(u) /\ UNCHANGED active_sessions

\* Mutant: the slot is not given back.
LogoutForgets(c) ==
  /\ pc[c] = "logout"
  /\ current' = [current EXCEPT ![c] = NoUser]
  /\ Goto(c, "logged_out")
  /\ UNCHANGED <<active_sessions, attempt, answer, client, gone, crypt_buf, inactive,
                 counts>>

\* The LOGOUT route.
Logout(c) ==
  /\ pc[c] = "logout"
  /\ remove_active_session(current[c])
  /\ current' = [current EXCEPT ![c] = NoUser]
  /\ Goto(c, "logged_out")
  /\ UNCHANGED <<attempt, answer, client, gone, crypt_buf, inactive, counts>>

\* Mutant: a thread whose client vanished from a menu goes on waiting.
CleanupWaits(c) ==
  /\ pc[c] \in {"prompt", "answered", "logged_out"} /\ c \in gone
  /\ \/ current[c] # NoUser /\ remove_active_session(current[c])
     \/ current[c] = NoUser /\ UNCHANGED active_sessions
  /\ current' = [current EXCEPT ![c] = NoUser]
  /\ attempt' = [attempt EXCEPT ![c] = NoAttempt]
  /\ answer' = [answer EXCEPT ![c] = NoUser]
  /\ gone' = gone \ {c}
  /\ Goto(c, "unconnected")
  /\ UNCHANGED <<client, crypt_buf, inactive, counts>>

\* recv_request() fails: the loop ends, the slot is given back, the thread
\* returns and the connection can be used for another client.
Cleanup(c) ==
  /\ pc[c] \in {"prompt", "menu", "answered", "logged_out"} /\ c \in gone
  /\ \/ current[c] # NoUser /\ remove_active_session(current[c])
     \/ current[c] = NoUser /\ UNCHANGED active_sessions
  /\ current' = [current EXCEPT ![c] = NoUser]
  /\ attempt' = [attempt EXCEPT ![c] = NoAttempt]
  /\ answer' = [answer EXCEPT ![c] = NoUser]
  /\ gone' = gone \ {c}
  /\ Goto(c, "unconnected")
  /\ UNCHANGED <<client, crypt_buf, inactive, counts>>

\* set_account_status() of another connection.
Toggle(u) ==
  /\ toggles < MaxToggles
  /\ toggles' = toggles + 1
  /\ inactive' = IF u \in inactive THEN inactive \ {u} ELSE inactive \cup {u}
  /\ UNCHANGED <<active_sessions, current, pc, attempt, answer, client, gone,
                 crypt_buf, logins, exits>>

\* The process exits, threads and connections with it; server_init() of the
\* next one clears active_sessions.
Restart ==
  /\ exits < MaxExits
  /\ exits' = exits + 1
  /\ active_sessions' = [i \in Slots |-> NoUser]
  /\ current' = [c \in Conns |-> NoUser]
  /\ pc' = [c \in Conns |-> "unconnected"]
  /\ attempt' = [c \in Conns |-> NoAttempt]
  /\ answer' = [c \in Conns |-> NoUser]
  /\ client' = [c \in Conns |-> NoUser]
  /\ gone' = {}
  /\ crypt_buf' = NoAttempt.password
  /\ UNCHANGED <<inactive, logins, toggles>>

-----------------------------------------------------------------------------
ClientStep(c) ==
  \/ Connect(c) \/ SendLogin(c) \/ ReadAnswer(c) \/ SendLogout(c) \/ LeaveMenu(c)
  \/ Leave(c)

ServerStep(c) == Lookup(c) \/ Compare(c) \/ TakeSession(c) \/ Logout(c) \/ Cleanup(c)

Next ==
  \/ \E c \in Conns : ClientStep(c) \/ ServerStep(c)
  \/ \E u \in Customers : Toggle(u)
  \/ Restart

Spec == Init /\ [][Next]_vars

\* Threads are scheduled, and db_lock is held for a bounded loop only.
FairSpec == Spec /\ \A c \in Conns : WF_vars(ServerStep(c))

-----------------------------------------------------------------------------
(* Properties.                                                             *)

TypeOK ==
  /\ active_sessions \in [Slots -> Users \cup {NoUser}]
  /\ current \in [Conns -> Users \cup {NoUser}]
  /\ pc \in [Conns -> {"unconnected", "prompt", "lookup", "compare", "session",
                       "answered", "menu", "logout", "logged_out"}]
  /\ attempt \in [Conns -> Attempts]
  /\ answer \in [Conns -> Users \cup {NoUser}]
  /\ client \in [Conns -> Users \cup {NoUser}]
  /\ gone \subseteq Conns
  /\ crypt_buf \in Passwords
  /\ inactive \subseteq Customers
  /\ logins \in Nat /\ toggles \in Nat /\ exits \in Nat

\* A thread's current_userId is in exactly one slot, and is no other
\* thread's: the slot that LOGOUT or the clean-up gives back is its own.
OwnSlot ==
  \A c \in Conns : current[c] # NoUser =>
    /\ \E i \in Slots : \A j \in Slots : active_sessions[j] = current[c] <=> j = i
    /\ \A d \in Conns \ {c} : current[d] # current[c]

\* A client shows a user's menu, and its LOGOUT has not been served.
LoggedIn(c, u) == client[c] = u /\ pc[c] \in {"menu", "logout"}

\* No user is logged in on two clients at once: LOGIN looks for the user in
\* active_sessions and enters him there under one lock.
SingleLogin ==
  \A c, d \in Conns, u \in Users : LoggedIn(c, u) /\ LoggedIn(d, u) => c = d

\* A slot that no thread will give back.
Orphaned(i) ==
  active_sessions[i] # NoUser /\ \A c \in Conns : current[c] # active_sessions[i]

\* Slots are lost in one way only: a second LOGIN on a connection whose first
\* one succeeded (after a role mismatch the client asks again and sends no
\* LOGOUT) makes the thread forget the slot it holds.
OrphanOnlyByRelogin ==
  [][ \A i \in Slots : ~Orphaned(i) /\ Orphaned(i)' =>
        \E c \in Conns : /\ current[c] = active_sessions[i]
                         /\ current'[c] \notin {current[c], NoUser} ]_vars

\* When a client is gone, the slot its thread holds is given back.  (A LOGIN
\* still being served may replace current_userId first and leave the slot
\* behind: that is OrphanOnlyByRelogin.)
DisconnectFreesSlot ==
  \A c \in Conns, u \in Users :
    (/\ c \in gone /\ current[c] = u
     /\ pc[c] \notin {"lookup", "compare", "session"}) ~> ~Occupied(u)
=============================================================================
