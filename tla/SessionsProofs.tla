--------------------------- MODULE SessionsProofs ---------------------------
(***************************************************************************)
(* Proofs about Sessions, for every number of connections, users and slots.*)
(***************************************************************************)
EXTENDS Sessions, FiniteSetTheorems, TLAPS

-----------------------------------------------------------------------------
(* Types, and the user a login attempt is for.                             *)

TypeInv ==
  /\ TypeOK
  /\ \A c \in Conns : pc[c] \in {"compare", "session"} => attempt[c].user \in Users

\* The empty login attempt is an attempt.
LEMMA NoAttemptTyped == NoAttempt \in Attempts /\ NoAttempt.password \in Passwords
BY UsersAssumption DEF NoAttempt, Attempts

\* The fields of an attempt.
LEMMA AttemptFields ==
  ASSUME NEW a \in Attempts
  PROVE  a.user \in Users \cup {NoUser} /\ a.password \in Passwords
BY DEF Attempts

\* remove_active_session() leaves a session table.
LEMMA RemoveTyped ==
  ASSUME TypeOK, NEW u, remove_active_session(u)
  PROVE  active_sessions' \in [Slots -> Users \cup {NoUser}]
BY DEF TypeOK, remove_active_session

\* The initial state is typed.
LEMMA InitTyped == Init => TypeInv
BY NoAttemptTyped DEF Init, TypeInv, TypeOK

\* The client's steps keep the types.
LEMMA ClientTyped ==
  ASSUME TypeInv, NEW c \in Conns, ClientStep(c)
  PROVE  TypeInv'
<1> USE DEF counts, Goto
<1>1. CASE Connect(c)
  BY <1>1 DEF Connect, TypeInv, TypeOK
<1>2. CASE SendLogin(c)
  BY <1>2 DEF SendLogin, TypeInv, TypeOK
<1>3. CASE ReadAnswer(c)
  BY <1>3, NoAttemptTyped DEF ReadAnswer, TypeInv, TypeOK
<1>4. CASE SendLogout(c)
  BY <1>4 DEF SendLogout, TypeInv, TypeOK
<1>5. CASE LeaveMenu(c)
  BY <1>5 DEF LeaveMenu, TypeInv, TypeOK
<1>6. CASE Leave(c)
  BY <1>6 DEF Leave, TypeInv, TypeOK
<1> QED BY <1>1, <1>2, <1>3, <1>4, <1>5, <1>6 DEF ClientStep

\* The server's steps keep the types.
LEMMA ServerTyped ==
  ASSUME TypeInv, NEW c \in Conns, ServerStep(c)
  PROVE  TypeInv'
<1> USE DEF counts, Goto
<1>1. CASE Lookup(c)
  BY <1>1, AttemptFields DEF Lookup, TypeInv, TypeOK
<1>2. CASE Compare(c)
  BY <1>2 DEF Compare, TypeInv, TypeOK
<1>3. CASE TakeSession(c)
  BY <1>3 DEF TakeSession, TypeInv, TypeOK
<1>4. CASE Logout(c)
  BY <1>4, RemoveTyped DEF Logout, TypeInv, TypeOK
<1>5. CASE Cleanup(c)
  BY <1>5, RemoveTyped, NoAttemptTyped DEF Cleanup, TypeInv, TypeOK
<1> QED BY <1>1, <1>2, <1>3, <1>4, <1>5 DEF ServerStep

\* Every step keeps the types.
LEMMA NextTyped == TypeInv /\ [Next]_vars => TypeInv'
<1> SUFFICES ASSUME TypeInv, [Next]_vars PROVE TypeInv'  OBVIOUS
<1>1. CASE UNCHANGED vars
  BY <1>1 DEF vars, counts, TypeInv, TypeOK
<1>2. ASSUME NEW c \in Conns, ClientStep(c) \/ ServerStep(c) PROVE TypeInv'
  BY <1>2, ClientTyped, ServerTyped
<1>3. ASSUME NEW u \in Customers, Toggle(u) PROVE TypeInv'
  BY <1>3 DEF Toggle, TypeInv, TypeOK
<1>4. CASE Restart
  BY <1>4, NoAttemptTyped DEF Restart, TypeInv, TypeOK
<1> QED BY <1>1, <1>2, <1>3, <1>4 DEF Next

\* Every variable keeps its type, and a login gets as far as the session
\* table only for a user that exists.
THEOREM TypeCorrect == Spec => []TypeOK
<1>1. Init => TypeInv  BY InitTyped
<1>2. TypeInv /\ [Next]_vars => TypeInv'  BY NextTyped
<1>3. TypeInv => TypeOK  BY DEF TypeInv
<1> QED BY <1>1, <1>2, <1>3, PTL DEF Spec

-----------------------------------------------------------------------------
(* The session table.                                                      *)

\* No two slots hold the same user; every logged-in thread has a slot, and no
\* two threads are logged in as one user.
SlotInv ==
  /\ \A i, j \in Slots :
       active_sessions[i] # NoUser /\ active_sessions[i] = active_sessions[j] => i = j
  /\ \A c \in Conns : current[c] # NoUser => Occupied(current[c])
  /\ \A c, d \in Conns : c # d /\ current[c] # NoUser => current[c] # current[d]

\* Giving back the slot of a thread that logs out.
LEMMA ReleaseKeepsSlots ==
  ASSUME TypeOK, SlotInv, NEW c \in Conns,
         remove_active_session(current[c]),
         current' = [current EXCEPT ![c] = NoUser]
  PROVE  SlotInv'
<1>1. \A j \in Slots : \/ active_sessions'[j] = active_sessions[j]
                       \/ active_sessions'[j] = NoUser /\ active_sessions[j] = current[c]
  BY DEF remove_active_session, First, TypeOK
<1>2. \A d \in Conns : d # c => current'[d] = current[d]
  BY DEF TypeOK
<1>3. current'[c] = NoUser
  BY DEF TypeOK
<1>4. \A i, j \in Slots :
        active_sessions'[i] # NoUser /\ active_sessions'[i] = active_sessions'[j]
          => i = j
  BY <1>1 DEF SlotInv
<1>5. ASSUME NEW d \in Conns, current'[d] # NoUser PROVE Occupied(current[d])'
  <2>1. d # c /\ current'[d] = current[d]  BY <1>2, <1>3, <1>5
  <2>2. current[d] # current[c]  BY <1>5, <2>1 DEF SlotInv
  <2>3. PICK i \in Slots : active_sessions[i] = current[d]
    BY <1>5, <2>1 DEF SlotInv, Occupied
  <2>4. active_sessions'[i] = current'[d]  BY <1>1, <2>1, <2>2, <2>3
  <2> QED BY <2>4 DEF Occupied, Slots
<1>6. \A d, e \in Conns : d # e /\ current'[d] # NoUser => current'[d] # current'[e]
  BY <1>2, <1>3 DEF SlotInv
<1> QED BY <1>4, <1>5, <1>6 DEF SlotInv

\* A login that gets a free slot, for a user that has none.
LEMMA LoginKeepsSlots ==
  ASSUME TypeOK, SlotInv, NEW c \in Conns, NEW u \in Users, ~Occupied(u),
         NEW i \in Slots, active_sessions[i] = NoUser,
         active_sessions' = [active_sessions EXCEPT ![i] = u],
         current' = [current EXCEPT ![c] = u]
  PROVE  SlotInv'
<1>1. active_sessions'[i] = u /\ \A j \in Slots : j # i => active_sessions'[j] = active_sessions[j]
  BY DEF TypeOK
<1>2. current'[c] = u /\ \A d \in Conns : d # c => current'[d] = current[d]
  BY DEF TypeOK
<1>3. \A j \in Slots : active_sessions[j] # u
  BY DEF Occupied
<1>4. \A j, k \in Slots :
        active_sessions'[j] # NoUser /\ active_sessions'[j] = active_sessions'[k]
          => j = k
  BY <1>1, <1>3 DEF SlotInv
<1>5. ASSUME NEW d \in Conns, current'[d] # NoUser PROVE Occupied(current[d])'
  <2>1. CASE d = c
    BY <2>1, <1>1, <1>2 DEF Occupied, Slots
  <2>2. CASE d # c
    <3>1. PICK j \in Slots : active_sessions[j] = current[d]
      BY <1>2, <1>5, <2>2 DEF SlotInv, Occupied
    <3>2. j # i  BY <3>1, <1>2, <1>5, <2>2
    <3>3. active_sessions'[j] = current'[d]  BY <3>1, <3>2, <1>1, <1>2, <2>2
    <3> QED BY <3>3 DEF Occupied, Slots
  <2> QED BY <2>1, <2>2
<1>6. \A d \in Conns : d # c => current'[d] # u
  BY <1>2, <1>3, UsersAssumption DEF SlotInv, Occupied
<1>7. \A d, e \in Conns : d # e /\ current'[d] # NoUser => current'[d] # current'[e]
  BY <1>2, <1>6 DEF SlotInv
<1> QED BY <1>4, <1>5, <1>7 DEF SlotInv

\* Steps that change neither the table nor a current_userId.
LEMMA UntouchedSlots ==
  ASSUME SlotInv, UNCHANGED <<active_sessions, current>>
  PROVE  SlotInv'
BY DEF SlotInv, Occupied, Slots

\* Every step keeps the slots in order.
LEMMA NextKeepsSlots == TypeInv /\ SlotInv /\ [Next]_vars => SlotInv'
<1> SUFFICES ASSUME TypeInv, SlotInv, [Next]_vars PROVE SlotInv'  OBVIOUS
<1>0. TypeOK  BY DEF TypeInv
<1>1. CASE UNCHANGED vars
  BY <1>1, UntouchedSlots DEF vars
<1>2. ASSUME NEW c \in Conns, ClientStep(c) PROVE SlotInv'
  BY <1>2, UntouchedSlots
     DEF ClientStep, Connect, SendLogin, ReadAnswer, SendLogout, LeaveMenu, Leave
<1>3. ASSUME NEW c \in Conns, ServerStep(c) PROVE SlotInv'
  <2>1. CASE Lookup(c) \/ Compare(c)
    BY <2>1, UntouchedSlots DEF Lookup, Compare
  <2>2. CASE TakeSession(c)
    <3> DEFINE u == attempt[c].user
    <3>1. u \in Users  BY <2>2 DEF TypeInv, TakeSession
    <3>2. CASE UNCHANGED <<active_sessions, current>>
      BY <3>2, UntouchedSlots
    <3>3. CASE /\ ~Occupied(u)
               /\ \E i \in Slots :
                    /\ First(i, NoUser)
                    /\ active_sessions' = [active_sessions EXCEPT ![i] = u]
               /\ current' = [current EXCEPT ![c] = u]
      <4>1. PICK i \in Slots : /\ First(i, NoUser)
                               /\ active_sessions' = [active_sessions EXCEPT ![i] = u]
        BY <3>3
      <4>2. active_sessions[i] = NoUser  BY <4>1 DEF First
      <4> HIDE DEF u
      <4> QED BY <1>0, <3>1, <3>3, <4>1, <4>2, LoginKeepsSlots
    <3> QED BY <2>2, <3>2, <3>3 DEF TakeSession
  <2>3. CASE Logout(c)
    BY <2>3, <1>0, ReleaseKeepsSlots DEF Logout
  <2>4. CASE Cleanup(c)
    <3>1. CASE current[c] # NoUser
      BY <2>4, <3>1, <1>0, ReleaseKeepsSlots DEF Cleanup
    <3>2. CASE current[c] = NoUser
      <4>1. UNCHANGED <<active_sessions, current>>
        BY <2>4, <3>2, <1>0 DEF Cleanup, TypeOK
      <4> QED BY <4>1, UntouchedSlots
    <3> QED BY <3>1, <3>2
  <2> QED BY <1>3, <2>1, <2>2, <2>3, <2>4 DEF ServerStep
<1>4. ASSUME NEW u \in Customers, Toggle(u) PROVE SlotInv'
  BY <1>4, UntouchedSlots DEF Toggle
<1>5. CASE Restart
  BY <1>5 DEF Restart, SlotInv
<1> QED BY <1>1, <1>2, <1>3, <1>4, <1>5 DEF Next

\* server_init() leaves the table empty.
LEMMA InitSlots == Init => SlotInv
BY DEF Init, SlotInv

\* SlotInv says all that OwnSlot does.
LEMMA SlotsOwned == SlotInv => OwnSlot
BY DEF SlotInv, OwnSlot, Occupied

\* However many clients, users and slots there are, and whether or not the
\* table is full: the slot that remove_active_session() frees for a thread is
\* its own and no other thread relies on it.
THEOREM SlotsAreOwn == Spec => []OwnSlot
<1>1. Init => TypeInv /\ SlotInv  BY InitTyped, InitSlots
<1>2. TypeInv /\ SlotInv /\ [Next]_vars => (TypeInv /\ SlotInv)'
  BY NextTyped, NextKeepsSlots
<1>3. SlotInv => OwnSlot  BY SlotsOwned
<1> QED BY <1>1, <1>2, <1>3, PTL DEF Spec

-----------------------------------------------------------------------------
(* Single login, as long as the table has a slot for every user.           *)

EnoughSlots == IsFiniteSet(Users) /\ Cardinality(Users) <= MaxSessions

\* What a client believes is what its thread recorded.
ClientInv ==
  \A c \in Conns :
    /\ client[c] # NoUser =>
         /\ pc[c] \in {"menu", "logout", "logged_out"} /\ c \notin gone
         /\ pc[c] # "logged_out" => client[c] = current[c]
    /\ answer[c] # NoUser => pc[c] = "answered" /\ answer[c] = current[c]

\* The branch of LOGIN that answers SUCCESS without a slot is not reached:
\* MaxSessions users in distinct slots leave nobody to be without one.
LEMMA SlotLeft ==
  ASSUME TypeOK, SlotInv, EnoughSlots, NEW u \in Users, ~Occupied(u)
  PROVE  Occupied(NoUser)
<1> SUFFICES ASSUME ~Occupied(NoUser) PROVE FALSE  OBVIOUS
<1> DEFINE Others == Users \ {u}
<1>1. MaxSessions \in Nat \ {0}  BY SessionsAssumption
<1>2. IsFiniteSet(Others) /\ Cardinality(Others) = Cardinality(Users) - 1
  BY FS_RemoveElement DEF EnoughSlots
<1>3. IsFiniteSet(1..MaxSessions) /\ Cardinality(1..MaxSessions) = MaxSessions
  <2>1. 0 \in Int /\ MaxSessions \in Int /\ 1 \in Int  BY <1>1
  <2>2. /\ IsFiniteSet(1..MaxSessions)
        /\ Cardinality(1..MaxSessions) = IF 1 > MaxSessions THEN 0 ELSE MaxSessions - 1 + 1
    BY <2>1, FS_Interval
  <2> QED BY <2>2, <1>1
<1>4. \A i \in 1..MaxSessions : active_sessions[i] \in Others
  BY DEF Occupied, Slots, TypeOK
<1>5. active_sessions \in [1..MaxSessions -> Others]
  BY <1>4 DEF TypeOK, Slots
<1>6. \A i, j \in 1..MaxSessions : active_sessions[i] = active_sessions[j] => i = j
  BY <1>4, UsersAssumption DEF SlotInv, Slots
<1>7. active_sessions \in Injection(1..MaxSessions, Others)
  BY <1>5, <1>6 DEF Injection, IsInjective
<1>8. Cardinality(1..MaxSessions) <= Cardinality(Others)
  <2> HIDE DEF Others
  <2> QED BY <1>2, <1>3, <1>7, FS_Injection
<1>9. Cardinality(Users) \in Nat  BY FS_CardinalityType DEF EnoughSlots
<1> QED BY <1>1, <1>2, <1>3, <1>8, <1>9 DEF EnoughSlots

\* With a slot for everybody, a SUCCESS always comes with current_userId set.
LEMMA NextKeepsClients ==
  EnoughSlots /\ TypeInv /\ SlotInv /\ ClientInv /\ [Next]_vars => ClientInv'
<1> SUFFICES ASSUME EnoughSlots, TypeInv, SlotInv, ClientInv, [Next]_vars
             PROVE  ClientInv'
  OBVIOUS
<1> USE DEF Goto
<1>0. TypeOK  BY DEF TypeInv
<1>1. CASE UNCHANGED vars
  BY <1>1 DEF vars, ClientInv
<1>2. ASSUME NEW c \in Conns, ClientStep(c) PROVE ClientInv'
  <2>1. CASE Connect(c)
    BY <2>1, <1>0 DEF Connect, ClientInv, TypeOK
  <2>2. CASE SendLogin(c)
    BY <2>2, <1>0 DEF SendLogin, ClientInv, TypeOK
  <2>3. CASE ReadAnswer(c)
    BY <2>3, <1>0 DEF ReadAnswer, ClientInv, TypeOK
  <2>4. CASE SendLogout(c)
    BY <2>4, <1>0 DEF SendLogout, ClientInv, TypeOK
  <2>5. CASE LeaveMenu(c)
    BY <2>5, <1>0 DEF LeaveMenu, ClientInv, TypeOK
  <2>6. CASE Leave(c)
    BY <2>6, <1>0 DEF Leave, ClientInv, TypeOK
  <2> QED BY <1>2, <2>1, <2>2, <2>3, <2>4, <2>5, <2>6 DEF ClientStep
<1>3. ASSUME NEW c \in Conns, ServerStep(c) PROVE ClientInv'
  <2>1. CASE Lookup(c)
    BY <2>1, <1>0 DEF Lookup, ClientInv, TypeOK
  <2>2. CASE Compare(c)
    BY <2>2, <1>0 DEF Compare, ClientInv, TypeOK
  <2>3. CASE TakeSession(c)
    <3>1. attempt[c].user \in Users  BY <2>3 DEF TypeInv, TakeSession
    <3>2. ~Occupied(attempt[c].user) => Occupied(NoUser)
      BY <3>1, <1>0, SlotLeft
    <3>3. client[c] = NoUser /\ answer[c] = NoUser
      BY <2>3 DEF TakeSession, ClientInv
    <3>4. CASE UNCHANGED <<current, answer>>
      BY <2>3, <3>3, <3>4, <1>0 DEF TakeSession, ClientInv, TypeOK
    <3>5. CASE /\ current' = [current EXCEPT ![c] = attempt[c].user]
               /\ answer' = [answer EXCEPT ![c] = attempt[c].user]
      BY <2>3, <3>3, <3>5, <1>0 DEF TakeSession, ClientInv, TypeOK
    <3> QED BY <2>3, <3>2, <3>4, <3>5 DEF TakeSession
  <2>4. CASE Logout(c)
    BY <2>4, <1>0 DEF Logout, ClientInv, TypeOK
  <2>5. CASE Cleanup(c)
    BY <2>5, <1>0 DEF Cleanup, ClientInv, TypeOK
  <2> QED BY <1>3, <2>1, <2>2, <2>3, <2>4, <2>5 DEF ServerStep
<1>4. ASSUME NEW u \in Customers, Toggle(u) PROVE ClientInv'
  BY <1>4 DEF Toggle, ClientInv
<1>5. CASE Restart
  BY <1>5 DEF Restart, ClientInv
<1> QED BY <1>1, <1>2, <1>3, <1>4, <1>5 DEF Next

\* With a slot for every user, no user is logged in on two clients at once,
\* whatever the number of connections and however logins, role mismatches,
\* disconnections and restarts interleave.  (With fewer slots it is false.)
THEOREM SingleLoginHolds == EnoughSlots /\ Spec => []SingleLogin
<1> SUFFICES ASSUME EnoughSlots PROVE Spec => []SingleLogin  OBVIOUS
<1>1. Init => TypeInv /\ SlotInv /\ ClientInv
  BY InitTyped, InitSlots DEF Init, ClientInv
<1>2. TypeInv /\ SlotInv /\ ClientInv /\ [Next]_vars
        => (TypeInv /\ SlotInv /\ ClientInv)'
  BY NextTyped, NextKeepsSlots, NextKeepsClients
<1>3. SlotInv /\ ClientInv => SingleLogin
  BY UsersAssumption DEF SlotInv, ClientInv, SingleLogin, LoggedIn
<1> QED BY <1>1, <1>2, <1>3, PTL DEF Spec

-----------------------------------------------------------------------------
(* Lost slots.                                                             *)

\* Thread c forgets slot i, having logged in as somebody else.
ForgetsSlot(c, i) ==
  /\ current[c] = active_sessions[i]
  /\ current'[c] \notin {current[c], NoUser}

\* What OrphanOnlyByRelogin says of a step.
LosesOnlyByRelogin ==
  \A i \in Slots : ~Orphaned(i) /\ Orphaned(i)' => \E c \in Conns : ForgetsSlot(c, i)

\* Nothing is lost where neither the table nor a current_userId changes.
LEMMA UntouchedLosesNothing ==
  ASSUME UNCHANGED <<active_sessions, current>>
  PROVE  LosesOnlyByRelogin
BY DEF LosesOnlyByRelogin, Orphaned

\* LOGOUT and the clean-up give back the one slot their thread holds: since
\* no other slot holds the same user, none is left behind.
LEMMA ReleaseLosesNothing ==
  ASSUME TypeOK, SlotInv, NEW c \in Conns,
         remove_active_session(current[c]),
         current' = [current EXCEPT ![c] = NoUser]
  PROVE  LosesOnlyByRelogin
<1> SUFFICES ASSUME NEW i \in Slots, ~Orphaned(i), Orphaned(i)'  PROVE FALSE
  BY DEF LosesOnlyByRelogin
<1>1. \A j \in Slots : \/ active_sessions'[j] = active_sessions[j]
                       \/ active_sessions'[j] = NoUser
  BY DEF remove_active_session, TypeOK
<1>2. active_sessions'[i] = active_sessions[i] /\ active_sessions[i] # NoUser
  BY <1>1 DEF Orphaned
<1>3. PICK d \in Conns : current[d] = active_sessions[i]
  BY <1>2 DEF Orphaned
<1>4. d = c
  BY <1>2, <1>3 DEF Orphaned, TypeOK
<1>5. PICK k \in Slots : /\ active_sessions[k] = current[c]
                         /\ active_sessions' = [active_sessions EXCEPT ![k] = NoUser]
  BY <1>3, <1>4 DEF remove_active_session, First, Occupied
<1>6. k = i
  BY <1>2, <1>3, <1>4, <1>5 DEF SlotInv
<1> QED BY <1>2, <1>5, <1>6 DEF TypeOK

\* A LOGIN that gets a slot loses at most the slot its thread held before.
LEMMA LoginLosesOwnSlot ==
  ASSUME TypeOK, NEW c \in Conns, NEW u \in Users, ~Occupied(u),
         NEW k \in Slots,
         active_sessions' = [active_sessions EXCEPT ![k] = u],
         current' = [current EXCEPT ![c] = u]
  PROVE  LosesOnlyByRelogin
<1> SUFFICES ASSUME NEW i \in Slots, ~Orphaned(i), Orphaned(i)'
             PROVE  ForgetsSlot(c, i)
  BY DEF LosesOnlyByRelogin
<1>1. current'[c] = u /\ \A d \in Conns : d # c => current'[d] = current[d]
  BY DEF TypeOK
<1>2. i # k
  BY <1>1 DEF Orphaned, TypeOK
<1>3. active_sessions'[i] = active_sessions[i] /\ active_sessions[i] # NoUser
  BY <1>2 DEF Orphaned, TypeOK
<1>4. PICK d \in Conns : current[d] = active_sessions[i]
  BY <1>3 DEF Orphaned
<1>5. d = c
  BY <1>1, <1>3, <1>4 DEF Orphaned
<1>6. u # active_sessions[i] /\ u # NoUser
  BY UsersAssumption DEF Occupied
<1> QED BY <1>1, <1>4, <1>5, <1>6 DEF ForgetsSlot

\* Every step loses slots by a second LOGIN only.
LEMMA NextLosesByRelogin == TypeInv /\ SlotInv /\ [Next]_vars => LosesOnlyByRelogin
<1> SUFFICES ASSUME TypeInv, SlotInv, [Next]_vars PROVE LosesOnlyByRelogin  OBVIOUS
<1>0. TypeOK  BY DEF TypeInv
<1>1. CASE UNCHANGED vars
  BY <1>1, UntouchedLosesNothing DEF vars
<1>2. ASSUME NEW c \in Conns, ClientStep(c) PROVE LosesOnlyByRelogin
  BY <1>2, UntouchedLosesNothing
     DEF ClientStep, Connect, SendLogin, ReadAnswer, SendLogout, LeaveMenu, Leave
<1>3. ASSUME NEW c \in Conns, ServerStep(c) PROVE LosesOnlyByRelogin
  <2>1. CASE Lookup(c) \/ Compare(c)
    BY <2>1, UntouchedLosesNothing DEF Lookup, Compare
  <2>2. CASE TakeSession(c)
    <3> DEFINE u == attempt[c].user
    <3>1. u \in Users  BY <2>2 DEF TypeInv, TakeSession
    <3>2. CASE UNCHANGED <<active_sessions, current>>
      BY <3>2, UntouchedLosesNothing
    <3>3. CASE /\ ~Occupied(u)
               /\ \E k \in Slots : active_sessions' = [active_sessions EXCEPT ![k] = u]
               /\ current' = [current EXCEPT ![c] = u]
      <4>1. PICK k \in Slots : active_sessions' = [active_sessions EXCEPT ![k] = u]
        BY <3>3
      <4> HIDE DEF u
      <4> QED BY <1>0, <3>1, <3>3, <4>1, LoginLosesOwnSlot
    <3> QED BY <2>2, <3>2, <3>3 DEF TakeSession
  <2>3. CASE Logout(c)
    BY <2>3, <1>0, ReleaseLosesNothing DEF Logout
  <2>4. CASE Cleanup(c)
    <3>1. CASE current[c] # NoUser
      BY <2>4, <3>1, <1>0, ReleaseLosesNothing DEF Cleanup
    <3>2. CASE current[c] = NoUser
      <4>1. UNCHANGED <<active_sessions, current>>
        BY <2>4, <3>2, <1>0 DEF Cleanup, TypeOK
      <4> QED BY <4>1, UntouchedLosesNothing
    <3> QED BY <3>1, <3>2
  <2> QED BY <1>3, <2>1, <2>2, <2>3, <2>4 DEF ServerStep
<1>4. ASSUME NEW u \in Customers, Toggle(u) PROVE LosesOnlyByRelogin
  BY <1>4, UntouchedLosesNothing DEF Toggle
<1>5. CASE Restart
  BY <1>5 DEF Restart, LosesOnlyByRelogin, Orphaned
<1> QED BY <1>1, <1>2, <1>3, <1>4, <1>5 DEF Next

\* A slot of active_sessions is lost (held for a user whom no thread will log
\* out) only when a thread that holds it logs in as somebody else; logging
\* out, vanishing clients, a full table and restarts lose none.
THEOREM SlotsLostByReloginOnly == Spec => OrphanOnlyByRelogin
<1>1. Init => TypeInv /\ SlotInv  BY InitTyped, InitSlots
<1>2. TypeInv /\ SlotInv /\ [Next]_vars => (TypeInv /\ SlotInv)'
  BY NextTyped, NextKeepsSlots
<1>3. TypeInv /\ SlotInv /\ [Next]_vars =>
        [ \A i \in Slots : ~Orphaned(i) /\ Orphaned(i)' =>
            \E c \in Conns : /\ current[c] = active_sessions[i]
                             /\ current'[c] \notin {current[c], NoUser} ]_vars
  BY NextLosesByRelogin DEF LosesOnlyByRelogin, ForgetsSlot
<1> QED BY <1>1, <1>2, <1>3, PTL DEF Spec, OrphanOnlyByRelogin
=============================================================================
