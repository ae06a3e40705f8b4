--------------------------- MODULE FeedbackProofs ---------------------------
(***************************************************************************)
(* Proofs about Feedback, for every set of threads, every way in which     *)
(* they may belong to processes and every bound.                           *)
(***************************************************************************)
EXTENDS Feedback, FiniteSetTheorems, TLAPS

-----------------------------------------------------------------------------
(* Lemmas about the operators the model is built from.                     *)

\* Granting and dropping locks leaves a lock table.
LEMMA LockTyped ==
  ASSUME NEW R, NEW tab \in LockTable(R), NEW S, NEW p \in Procs
  PROVE  /\ Lock(tab, S, p) \in LockTable(R)
         /\ Close(tab, p) \in LockTable(R)
         /\ ReadOnlyPass(tab, p) \in LockTable(R)
BY DEF LockTable, Lock, Close, ReadOnlyPass

\* The same for the lock table of feedback.db.
LEMMA FbLockTyped ==
  ASSUME TypeOK, NEW t \in Threads, NEW S,
         fbLock' \in {fbLock, Lock(fbLock, S, procOf[t]), Close(fbLock, procOf[t]),
                      ReadOnlyPass(fbLock, procOf[t])}
  PROVE  fbLock' \in LockTable(Positions)
<1>1. fbLock \in LockTable(Positions) /\ procOf[t] \in Procs
  BY RegimesAssumption DEF TypeOK
<1> QED BY <1>1, LockTyped

Steps == {"recv", "view", "seek", "append", "lock", "read", "mark", "unlock", "send"}

\* The thread t goes on at s with these locals; the others stay.
Moves(t, s, m, n, p, rec, l) ==
  /\ pc' = [pc EXCEPT ![t] = s]
  /\ msg' = [msg EXCEPT ![t] = m]
  /\ id' = [id EXCEPT ![t] = n]
  /\ pos' = [pos EXCEPT ![t] = p]
  /\ fb' = [fb EXCEPT ![t] = rec]
  /\ lines' = [lines EXCEPT ![t] = l]

\* Where a move leaves the thread and the others.
LEMMA Moved ==
  ASSUME TypeOK, NEW t \in Threads, NEW s, NEW m, NEW n, NEW p, NEW rec, NEW l,
         Moves(t, s, m, n, p, rec, l)
  PROVE  /\ pc'[t] = s /\ msg'[t] = m /\ id'[t] = n /\ pos'[t] = p /\ fb'[t] = rec
         /\ lines'[t] = l
         /\ \A u \in Threads \ {t} :
              /\ pc'[u] = pc[u] /\ msg'[u] = msg[u] /\ id'[u] = id[u]
              /\ pos'[u] = pos[u] /\ fb'[u] = fb[u] /\ lines'[u] = lines[u]
BY DEF Moves, TypeOK

\* The end of a handler.
LEMMA ReturnMoves ==
  ASSUME NEW t \in Threads, Return(t)
  PROVE  Moves(t, "recv", 0, 0, 0, NoRecord, {})
BY DEF Return, Goto, Moves

\* A jump that leaves the locals alone.
LEMMA GotoMoves ==
  ASSUME TypeOK, NEW t \in Threads, NEW s, Goto(t, s), UNCHANGED locals
  PROVE  Moves(t, s, msg[t], id[t], pos[t], fb[t], lines[t])
BY DEF TypeOK, Goto, Moves, locals

-----------------------------------------------------------------------------
(* Type correctness.  Flow says which locals go with the next system call  *)
(* of a thread; Numbered that the messages in the file are some of those   *)
(* handed in; Counted that the file has room for those under way.          *)

Flowing(s, m, p, rec, l, handed, length) ==
  /\ s \in {"seek", "append"} => m \in 1..handed
  /\ s = "mark" => p + 1 \in 1..length /\ rec.message \in 1..handed
  /\ p \in 0..length
  /\ s \in {"recv", "view", "seek", "append", "lock"} => l = {}

Flow == \A t \in Threads :
          Flowing(pc[t], msg[t], pos[t], fb[t], lines[t], added, Len(feedback))

Numbered == \A i \in DOMAIN feedback : feedback[i].message \in 1..added

\* The messages not yet written.
Adding == {t \in Threads : pc[t] \in {"seek", "append"}}

Counted ==
  /\ IsFiniteSet(Adding)
  /\ Len(feedback) + Cardinality(Adding) <= added
  /\ added <= MaxMessages

TypeInv == TypeOK /\ Flow /\ Numbered /\ Counted

\* The numbers of messages handed in.
LEMMA Handed ==
  ASSUME TypeInv
  PROVE  /\ added \in Nat /\ Len(feedback) \in Nat /\ Len(feedback) <= added
         /\ added <= MaxMessages /\ \A m \in 1..added : m \in Positions
         /\ feedback \in Seq(FbRec)
<1>1. added \in Nat /\ Len(feedback) \in Nat /\ added <= MaxMessages
  BY DEF TypeInv, TypeOK, Counted
<1>2. Cardinality(Adding) \in Nat
  BY FS_CardinalityType DEF TypeInv, Counted
<1> QED BY <1>1, <1>2, BoundsAssumption DEF TypeInv, TypeOK, Counted, Positions

\* A message under way has room in feedback.db.
LEMMA RoomToAppend ==
  ASSUME TypeInv, NEW t \in Threads, pc[t] \in {"seek", "append"}
  PROVE  /\ Len(feedback) < MaxMessages
         /\ Len(feedback) + 1 \in Positions
         /\ 1 \in Positions
<1>1. t \in Adding
  BY DEF Adding
<1>2. Cardinality(Adding) \in Nat /\ Cardinality(Adding) # 0
  BY <1>1, FS_EmptySet, FS_CardinalityType DEF TypeInv, Counted
<1> QED BY <1>2, Handed, BoundsAssumption DEF TypeInv, Counted, Positions

\* A move to a place that goes with its locals keeps types and control flow.
LEMMA MovesTyped ==
  ASSUME TypeInv, NEW t \in Threads, NEW s \in Steps, NEW m \in 0..MaxMessages,
         NEW n \in Nat, NEW p \in 0..MaxMessages, NEW rec \in FbRec,
         NEW l \in SUBSET Positions,
         Moves(t, s, m, n, p, rec, l),
         added' \in Nat, Len(feedback') \in Nat,
         added <= added', Len(feedback) <= Len(feedback'),
         Flowing(s, m, p, rec, l, added', Len(feedback'))
  PROVE  /\ pc' \in [Threads -> Steps]
         /\ msg' \in [Threads -> 0..MaxMessages]
         /\ id' \in [Threads -> Nat]
         /\ pos' \in [Threads -> 0..MaxMessages]
         /\ fb' \in [Threads -> FbRec]
         /\ lines' \in [Threads -> SUBSET Positions]
         /\ Flow'
<1>1. /\ pc' \in [Threads -> Steps]
      /\ msg' \in [Threads -> 0..MaxMessages]
      /\ id' \in [Threads -> Nat]
      /\ pos' \in [Threads -> 0..MaxMessages]
  BY DEF Moves, TypeInv, TypeOK, Steps
<1>2. /\ fb' \in [Threads -> FbRec]
      /\ lines' \in [Threads -> SUBSET Positions]
  BY DEF Moves, TypeInv, TypeOK
<1>3. ASSUME NEW u \in Threads
      PROVE  Flowing(pc'[u], msg'[u], pos'[u], fb'[u], lines'[u], added', Len(feedback'))
  <2>1. CASE u = t
    BY <2>1, Moved DEF TypeInv
  <2>2. CASE u # t
    <3>1. Flowing(pc[u], msg[u], pos[u], fb[u], lines[u], added, Len(feedback))
      BY DEF TypeInv, Flow
    <3>2. pos[u] \in 0..MaxMessages
      BY DEF TypeInv, TypeOK
    <3>3. Flowing(pc[u], msg[u], pos[u], fb[u], lines[u], added', Len(feedback'))
      BY <3>1, <3>2, Handed, BoundsAssumption DEF Flowing
    <3> QED BY <2>2, <3>3, Moved DEF TypeInv
  <2> QED BY <2>1, <2>2
<1>4. Flow'
  BY <1>3 DEF Flow
<1> QED BY <1>1, <1>2, <1>4

\* A step that starts no message leaves no more of them under way.
LEMMA CountedKept ==
  ASSUME TypeInv, Adding' \subseteq Adding, Len(feedback') = Len(feedback), added' = added
  PROVE  Counted'
<1>1. /\ IsFiniteSet(Adding')
      /\ Cardinality(Adding') <= Cardinality(Adding)
  BY FS_Subset DEF TypeInv, Counted
<1>2. Cardinality(Adding') \in Nat /\ Cardinality(Adding) \in Nat
  BY <1>1, FS_CardinalityType DEF TypeInv, Counted
<1> QED BY <1>1, <1>2, Handed, BoundsAssumption DEF TypeInv, Counted

\* A step of a thread that adds no record and starts no message.
LEMMA MovesTypeInv ==
  ASSUME TypeInv, NEW t \in Threads, NEW s \in Steps, NEW m \in 0..MaxMessages,
         NEW n \in Nat, NEW p \in 0..MaxMessages, NEW rec \in FbRec,
         NEW l \in SUBSET Positions,
         Moves(t, s, m, n, p, rec, l),
         s \in {"seek", "append"} => pc[t] \in {"seek", "append"},
         Flowing(s, m, p, rec, l, added, Len(feedback)),
         fbLock' \in LockTable(Positions), feedback' = feedback,
         acked' \subseteq Positions, shown' \in [Positions -> Nat], overflow' \in BOOLEAN,
         served' \in Nat, trouble' \in Nat, UNCHANGED <<procOf, added>>
  PROVE  TypeInv'
<1>0. /\ added' \in Nat /\ added <= added'
      /\ Len(feedback') \in Nat /\ Len(feedback) <= Len(feedback')
      /\ Flowing(s, m, p, rec, l, added', Len(feedback'))
  BY Handed
<1>1. /\ pc' \in [Threads -> Steps]
      /\ msg' \in [Threads -> 0..MaxMessages]
      /\ id' \in [Threads -> Nat]
      /\ pos' \in [Threads -> 0..MaxMessages]
      /\ fb' \in [Threads -> FbRec]
      /\ lines' \in [Threads -> SUBSET Positions]
      /\ Flow'
  BY <1>0, MovesTyped
<1>2. TypeOK'
  BY <1>1 DEF TypeInv, TypeOK, Steps
<1>3. Adding' \subseteq Adding
  BY Moved DEF Adding, TypeInv
<1>4. Counted'
  BY <1>3, CountedKept
<1>5. Numbered'
  BY DEF TypeInv, Numbered
<1> QED BY <1>1, <1>2, <1>4, <1>5 DEF TypeInv

\* The initial state is typed; nothing is under way.
LEMMA InitTyped == Init => TypeInv
<1> SUFFICES ASSUME Init PROVE TypeInv  OBVIOUS
<1>1. fbLock \in LockTable(Positions) /\ NoRecord \in FbRec
  BY DEF Init, Unlocked, LockTable, NoRecord, FbRec
<1>2. TypeOK
  <2>1. /\ procOf \in Regimes /\ feedback \in Seq(FbRec) /\ Len(feedback) <= MaxMessages
        /\ pc \in [Threads -> {"recv", "view", "seek", "append", "lock", "read", "mark",
                               "unlock", "send"}]
    BY BoundsAssumption DEF Init
  <2>2. /\ msg \in [Threads -> 0..MaxMessages] /\ id \in [Threads -> Nat]
        /\ pos \in [Threads -> 0..MaxMessages] /\ fb \in [Threads -> FbRec]
        /\ lines \in [Threads -> SUBSET Positions]
    BY <1>1, BoundsAssumption DEF Init
  <2>3. /\ served \in Nat /\ added \in Nat /\ trouble \in Nat
        /\ acked \subseteq Positions /\ shown \in [Positions -> Nat]
    BY DEF Init
  <2>4. overflow \in BOOLEAN
    BY DEF Init
  <2> QED BY <1>1, <2>1, <2>2, <2>3, <2>4 DEF TypeOK
<1>3. Flow /\ Numbered
  BY DEF Init, Flow, Flowing, Numbered
<1>4. Adding = {}
  BY DEF Init, Adding
<1>5. Counted
  BY <1>4, FS_EmptySet, BoundsAssumption DEF Counted, Init
<1> QED BY <1>2, <1>3, <1>5 DEF TypeInv

\* The locals of a thread.
LEMMA Locals ==
  ASSUME TypeInv, NEW t \in Threads
  PROVE  /\ msg[t] \in 0..MaxMessages /\ id[t] \in Nat /\ pos[t] \in 0..MaxMessages
         /\ fb[t] \in FbRec /\ lines[t] \in SUBSET Positions
         /\ Flowing(pc[t], msg[t], pos[t], fb[t], lines[t], added, Len(feedback))
BY DEF TypeInv, TypeOK, Flow

\* What ends a handler keeps types and control flow.
LEMMA ReturnTyped ==
  ASSUME TypeInv, NEW t \in Threads, Return(t),
         fbLock' \in LockTable(Positions), feedback' = feedback,
         acked' \subseteq Positions, shown' \in [Positions -> Nat], overflow' \in BOOLEAN,
         served' \in Nat, trouble' \in Nat, UNCHANGED <<procOf, added>>
  PROVE  TypeInv'
<1>1. Moves(t, "recv", 0, 0, 0, NoRecord, {})
  BY ReturnMoves
<1>2. Flowing("recv", 0, 0, NoRecord, {}, added, Len(feedback))
  BY Handed DEF Flowing
<1>3. "recv" \in Steps /\ NoRecord \in FbRec /\ 0 \in 0..MaxMessages
  BY BoundsAssumption DEF Steps, NoRecord, FbRec
<1> QED BY <1>1, <1>2, <1>3, MovesTypeInv

\* What stays of TypeOK when no file and no history changes.
LEMMA GotoTyped ==
  ASSUME TypeInv, NEW t \in Threads, NEW s \in Steps \ {"seek", "append"},
         Goto(t, s), UNCHANGED locals,
         Flowing(s, msg[t], pos[t], fb[t], lines[t], added, Len(feedback)),
         fbLock' \in LockTable(Positions), trouble' \in Nat,
         UNCHANGED <<procOf, feedback, served, added, ghosts>>
  PROVE  TypeInv'
<1>1. Moves(t, s, msg[t], id[t], pos[t], fb[t], lines[t])
  BY GotoMoves DEF TypeInv
<1>2. /\ acked' \subseteq Positions /\ shown' \in [Positions -> Nat]
      /\ overflow' \in BOOLEAN /\ served' \in Nat
  BY DEF ghosts, TypeInv, TypeOK
<1> QED BY <1>1, <1>2, Locals, MovesTypeInv

\* A message is counted when it is handed in.
LEMMA ReceiveTyped ==
  ASSUME TypeInv, NEW t \in Threads, Receive(t)
  PROVE  TypeInv'
<1> USE DEF ghosts
<1>1. /\ pc[t] = "recv" /\ lines[t] = {} /\ pos[t] \in 0..Len(feedback)
      /\ served' \in Nat /\ fbLock' \in LockTable(Positions)
      /\ acked' \subseteq Positions /\ shown' \in [Positions -> Nat]
      /\ overflow' \in BOOLEAN /\ trouble' \in Nat
      /\ UNCHANGED <<procOf, feedback>>
  BY Locals DEF Receive, TypeInv, TypeOK, Flowing
<1>2. CASE add_feedback(t)
  <2>1. Moves(t, "seek", added + 1, id[t], pos[t], fb[t], lines[t])
    BY <1>2 DEF Receive, add_feedback, Goto, Moves, TypeInv, TypeOK
  <2>2. /\ added < MaxMessages /\ added' = added + 1 /\ added' \in Nat /\ added \in Nat
        /\ added <= added' /\ Len(feedback') \in Nat /\ Len(feedback) <= Len(feedback')
        /\ added + 1 \in 0..MaxMessages
    BY <1>1, <1>2, Handed, BoundsAssumption DEF add_feedback
  <2>3. Flowing("seek", added + 1, pos[t], fb[t], lines[t], added', Len(feedback'))
        /\ "seek" \in Steps
    BY <1>1, <2>2 DEF Flowing, Steps
  <2>4. /\ pc' \in [Threads -> Steps]
        /\ msg' \in [Threads -> 0..MaxMessages]
        /\ id' \in [Threads -> Nat]
        /\ pos' \in [Threads -> 0..MaxMessages]
        /\ fb' \in [Threads -> FbRec]
        /\ lines' \in [Threads -> SUBSET Positions]
        /\ Flow'
    BY <2>1, <2>2, <2>3, Locals, MovesTyped
  <2>5. TypeOK'
    BY <1>1, <2>2, <2>4 DEF TypeInv, TypeOK, Steps
  <2>6. Numbered'
    BY <1>1, <2>2 DEF TypeInv, Numbered
  <2>7. Counted'
    <3>1. Adding' = Adding \cup {t} /\ t \notin Adding
      BY <1>1, <2>1, Moved DEF Adding, TypeInv
    <3>2. /\ IsFiniteSet(Adding')
          /\ Cardinality(Adding') = Cardinality(Adding) + 1
      BY <3>1, FS_AddElement DEF TypeInv, Counted
    <3>3. Cardinality(Adding) \in Nat
      BY FS_CardinalityType DEF TypeInv, Counted
    <3> QED BY <1>1, <2>2, <3>2, <3>3, Handed, BoundsAssumption DEF TypeInv, Counted
  <2> QED BY <2>4, <2>5, <2>6, <2>7 DEF TypeInv
<1>3. CASE view_feedback_status(t) \/ review_feedbacks(t)
  <2>1. PICK s \in {"view", "lock"} : Goto(t, s) /\ UNCHANGED <<added, msg>>
    BY <1>3 DEF view_feedback_status, review_feedbacks
  <2>2. Moves(t, s, msg[t], id[t], pos[t], fb[t], lines[t])
    BY <2>1, GotoMoves DEF Receive, locals, TypeInv
  <2>3. Flowing(s, msg[t], pos[t], fb[t], lines[t], added, Len(feedback)) /\ s \in Steps
    BY <1>1, <2>1 DEF Flowing, Steps
  <2> QED BY <1>1, <2>1, <2>2, <2>3, Locals, MovesTypeInv
<1> QED BY <1>2, <1>3 DEF Receive

\* The id of a message is computed, with the lock or without.
LEMMA ComputesIdTyped ==
  ASSUME TypeInv, NEW t \in Threads, pc[t] = "seek", Goto(t, "append"),
         id' = [id EXCEPT ![t] = NextId(t)], fbLock' \in LockTable(Positions),
         trouble' \in Nat,
         UNCHANGED <<procOf, feedback, msg, pos, fb, lines, served, added, ghosts>>
  PROVE  TypeInv'
<1>1. Moves(t, "append", msg[t], Len(feedback) + 1, pos[t], fb[t], lines[t])
  BY DEF Goto, Moves, NextId, TypeInv, TypeOK
<1>2. Flowing("append", msg[t], pos[t], fb[t], lines[t], added, Len(feedback))
  BY Locals DEF Flowing
<1>3. /\ acked' \subseteq Positions /\ shown' \in [Positions -> Nat]
      /\ overflow' \in BOOLEAN /\ served' \in Nat
      /\ "append" \in Steps /\ Len(feedback) + 1 \in Nat
  BY Handed DEF ghosts, TypeInv, TypeOK, Steps
<1> QED BY <1>1, <1>2, <1>3, Locals, MovesTypeInv

\* An append takes the place that was counted for it.
LEMMA AppendTyped ==
  ASSUME TypeInv, NEW t \in Threads, AppendFeedback(t)
  PROVE  TypeInv'
<1>1. msg[t] \in 1..added /\ msg[t] \in Positions /\ id[t] \in Nat /\ pc[t] = "append"
  BY Locals, Handed DEF AppendFeedback, Flowing
<1>2. NewRecord(t) \in FbRec /\ NewRecord(t).message = msg[t]
  BY <1>1 DEF NewRecord, FbRec
<1>3. feedback' = Append(feedback, NewRecord(t)) /\ feedback \in Seq(FbRec)
  BY DEF AppendFeedback, PutAtEnd, TypeInv, TypeOK
<1>4. /\ feedback' \in Seq(FbRec) /\ Len(feedback') = Len(feedback) + 1
      /\ Len(feedback') \in Nat /\ Len(feedback) <= Len(feedback')
      /\ added' = added /\ added' \in Nat /\ added <= added'
  BY <1>2, <1>3, Handed DEF AppendFeedback, counts
<1>5. Len(feedback') <= MaxMessages
  BY <1>1, <1>4, RoomToAppend, Handed, BoundsAssumption
<1>6. Moves(t, "recv", 0, 0, 0, NoRecord, {})
  BY ReturnMoves DEF AppendFeedback
<1>7. /\ Flowing("recv", 0, 0, NoRecord, {}, added', Len(feedback'))
      /\ "recv" \in Steps /\ NoRecord \in FbRec /\ 0 \in 0..MaxMessages
  BY <1>4, BoundsAssumption DEF Flowing, Steps, NoRecord, FbRec
<1>8. /\ pc' \in [Threads -> Steps]
      /\ msg' \in [Threads -> 0..MaxMessages]
      /\ id' \in [Threads -> Nat]
      /\ pos' \in [Threads -> 0..MaxMessages]
      /\ fb' \in [Threads -> FbRec]
      /\ lines' \in [Threads -> SUBSET Positions]
      /\ Flow'
  BY <1>4, <1>6, <1>7, MovesTyped
<1>9. fbLock' \in LockTable(Positions)
  BY FbLockTyped DEF AppendFeedback, TypeInv
<1>10. /\ acked' \subseteq Positions /\ served' \in Nat /\ trouble' \in Nat
       /\ UNCHANGED <<procOf, shown, overflow>>
  BY <1>1 DEF AppendFeedback, counts, TypeInv, TypeOK
<1>11. TypeOK'
  BY <1>4, <1>5, <1>8, <1>9, <1>10 DEF TypeInv, TypeOK, Steps
<1>12. Numbered'
  <2>1. \A i \in DOMAIN feedback' : \/ i \in DOMAIN feedback /\ feedback'[i] = feedback[i]
                                    \/ feedback'[i] = NewRecord(t)
    BY <1>2, <1>3
  <2> QED BY <1>1, <1>2, <1>4, <2>1 DEF TypeInv, Numbered
<1>13. Counted'
  <2>1. Adding' = Adding \ {t} /\ t \in Adding
    BY <1>1, <1>6, Moved DEF Adding, TypeInv
  <2>2. /\ IsFiniteSet(Adding')
        /\ Cardinality(Adding') = Cardinality(Adding) - 1
    BY <2>1, FS_RemoveElement DEF TypeInv, Counted
  <2>3. Cardinality(Adding) \in Nat
    BY FS_CardinalityType DEF TypeInv, Counted
  <2> QED BY <1>4, <2>2, <2>3, Handed, BoundsAssumption DEF TypeInv, Counted
<1> QED BY <1>8, <1>11, <1>12, <1>13 DEF TypeInv

\* The loop over the records keeps types and control flow.
LEMMA ReadNextTyped ==
  ASSUME TypeInv, NEW t \in Threads, ReadNext(t)
  PROVE  TypeInv'
<1> DEFINE next == pos[t] + 1
<1>1. /\ fbLock' \in LockTable(Positions) /\ acked' \subseteq Positions
      /\ shown' \in [Positions -> Nat] /\ served' \in Nat /\ trouble' \in Nat
      /\ feedback' = feedback /\ UNCHANGED <<procOf, added, msg, id>>
      /\ pc[t] = "read"
  BY DEF ReadNext, counts, TypeInv, TypeOK
<1>2. overflow' \in BOOLEAN
  <2>1. overflow' = overflow \/ overflow' = TRUE
    BY DEF ReadNext
  <2> QED BY <2>1 DEF TypeInv, TypeOK
<1>3. pos[t] \in 0..MaxMessages /\ pos[t] \in 0..Len(feedback)
  BY Locals DEF Flowing
<1>4. next <= Len(feedback) =>
        /\ next \in 1..Len(feedback) /\ next \in 0..MaxMessages
        /\ feedback[next] \in FbRec /\ feedback[next].message \in Positions
        /\ feedback[next].message \in 1..added
  <2> HAVE next <= Len(feedback)
  <2>1. next \in 1..Len(feedback) /\ next \in DOMAIN feedback
    BY <1>3, Handed
  <2>2. next \in 0..MaxMessages
    BY <1>3, <2>1, Handed, BoundsAssumption
  <2> QED BY <2>1, <2>2, Handed DEF TypeInv, Numbered
<1>5. CASE /\ next <= Len(feedback) /\ pos' = [pos EXCEPT ![t] = next]
           /\ UNCHANGED <<pc, fb, lines, overflow>>
  <2>1. Moves(t, "read", msg[t], id[t], next, fb[t], lines[t])
    BY <1>1, <1>5 DEF Moves, TypeInv, TypeOK
  <2>2. Flowing("read", msg[t], next, fb[t], lines[t], added, Len(feedback)) /\ "read" \in Steps
    BY <1>4, <1>5 DEF Flowing, Steps
  <2> HIDE DEF next
  <2> QED BY <1>1, <1>2, <1>4, <1>5, <2>1, <2>2, Locals, MovesTypeInv
<1>6. ASSUME next <= Len(feedback), fb' = [fb EXCEPT ![t] = feedback[next]],
             NEW l \in SUBSET Positions, lines' = [lines EXCEPT ![t] = l],
             Goto(t, "mark"), UNCHANGED pos
      PROVE  TypeInv'
  <2>1. Moves(t, "mark", msg[t], id[t], pos[t], feedback[next], l)
    BY <1>1, <1>6 DEF Moves, Goto, TypeInv, TypeOK
  <2>2. Flowing("mark", msg[t], pos[t], feedback[next], l, added, Len(feedback)) /\ "mark" \in Steps
    BY <1>3, <1>4, <1>6 DEF Flowing, Steps
  <2> HIDE DEF next
  <2> QED BY <1>1, <1>2, <1>4, <1>6, <2>1, <2>2, Locals, MovesTypeInv
<1>7. CASE Goto(t, "unlock") /\ UNCHANGED <<pos, fb, lines, overflow>>
  <2>1. Moves(t, "unlock", msg[t], id[t], pos[t], fb[t], lines[t])
    BY <1>1, <1>7, GotoMoves DEF locals, TypeInv
  <2>2. Flowing("unlock", msg[t], pos[t], fb[t], lines[t], added, Len(feedback))
        /\ "unlock" \in Steps
    BY <1>3 DEF Flowing, Steps
  <2> QED BY <1>1, <1>2, <2>1, <2>2, Locals, MovesTypeInv
<1>8. CASE /\ next <= Len(feedback) /\ fb' = [fb EXCEPT ![t] = feedback[next]]
           /\ \/ lines' = [lines EXCEPT ![t] = @ \cup {feedback[next].message}]
              \/ UNCHANGED lines
           /\ Goto(t, "mark") /\ UNCHANGED pos
  <2>1. lines[t] \in SUBSET Positions
        /\ lines[t] \cup {feedback[next].message} \in SUBSET Positions
    BY <1>4, <1>8, Locals
  <2>2. lines = [lines EXCEPT ![t] = lines[t]]
    BY DEF TypeInv, TypeOK
  <2> QED BY <1>6, <1>8, <2>1, <2>2
<1> QED BY <1>5, <1>7, <1>8 DEF ReadNext

\* What a mark does to feedback.db.
LEMMA MarkWrites ==
  ASSUME TypeInv, NEW t \in Threads, MarkReviewed(t)
  PROVE  /\ pos[t] + 1 \in DOMAIN feedback /\ pos[t] + 1 \in Positions
         /\ pos[t] + 1 \in 0..MaxMessages
         /\ feedback' \in Seq(FbRec) /\ Len(feedback') = Len(feedback)
         /\ DOMAIN feedback' = DOMAIN feedback
         /\ \A i \in DOMAIN feedback : i # pos[t] + 1 => feedback'[i] = feedback[i]
         /\ feedback'[pos[t] + 1] = [fb[t] EXCEPT !.reviewed = TRUE]
         /\ feedback'[pos[t] + 1].message = fb[t].message
         /\ feedback'[pos[t] + 1].fb_id = fb[t].fb_id
         /\ feedback'[pos[t] + 1].reviewed = TRUE
         /\ Moves(t, "read", msg[t], id[t], pos[t] + 1, fb[t], lines[t])
         /\ fb[t].message \in 1..added
<1>1. /\ pos[t] + 1 \in 1..Len(feedback) /\ pos[t] \in 0..MaxMessages
      /\ fb[t] \in FbRec /\ fb[t].message \in 1..added
  BY Locals DEF MarkReviewed, Flowing
<1>2. pos[t] + 1 \in Positions /\ pos[t] + 1 \in 0..MaxMessages
  BY <1>1, Handed, BoundsAssumption DEF Positions
<1>3. Marked(t) \in FbRec
  <2>1. TRUE \in BOOLEAN
    OBVIOUS
  <2> QED BY <1>1, <2>1 DEF Marked, FbRec
<1>4. /\ Marked(t).message = fb[t].message /\ Marked(t).fb_id = fb[t].fb_id
      /\ Marked(t).reviewed = TRUE
  BY <1>1 DEF Marked, FbRec
<1>5. feedback' = [feedback EXCEPT ![pos[t] + 1] = Marked(t)] /\ feedback \in Seq(FbRec)
  BY Handed DEF MarkReviewed, MarkPos
<1>6. /\ feedback' \in Seq(FbRec) /\ Len(feedback') = Len(feedback)
      /\ DOMAIN feedback' = DOMAIN feedback /\ pos[t] + 1 \in DOMAIN feedback
      /\ feedback'[pos[t] + 1] = Marked(t)
      /\ \A i \in DOMAIN feedback : i # pos[t] + 1 => feedback'[i] = feedback[i]
  BY <1>1, <1>3, <1>5
<1>7. Moves(t, "read", msg[t], id[t], pos[t] + 1, fb[t], lines[t])
  BY DEF MarkReviewed, Goto, Moves, TypeInv, TypeOK
<1> QED BY <1>1, <1>2, <1>4, <1>6, <1>7 DEF Marked

\* The write() of a mark keeps types and control flow.
LEMMA MarkTyped ==
  ASSUME TypeInv, NEW t \in Threads, MarkReviewed(t)
  PROVE  TypeInv'
<1>1. /\ added' = added /\ added' \in Nat /\ added <= added'
      /\ Len(feedback') = Len(feedback) /\ Len(feedback') \in Nat
      /\ Len(feedback) <= Len(feedback')
  BY MarkWrites, Handed DEF MarkReviewed, counts
<1>2. Flowing("read", msg[t], pos[t] + 1, fb[t], lines[t], added', Len(feedback'))
      /\ "read" \in Steps
  BY <1>1, Locals DEF MarkReviewed, Flowing, Steps
<1>3. /\ pc' \in [Threads -> Steps]
      /\ msg' \in [Threads -> 0..MaxMessages]
      /\ id' \in [Threads -> Nat]
      /\ pos' \in [Threads -> 0..MaxMessages]
      /\ fb' \in [Threads -> FbRec]
      /\ lines' \in [Threads -> SUBSET Positions]
      /\ Flow'
  BY <1>1, <1>2, MarkWrites, Locals, MovesTyped
<1>4. /\ UNCHANGED <<procOf, fbLock, ghosts, served, trouble>> /\ pc[t] = "mark"
  BY DEF MarkReviewed, counts
<1>5. TypeOK'
  <2>1. feedback' \in Seq(FbRec)
    BY MarkWrites
  <2> QED BY <1>1, <1>3, <1>4, <2>1 DEF ghosts, TypeInv, TypeOK, Steps
<1>6. Numbered'
  BY <1>1, MarkWrites DEF TypeInv, Numbered
<1>7. Adding' \subseteq Adding
  <2>1. Moves(t, "read", msg[t], id[t], pos[t] + 1, fb[t], lines[t])
    BY MarkWrites
  <2> QED BY <2>1, Moved DEF Adding, TypeInv
<1>8. Counted'
  BY <1>1, <1>7, CountedKept
<1> QED BY <1>3, <1>5, <1>6, <1>8 DEF TypeInv

\* The other steps of the handlers keep types and control flow.
LEMMA HandlerTyped ==
  ASSUME TypeInv, NEW t \in Threads, HandlerStep(t)
  PROVE  TypeInv'
<1> USE DEF counts, ghosts
<1>0. /\ served \in Nat /\ trouble \in Nat /\ acked \subseteq Positions
      /\ shown \in [Positions -> Nat] /\ overflow \in BOOLEAN
  BY DEF TypeInv, TypeOK
<1>1. CASE ViewFeedback(t)
  <2>1. fbLock' \in LockTable(Positions)
    BY <1>1, FbLockTyped DEF ViewFeedback, TypeInv
  <2>2. /\ Return(t) /\ UNCHANGED <<procOf, feedback, served, added, trouble>>
        /\ UNCHANGED <<acked, shown, overflow>>
    BY <1>1 DEF ViewFeedback
  <2> QED BY <1>0, <2>1, <2>2, ReturnTyped
<1>2. CASE SeekEnd(t)
  <2>1. fbLock' \in LockTable(Positions)
    BY <1>2, FbLockTyped DEF SeekEnd, TypeInv
  <2> QED BY <1>0, <1>2, <2>1, ComputesIdTyped DEF SeekEnd
<1>3. CASE LockFile(t) \/ UnlockFile(t)
  <2>1. fbLock' \in LockTable(Positions)
    BY <1>3, FbLockTyped DEF LockFile, UnlockFile, TypeInv
  <2>2. PICK s \in {"read", "send"} : Goto(t, s)
    BY <1>3 DEF LockFile, UnlockFile
  <2>3. Flowing(s, msg[t], pos[t], fb[t], lines[t], added, Len(feedback))
        /\ s \in Steps \ {"seek", "append"}
    BY <2>2, Locals DEF Flowing, Steps
  <2>4. UNCHANGED <<procOf, feedback, locals, served, added, trouble, ghosts>>
    BY <1>3 DEF LockFile, UnlockFile
  <2> QED BY <1>0, <2>1, <2>2, <2>3, <2>4, GotoTyped
<1>4. CASE Show(t)
  <2>1. shown' \in [Positions -> Nat]
    BY <1>0, <1>4 DEF Show
  <2>2. /\ Return(t) /\ UNCHANGED <<procOf, feedback, fbLock, served, added, trouble>>
        /\ UNCHANGED <<acked, overflow>> /\ fbLock \in LockTable(Positions)
    BY <1>4 DEF Show, TypeInv, TypeOK
  <2> QED BY <1>0, <2>1, <2>2, ReturnTyped
<1> QED BY <1>1, <1>2, <1>3, <1>4, AppendTyped, ReadNextTyped, MarkTyped DEF HandlerStep

\* A failing call keeps types and control flow.
LEMMA SystemCallFailsTyped ==
  ASSUME TypeInv, NEW t \in Threads, SystemCallFails(t)
  PROVE  TypeInv'
<1>0. /\ trouble' \in Nat /\ UNCHANGED <<procOf, feedback, served, added, shown, overflow>>
      /\ served' \in Nat /\ shown' \in [Positions -> Nat] /\ overflow' \in BOOLEAN
      /\ acked \subseteq Positions /\ fbLock \in LockTable(Positions)
  BY DEF SystemCallFails, Trouble, TypeInv, TypeOK
<1>1. CASE Return(t) /\ UNCHANGED <<fbLock, acked>>
  BY <1>0, <1>1, ReturnTyped
<1>2. CASE /\ pc[t] = "seek" /\ id' = [id EXCEPT ![t] = NextId(t)] /\ Goto(t, "append")
           /\ UNCHANGED <<fbLock, acked, msg, pos, fb, lines>>
  BY <1>0, <1>2, ComputesIdTyped DEF ghosts
<1>3. CASE /\ pc[t] = "append" /\ fbLock' = Close(fbLock, procOf[t])
           /\ acked' = acked \cup {msg[t]} /\ Return(t)
  <2>1. fbLock' \in LockTable(Positions)
    BY <1>3, FbLockTyped DEF TypeInv
  <2>2. msg[t] \in Positions
    BY <1>3, Locals, Handed DEF Flowing
  <2> QED BY <1>0, <1>3, <2>1, <2>2, ReturnTyped
<1>4. ASSUME NEW s \in {"read", "unlock"}, Goto(t, s), UNCHANGED <<fbLock, acked, locals>>
      PROVE  TypeInv'
  <2>1. Flowing(s, msg[t], pos[t], fb[t], lines[t], added, Len(feedback))
        /\ s \in Steps \ {"seek", "append"}
    BY <1>4, Locals DEF Flowing, Steps
  <2> QED BY <1>0, <1>4, <2>1, GotoTyped DEF ghosts
<1>5. CASE /\ pc[t] = "mark" /\ pos' = [pos EXCEPT ![t] = @ + 1] /\ Goto(t, "read")
           /\ UNCHANGED <<fbLock, acked, msg, id, fb, lines>>
  <2>1. Moves(t, "read", msg[t], id[t], pos[t] + 1, fb[t], lines[t])
    BY <1>5 DEF Goto, Moves, TypeInv, TypeOK
  <2>2. pos[t] + 1 \in 1..Len(feedback)
    BY <1>5, Locals DEF Flowing
  <2>3. /\ Flowing("read", msg[t], pos[t] + 1, fb[t], lines[t], added, Len(feedback))
        /\ "read" \in Steps /\ pos[t] + 1 \in 0..MaxMessages
    BY <2>2, Handed, BoundsAssumption DEF Flowing, Steps
  <2> QED BY <1>0, <1>5, <2>1, <2>3, Locals, MovesTypeInv
<1> QED BY <1>1, <1>2, <1>3, <1>4, <1>5 DEF SystemCallFails

\* An exit of a server keeps types and control flow.
LEMMA ExitTyped ==
  ASSUME TypeInv, NEW p \in Procs, Exit(p)
  PROVE  TypeInv'
<1>1. fbLock' \in LockTable(Positions) /\ trouble' \in Nat /\ NoRecord \in FbRec
  <2>0. fbLock \in LockTable(Positions) /\ trouble \in Nat
    BY DEF TypeInv, TypeOK
  <2>1. fbLock' = Close(fbLock, p) /\ trouble' = trouble + 1
    BY DEF Exit, Trouble
  <2>2. NoRecord \in FbRec
    BY DEF NoRecord, FbRec
  <2> QED BY <2>0, <2>1, <2>2, LockTyped
<1>2. /\ pc' \in [Threads -> Steps]
      /\ msg' \in [Threads -> 0..MaxMessages]
      /\ id' \in [Threads -> Nat]
      /\ pos' \in [Threads -> 0..MaxMessages]
  BY BoundsAssumption DEF Exit, TypeInv, TypeOK, Steps
<1>3. /\ fb' \in [Threads -> FbRec]
      /\ lines' \in [Threads -> SUBSET Positions]
  BY <1>1 DEF Exit, TypeInv, TypeOK
<1>4. UNCHANGED <<procOf, feedback, served, added, ghosts>>
  BY DEF Exit
<1>5. TypeOK'
  BY <1>1, <1>2, <1>3, <1>4 DEF ghosts, TypeInv, TypeOK, Steps
<1>6. ASSUME NEW u \in Threads
      PROVE  Flowing(pc'[u], msg'[u], pos'[u], fb'[u], lines'[u], added', Len(feedback'))
  <2>1. CASE procOf[u] = p
    BY <1>4, <2>1, Handed DEF Exit, Flowing
  <2>2. CASE procOf[u] # p
    BY <1>4, <2>2, Locals DEF Exit
  <2> QED BY <2>1, <2>2
<1>7. Adding' \subseteq Adding
  BY DEF Exit, Adding
<1>8. Counted' /\ Numbered'
  BY <1>4, <1>7, CountedKept DEF TypeInv, Numbered
<1> QED BY <1>5, <1>6, <1>8 DEF TypeInv, Flow

\* Every step keeps types and control flow.
LEMMA NextTyped == TypeInv /\ [Next]_vars => TypeInv'
<1> SUFFICES ASSUME TypeInv, [Next]_vars PROVE TypeInv'  OBVIOUS
<1>1. CASE UNCHANGED vars
  BY <1>1 DEF vars, locals, counts, ghosts, TypeInv, TypeOK, Flow, Numbered, Counted,
              Adding
<1>2. CASE Next
  BY <1>2, ReceiveTyped, HandlerTyped, SystemCallFailsTyped, ExitTyped DEF Next
<1> QED BY <1>1, <1>2

\* The part of the specification that safety is about.
LEMMA SpecSteps == Spec => Init /\ [][Next]_vars
BY PTL DEF Spec

\* Every variable keeps its type, every thread its place in the code, and
\* feedback.db never outgrows the messages handed in.
THEOREM TypeCorrect == Spec => [](TypeOK /\ Flow /\ Numbered /\ Counted)
<1>1. Init => TypeInv  BY InitTyped
<1>2. TypeInv /\ [Next]_vars => TypeInv'  BY NextTyped
<1>3. TypeInv => TypeOK /\ Flow /\ Numbered /\ Counted  BY DEF TypeInv
<1> QED BY <1>1, <1>2, <1>3, SpecSteps, PTL

-----------------------------------------------------------------------------
(* The batch update writes back what it read, in every regime.             *)

\* The record a thread is about to mark is still the one it read, but
\* perhaps for the mark.
Copied ==
  \A t \in Threads :
    pc[t] = "mark" => /\ feedback[pos[t] + 1].message = fb[t].message
                      /\ feedback[pos[t] + 1].fb_id = fb[t].fb_id

\* All a step other than read() and write() does about records.
Quiet ==
  /\ feedback' = feedback
  /\ \A u \in Threads :
       pc'[u] = "mark" => pc[u] = "mark" /\ pos'[u] = pos[u] /\ fb'[u] = fb[u]

\* A move elsewhere than to a mark.
LEMMA MoveQuiet ==
  ASSUME TypeInv, NEW t \in Threads, NEW s, NEW m, NEW n, NEW p, NEW rec, NEW l,
         Moves(t, s, m, n, p, rec, l), s # "mark", feedback' = feedback
  PROVE  Quiet
BY Moved DEF Quiet, TypeInv

\* The steps of a thread that handle no record.
LEMMA QuietTurn ==
  ASSUME TypeInv, NEW t \in Threads,
         \/ Receive(t) \/ ViewFeedback(t) \/ SeekEnd(t) \/ LockFile(t)
         \/ UnlockFile(t) \/ Show(t)
  PROVE  Quiet
<1>1. ASSUME NEW s, Goto(t, s), s # "mark", feedback' = feedback,
             \A u \in Threads \ {t} : pos'[u] = pos[u] /\ fb'[u] = fb[u]
      PROVE  Quiet
  BY <1>1 DEF Goto, Quiet, TypeInv, TypeOK
<1>2. CASE Receive(t)
  <2>1. \E s : s # "mark" /\ Goto(t, s)
    BY <1>2 DEF Receive, add_feedback, view_feedback_status, review_feedbacks
  <2> QED BY <1>1, <1>2, <2>1 DEF Receive
<1>3. CASE ViewFeedback(t) \/ Show(t)
  BY <1>3, ReturnMoves, MoveQuiet DEF ViewFeedback, Show
<1>4. CASE SeekEnd(t) \/ LockFile(t) \/ UnlockFile(t)
  <2>1. \E s : s # "mark" /\ Goto(t, s)
    BY <1>4 DEF SeekEnd, LockFile, UnlockFile
  <2> QED BY <1>1, <1>4, <2>1 DEF SeekEnd, LockFile, UnlockFile, locals
<1> QED BY <1>2, <1>3, <1>4

\* Only the loop of review_feedbacks() and append_feedback() handle records.
LEMMA QuietSteps ==
  ASSUME TypeInv, [Next]_vars,
         ~ \E t \in Threads : ReadNext(t) \/ MarkReviewed(t) \/ AppendFeedback(t)
  PROVE  Quiet
<1>1. CASE UNCHANGED vars
  BY <1>1 DEF vars, locals, Quiet
<1>2. ASSUME NEW t \in Threads, SystemCallFails(t) PROVE Quiet
  <2>1. feedback' = feedback /\ \E s : s # "mark" /\ Goto(t, s)
    BY <1>2 DEF SystemCallFails, Return
  <2>2. \A u \in Threads \ {t} : pos'[u] = pos[u] /\ fb'[u] = fb[u]
    BY <1>2 DEF SystemCallFails, Return, locals, TypeInv, TypeOK
  <2> QED BY <2>1, <2>2 DEF Goto, Quiet, TypeInv, TypeOK
<1>3. ASSUME NEW p \in Procs, Exit(p) PROVE Quiet
  BY <1>3 DEF Exit, Quiet
<1> QED BY <1>1, <1>2, <1>3, QuietTurn DEF Next, HandlerStep

\* What an append does to feedback.db.
LEMMA AppendAdds ==
  ASSUME TypeInv, NEW t \in Threads, AppendFeedback(t)
  PROVE  /\ Len(feedback') = Len(feedback) + 1 /\ Len(feedback) \in Nat
         /\ DOMAIN feedback = 1..Len(feedback)
         /\ DOMAIN feedback' = 1..(Len(feedback) + 1)
         /\ \A i \in DOMAIN feedback : i \in DOMAIN feedback' /\ feedback'[i] = feedback[i]
         /\ feedback'[Len(feedback) + 1].message = msg[t]
         /\ feedback'[Len(feedback) + 1].fb_id = id[t]
         /\ ~feedback'[Len(feedback) + 1].reviewed
         /\ Moves(t, "recv", 0, 0, 0, NoRecord, {})
<1>1. feedback' = Append(feedback, NewRecord(t)) /\ feedback \in Seq(FbRec)
  BY DEF AppendFeedback, PutAtEnd, TypeInv, TypeOK
<1>2. /\ NewRecord(t).message = msg[t] /\ NewRecord(t).fb_id = id[t]
      /\ NewRecord(t).reviewed = FALSE
  BY DEF NewRecord
<1>3. Moves(t, "recv", 0, 0, 0, NoRecord, {})
  BY ReturnMoves DEF AppendFeedback
<1> QED BY <1>1, <1>2, <1>3

\* What read() hands to the loop of review_feedbacks().
LEMMA ReadMoves ==
  ASSUME TypeInv, NEW t \in Threads, ReadNext(t)
  PROVE  /\ feedback' = feedback /\ pc[t] = "read"
         /\ \/ \E p \in Nat : Moves(t, "read", msg[t], id[t], p, fb[t], lines[t])
            \/ Moves(t, "unlock", msg[t], id[t], pos[t], fb[t], lines[t])
            \/ /\ pos[t] + 1 \in DOMAIN feedback
               /\ feedback[pos[t] + 1] \in FbRec
               /\ ~feedback[pos[t] + 1].reviewed
               /\ \E l : /\ Moves(t, "mark", msg[t], id[t], pos[t], feedback[pos[t] + 1], l)
                         /\ \/ l = lines[t] \cup {feedback[pos[t] + 1].message}
                            \/ l = lines[t] /\ overflow' = TRUE
<1>1. /\ feedback' = feedback /\ pc[t] = "read" /\ UNCHANGED <<msg, id>>
      /\ pos[t] \in 0..MaxMessages
  BY Locals DEF ReadNext
<1>2. CASE pos' = [pos EXCEPT ![t] = pos[t] + 1] /\ UNCHANGED <<pc, fb, lines, overflow>>
  <2>1. Moves(t, "read", msg[t], id[t], pos[t] + 1, fb[t], lines[t])
    BY <1>1, <1>2 DEF Moves, TypeInv, TypeOK
  <2>2. pos[t] + 1 \in Nat
    BY <1>1, BoundsAssumption
  <2> QED BY <1>1, <2>1, <2>2
<1>3. CASE Goto(t, "unlock") /\ UNCHANGED <<pos, fb, lines, overflow>>
  <2>1. Moves(t, "unlock", msg[t], id[t], pos[t], fb[t], lines[t])
    BY <1>1, <1>3, GotoMoves DEF locals, TypeInv
  <2> QED BY <1>1, <2>1
<1>4. CASE /\ pos[t] + 1 <= Len(feedback) /\ ~feedback[pos[t] + 1].reviewed
           /\ fb' = [fb EXCEPT ![t] = feedback[pos[t] + 1]]
           /\ Goto(t, "mark") /\ UNCHANGED pos
           /\ \/ lines' = [lines EXCEPT ![t] = lines[t] \cup {feedback[pos[t] + 1].message}]
              \/ overflow' = TRUE /\ UNCHANGED lines
  <2>1. pos[t] + 1 \in DOMAIN feedback /\ feedback[pos[t] + 1] \in FbRec
    BY <1>1, <1>4, Handed, BoundsAssumption
  <2>2. PICK l : /\ lines' = [lines EXCEPT ![t] = l]
                 /\ \/ l = lines[t] \cup {feedback[pos[t] + 1].message}
                    \/ l = lines[t] /\ overflow' = TRUE
    <3>1. lines = [lines EXCEPT ![t] = lines[t]]
      BY DEF TypeInv, TypeOK
    <3> QED BY <1>4, <3>1, Zenon
  <2>3. Moves(t, "mark", msg[t], id[t], pos[t], feedback[pos[t] + 1], l)
    BY <1>1, <1>4, <2>2 DEF Moves, Goto, TypeInv, TypeOK
  <2> QED BY <1>1, <1>4, <2>1, <2>2, <2>3, Zenon
<1>5. \/ pos' = [pos EXCEPT ![t] = pos[t] + 1] /\ UNCHANGED <<pc, fb, lines, overflow>>
      \/ Goto(t, "unlock") /\ UNCHANGED <<pos, fb, lines, overflow>>
      \/ /\ pos[t] + 1 <= Len(feedback) /\ ~feedback[pos[t] + 1].reviewed
         /\ fb' = [fb EXCEPT ![t] = feedback[pos[t] + 1]]
         /\ Goto(t, "mark") /\ UNCHANGED pos
         /\ \/ lines' = [lines EXCEPT ![t] = lines[t] \cup {feedback[pos[t] + 1].message}]
            \/ overflow' = TRUE /\ UNCHANGED lines
  BY Zenon DEF ReadNext
<1> QED BY <1>2, <1>3, <1>4, <1>5

\* Every step keeps the copies faithful.
LEMMA CopiedStep ==
  ASSUME TypeInv, Copied, [Next]_vars
  PROVE  Copied'
<1>1. CASE ~ \E t \in Threads : ReadNext(t) \/ MarkReviewed(t) \/ AppendFeedback(t)
  BY <1>1, QuietSteps DEF Quiet, Copied
<1>2. ASSUME NEW t \in Threads, AppendFeedback(t) PROVE Copied'
  <2>1. ASSUME NEW u \in Threads, pc'[u] = "mark"
        PROVE  /\ pc[u] = "mark" /\ pos'[u] = pos[u] /\ fb'[u] = fb[u]
               /\ pos[u] + 1 \in DOMAIN feedback
    <3>1. pc[u] = "mark" /\ pos'[u] = pos[u] /\ fb'[u] = fb[u]
      BY <1>2, <2>1, AppendAdds, Moved DEF TypeInv
    <3> QED BY <1>2, <3>1, AppendAdds, Locals DEF Flowing
  <2> QED BY <1>2, <2>1, AppendAdds DEF Copied
<1>3. ASSUME NEW t \in Threads, ReadNext(t) PROVE Copied'
  <2>1. CASE \E s, p : s # "mark" /\ Moves(t, s, msg[t], id[t], p, fb[t], lines[t])
    BY <1>3, <2>1, ReadMoves, MoveQuiet DEF Quiet, Copied
  <2>2. CASE \E l : Moves(t, "mark", msg[t], id[t], pos[t], feedback[pos[t] + 1], l)
    <3>1. feedback' = feedback
      BY <1>3 DEF ReadNext
    <3>2. /\ pc'[t] = "mark" /\ pos'[t] = pos[t] /\ fb'[t] = feedback[pos[t] + 1]
          /\ \A u \in Threads \ {t} : pc'[u] = pc[u] /\ pos'[u] = pos[u] /\ fb'[u] = fb[u]
      BY <2>2, Moved DEF TypeInv
    <3> QED BY <3>1, <3>2 DEF Copied
  <2> QED BY <1>3, <2>1, <2>2, ReadMoves
<1>4. ASSUME NEW t \in Threads, MarkReviewed(t) PROVE Copied'
  <2> SUFFICES ASSUME NEW u \in Threads, pc'[u] = "mark"
               PROVE  /\ feedback'[pos'[u] + 1].message = fb'[u].message
                      /\ feedback'[pos'[u] + 1].fb_id = fb'[u].fb_id
    BY DEF Copied
  <2>1. Moves(t, "read", msg[t], id[t], pos[t] + 1, fb[t], lines[t]) /\ pc[t] = "mark"
    BY <1>4, MarkWrites DEF MarkReviewed
  <2>2. u # t /\ pc[u] = "mark" /\ pos'[u] = pos[u] /\ fb'[u] = fb[u]
    BY <2>1, Moved DEF TypeInv
  <2>3. pos[u] + 1 \in DOMAIN feedback
    BY <2>2, Locals, Handed DEF Flowing
  <2>4. /\ feedback[pos[u] + 1].message = fb[u].message
        /\ feedback[pos[u] + 1].fb_id = fb[u].fb_id
        /\ feedback[pos[t] + 1].message = fb[t].message
        /\ feedback[pos[t] + 1].fb_id = fb[t].fb_id
    BY <2>1, <2>2 DEF Copied
  <2>5. /\ \A i \in DOMAIN feedback : i # pos[t] + 1 => feedback'[i] = feedback[i]
        /\ feedback'[pos[t] + 1].message = fb[t].message
        /\ feedback'[pos[t] + 1].fb_id = fb[t].fb_id
    BY <1>4, MarkWrites
  <2>6. CASE pos[u] + 1 = pos[t] + 1
    BY <2>2, <2>4, <2>5, <2>6
  <2>7. CASE pos[u] + 1 # pos[t] + 1
    BY <2>2, <2>3, <2>4, <2>5, <2>7
  <2> QED BY <2>6, <2>7
<1> QED BY <1>1, <1>2, <1>3, <1>4

\* What a step leaves of the records there are.
Grows ==
  \A i \in DOMAIN feedback :
    /\ i \in DOMAIN feedback'
    /\ \/ feedback'[i] = feedback[i]
       \/ feedback'[i] = [feedback[i] EXCEPT !.reviewed = TRUE]

\* No step loses a message, moves it or takes its mark away.
LEMMA GrowsStep ==
  ASSUME TypeInv, Copied, [Next]_vars
  PROVE  Grows
<1>1. CASE ~ \E t \in Threads : ReadNext(t) \/ MarkReviewed(t) \/ AppendFeedback(t)
  BY <1>1, QuietSteps DEF Quiet, Grows
<1>2. ASSUME NEW t \in Threads, AppendFeedback(t) PROVE Grows
  BY <1>2, AppendAdds DEF Grows
<1>3. ASSUME NEW t \in Threads, ReadNext(t) PROVE Grows
  BY <1>3 DEF ReadNext, Grows
<1>4. ASSUME NEW t \in Threads, MarkReviewed(t) PROVE Grows
  <2> DEFINE k == pos[t] + 1
  <2>1. /\ k \in DOMAIN feedback /\ feedback[k] \in FbRec /\ fb[t] \in FbRec
        /\ feedback[k].message = fb[t].message /\ feedback[k].fb_id = fb[t].fb_id
    <3>1. pc[t] = "mark" /\ fb[t] \in FbRec /\ feedback \in Seq(FbRec)
      BY <1>4, Locals, Handed DEF MarkReviewed
    <3>2. k \in DOMAIN feedback
      BY <1>4, MarkWrites
    <3> QED BY <3>1, <3>2 DEF Copied
  <2>2. [fb[t] EXCEPT !.reviewed = TRUE] = [feedback[k] EXCEPT !.reviewed = TRUE]
    BY <2>1 DEF FbRec
  <2> QED BY <1>4, <2>2, MarkWrites DEF Grows
<1> QED BY <1>1, <1>2, <1>3, <1>4

\* Neither a batch update nor an append ever changes a message, its id or its
\* place in feedback.db, nor takes a mark away, with any number of threads in
\* a process, failing calls and exits: what review_feedbacks() writes back
\* differs from the record, as it then is, in the mark alone.
THEOREM FeedbackIsKept == Spec => FeedbackKept
<1>1. Init => Copied
  BY DEF Init, Copied
<1>2. TypeInv /\ Copied /\ [Next]_vars => Copied'
  BY CopiedStep
<1>3. Spec => []TypeInv
  BY TypeCorrect, PTL DEF TypeInv
<1>4. TypeInv /\ Copied /\ [Next]_vars =>
        [\A i \in DOMAIN feedback :
           /\ i \in DOMAIN feedback'
           /\ \/ feedback'[i] = feedback[i]
              \/ feedback'[i] = [feedback[i] EXCEPT !.reviewed = TRUE]]_vars
  BY GrowsStep DEF Grows
<1> QED BY <1>1, <1>2, <1>3, <1>4, SpecSteps, PTL DEF FeedbackKept

-----------------------------------------------------------------------------
(* A message is written at most once, in every regime.                     *)

UnderWay(t) == pc[t] \in {"seek", "append"}

\* No message is in the file twice, in the hands of two threads, or in the
\* file and in the hands of a thread.
Once ==
  /\ \A i, j \in DOMAIN feedback : feedback[i].message = feedback[j].message => i = j
  /\ \A t, u \in Threads : UnderWay(t) /\ UnderWay(u) /\ msg[t] = msg[u] => t = u
  /\ \A t \in Threads, i \in DOMAIN feedback :
       UnderWay(t) => feedback[i].message # msg[t]

\* The messages in the file, their ids and their places stay.
SameRecords ==
  /\ DOMAIN feedback' = DOMAIN feedback /\ Len(feedback') = Len(feedback)
  /\ \A i \in DOMAIN feedback : /\ feedback'[i].message = feedback[i].message
                                /\ feedback'[i].fb_id = feedback[i].fb_id

\* No thread takes up a message.
NothingTaken == \A u \in Threads : UnderWay(u)' => UnderWay(u) /\ msg'[u] = msg[u]

\* Only an append changes what is in the file.
LEMMA RecordsStay ==
  ASSUME TypeInv, Copied, [Next]_vars, ~ \E t \in Threads : AppendFeedback(t)
  PROVE  SameRecords
<1>1. CASE ~ \E t \in Threads : ReadNext(t) \/ MarkReviewed(t) \/ AppendFeedback(t)
  BY <1>1, QuietSteps DEF Quiet, SameRecords
<1>2. ASSUME NEW t \in Threads, ReadNext(t) PROVE SameRecords
  BY <1>2 DEF ReadNext, SameRecords
<1>3. ASSUME NEW t \in Threads, MarkReviewed(t) PROVE SameRecords
  <2>1. /\ feedback[pos[t] + 1].message = fb[t].message
        /\ feedback[pos[t] + 1].fb_id = fb[t].fb_id
    BY <1>3 DEF MarkReviewed, Copied
  <2>2. /\ DOMAIN feedback' = DOMAIN feedback /\ Len(feedback') = Len(feedback)
        /\ \A i \in DOMAIN feedback : i # pos[t] + 1 => feedback'[i] = feedback[i]
        /\ feedback'[pos[t] + 1].message = fb[t].message
        /\ feedback'[pos[t] + 1].fb_id = fb[t].fb_id
    BY <1>3, MarkWrites
  <2> QED BY <2>1, <2>2 DEF SameRecords
<1> QED BY <1>1, <1>2, <1>3

\* Only a request to add_feedback() brings a message.
LEMMA TakesNothing ==
  ASSUME TypeInv, [Next]_vars, ~ \E t \in Threads : Receive(t)
  PROVE  NothingTaken
<1>1. CASE UNCHANGED vars
  BY <1>1 DEF vars, locals, NothingTaken, UnderWay
<1>2. ASSUME NEW t \in Threads, NEW s, Goto(t, s), s \notin {"seek", "append"},
             \A u \in Threads \ {t} : msg'[u] = msg[u]
      PROVE  NothingTaken
  BY <1>2 DEF Goto, NothingTaken, UnderWay, TypeInv, TypeOK
<1>3. ASSUME NEW t \in Threads, Return(t) PROVE NothingTaken
  <2>1. \A u \in Threads \ {t} : msg'[u] = msg[u]
    BY <1>3 DEF Return, TypeInv, TypeOK
  <2> QED BY <1>2, <1>3, <2>1 DEF Return
<1>4. ASSUME NEW t \in Threads, pc[t] = "seek", Goto(t, "append"), UNCHANGED msg
      PROVE  NothingTaken
  BY <1>4 DEF Goto, NothingTaken, UnderWay, TypeInv, TypeOK
<1>5. ASSUME NEW t \in Threads, HandlerStep(t) PROVE NothingTaken
  <2>1. CASE ViewFeedback(t) \/ AppendFeedback(t) \/ Show(t)
    BY <1>3, <2>1 DEF ViewFeedback, AppendFeedback, Show
  <2>2. CASE SeekEnd(t)
    BY <1>4, <2>2 DEF SeekEnd
  <2>3. CASE LockFile(t) \/ MarkReviewed(t) \/ UnlockFile(t)
    <3>1. UNCHANGED msg /\ (Goto(t, "read") \/ Goto(t, "send"))
      BY <2>3 DEF LockFile, MarkReviewed, UnlockFile, locals
    <3> QED BY <1>2, <3>1
  <2>4. CASE ReadNext(t)
    <3>1. UNCHANGED msg /\ (UNCHANGED pc \/ Goto(t, "mark") \/ Goto(t, "unlock"))
      BY <2>4 DEF ReadNext
    <3>2. CASE UNCHANGED pc
      BY <3>1, <3>2 DEF NothingTaken, UnderWay
    <3> QED BY <1>2, <3>1, <3>2
  <2> QED BY <1>5, <2>1, <2>2, <2>3, <2>4 DEF HandlerStep
<1>6. ASSUME NEW t \in Threads, SystemCallFails(t) PROVE NothingTaken
  <2>1. \/ Return(t)
        \/ pc[t] = "seek" /\ Goto(t, "append") /\ UNCHANGED msg
        \/ UNCHANGED msg /\ (Goto(t, "read") \/ Goto(t, "unlock"))
    BY <1>6 DEF SystemCallFails, locals
  <2> QED BY <1>2, <1>3, <1>4, <2>1
<1>7. ASSUME NEW p \in Procs, Exit(p) PROVE NothingTaken
  BY <1>7 DEF Exit, NothingTaken, UnderWay
<1> QED BY <1>1, <1>5, <1>6, <1>7 DEF Next

\* Every step keeps messages apart.
LEMMA OnceStep ==
  ASSUME TypeInv, Copied, Once, [Next]_vars
  PROVE  Once'
<1>1. ASSUME NEW t \in Threads, Receive(t) PROVE Once'
  <2>1. feedback' = feedback /\ pc[t] = "recv"
    BY <1>1 DEF Receive
  <2>2. CASE NothingTaken
    BY <2>1, <2>2 DEF Once, NothingTaken, UnderWay
  <2>3. CASE add_feedback(t)
    <3>1. /\ msg'[t] = added + 1
          /\ \A u \in Threads \ {t} : pc'[u] = pc[u] /\ msg'[u] = msg[u]
      BY <2>3 DEF add_feedback, Goto, TypeInv, TypeOK
    <3>2. \A u \in Threads : UnderWay(u) => msg[u] \in 1..added
      BY DEF UnderWay, TypeInv, Flow, Flowing
    <3>3. \A i \in DOMAIN feedback : feedback[i].message \in 1..added
      BY DEF TypeInv, Numbered
    <3>4. added \in Nat /\ \A n \in 1..added : n # added + 1
      BY Handed
    <3> QED BY <2>1, <3>1, <3>2, <3>3, <3>4 DEF Once, UnderWay
  <2>4. CASE view_feedback_status(t) \/ review_feedbacks(t)
    <3>1. UNCHANGED msg /\ (Goto(t, "view") \/ Goto(t, "lock"))
      BY <2>4 DEF view_feedback_status, review_feedbacks
    <3>2. pc'[t] \in {"view", "lock"} /\ \A u \in Threads \ {t} : pc'[u] = pc[u]
      BY <3>1 DEF Goto, TypeInv, TypeOK
    <3> QED BY <2>2, <3>1, <3>2 DEF NothingTaken, UnderWay
  <2> QED BY <1>1, <2>2, <2>3, <2>4 DEF Receive
<1>2. ASSUME NEW t \in Threads, AppendFeedback(t) PROVE Once'
  <2>1. UnderWay(t) /\ pc'[t] = "recv"
        /\ \A u \in Threads \ {t} : pc'[u] = pc[u] /\ msg'[u] = msg[u]
    BY <1>2, AppendAdds, Moved DEF AppendFeedback, UnderWay, TypeInv
  <2>2. /\ DOMAIN feedback' = DOMAIN feedback \cup {Len(feedback) + 1}
        /\ \A i \in DOMAIN feedback : feedback'[i] = feedback[i]
        /\ feedback'[Len(feedback) + 1].message = msg[t]
    <3>1. \A n \in Nat : 1..(n + 1) = (1..n) \cup {n + 1}
      OBVIOUS
    <3> QED BY <1>2, <3>1, AppendAdds
  <2>3. \A i \in DOMAIN feedback : feedback[i].message # msg[t]
    BY <2>1 DEF Once
  <2>4. \A i, j \in DOMAIN feedback' : feedback'[i].message = feedback'[j].message => i = j
    BY <2>2, <2>3 DEF Once
  <2>5. \A u \in Threads : UnderWay(u)' => u # t /\ UnderWay(u) /\ msg'[u] = msg[u]
    BY <2>1 DEF UnderWay
  <2>6. \A u \in Threads : UnderWay(u) /\ u # t => msg[u] # msg[t]
    BY <2>1 DEF Once
  <2> QED BY <2>2, <2>4, <2>5, <2>6 DEF Once
<1>3. CASE ~ \E t \in Threads : Receive(t) \/ AppendFeedback(t)
  BY <1>3, RecordsStay, TakesNothing DEF SameRecords, NothingTaken, Once
<1> QED BY <1>1, <1>2, <1>3

\* The whole of it holds at the start.
LEMMA InitOnce == Init => Copied /\ Once
BY DEF Init, Copied, Once, UnderWay

-----------------------------------------------------------------------------
(* The lock of feedback.db, where no two threads share a process and        *)
(* nothing fails: append_feedback() and the loop of review_feedbacks()     *)
(* have the file to themselves.                                            *)

\* All threads but t stay as they are.
Others(t) ==
  \A u \in Threads \ {t} :
    /\ pc'[u] = pc[u] /\ msg'[u] = msg[u] /\ id'[u] = id[u]
    /\ pos'[u] = pos[u] /\ fb'[u] = fb[u] /\ lines'[u] = lines[u]

\* A step of a thread is a step of no other thread.
LEMMA StepOfOne ==
  ASSUME TypeInv, NEW t \in Threads, Receive(t) \/ HandlerStep(t)
  PROVE  Others(t)
<1>1. ASSUME NEW s, NEW m, NEW n, NEW p, NEW rec, NEW l, Moves(t, s, m, n, p, rec, l)
      PROVE  Others(t)
  BY <1>1, Moved DEF Others, TypeInv
<1>2. CASE Receive(t)
  BY <1>2 DEF Receive, add_feedback, view_feedback_status, review_feedbacks, Goto, Others,
              TypeInv, TypeOK
<1>3. CASE ViewFeedback(t) \/ AppendFeedback(t) \/ Show(t)
  BY <1>1, <1>3, ReturnMoves DEF ViewFeedback, AppendFeedback, Show
<1>4. CASE SeekEnd(t)
  BY <1>4 DEF SeekEnd, Goto, Others, TypeInv, TypeOK
<1>5. CASE LockFile(t) \/ UnlockFile(t)
  BY <1>1, <1>5, GotoMoves DEF LockFile, UnlockFile, TypeInv
<1>6. CASE ReadNext(t)
  BY <1>1, <1>6, ReadMoves
<1>7. CASE MarkReviewed(t)
  BY <1>1, <1>7, MarkWrites
<1> QED BY <1>2, <1>3, <1>4, <1>5, <1>6, <1>7 DEF HandlerStep

\* What is left when nothing fails and no server exits.
LEMMA CalmStep ==
  ASSUME TypeInv, [Next]_vars, trouble' = 0
  PROVE  /\ trouble = 0 /\ procOf' = procOf
         /\ \/ UNCHANGED vars
            \/ \E t \in Threads : Receive(t) \/ HandlerStep(t)
<1>1. trouble \in Nat
  BY DEF TypeInv, TypeOK
<1>2. CASE UNCHANGED vars
  BY <1>2 DEF vars, counts
<1>3. ASSUME NEW t \in Threads, Receive(t) \/ HandlerStep(t)
      PROVE  trouble' = trouble /\ procOf' = procOf
  BY <1>3 DEF Receive, HandlerStep, ViewFeedback, SeekEnd, AppendFeedback, LockFile,
              ReadNext, MarkReviewed, UnlockFile, Show, counts
<1>4. ASSUME (\E t \in Threads : SystemCallFails(t)) \/ (\E p \in Procs : Exit(p))
      PROVE  FALSE
  BY <1>1, <1>4 DEF SystemCallFails, Exit, Trouble
<1> QED BY <1>2, <1>3, <1>4 DEF Next

HoldsFile(t) == pc[t] \in {"append", "read", "mark", "unlock"}

LockInv ==
  Exclusive /\ trouble = 0 =>
    \A t \in Threads : HoldsFile(t) => \A i \in Positions : fbLock[i] = procOf[t]

\* Two threads are never at the file together.
LEMMA Alone ==
  ASSUME LockInv, Exclusive, trouble = 0, NEW t \in Threads, NEW u \in Threads,
         HoldsFile(t), HoldsFile(u), Positions # {}
  PROVE  t = u
<1>1. PICK i : i \in Positions
  OBVIOUS
<1>2. fbLock[i] = procOf[t] /\ fbLock[i] = procOf[u]
  BY <1>1 DEF LockInv
<1> QED BY <1>2 DEF Exclusive

\* Every step keeps the lock with the thread that took it.
LEMMA LockStep ==
  ASSUME TypeInv, LockInv, [Next]_vars
  PROVE  LockInv'
<1> SUFFICES ASSUME Exclusive', trouble' = 0
             PROVE  \A t \in Threads :
                      HoldsFile(t)' => \A i \in Positions : fbLock'[i] = procOf'[t]
  BY DEF LockInv
<1>1. trouble = 0 /\ procOf' = procOf /\ Exclusive
  BY CalmStep DEF Exclusive
<1>2. /\ fbLock \in [Positions -> Procs \cup {NoProc}] /\ NoProc \notin Procs
      /\ \A t \in Threads : procOf[t] \in Procs
      /\ \A t \in Threads : HoldsFile(t) => \A i \in Positions : fbLock[i] = procOf[t]
  BY <1>1, RegimesAssumption, NoProcAssumption DEF TypeInv, TypeOK, LockTable, LockInv
<1>3. CASE UNCHANGED vars
  BY <1>1, <1>2, <1>3 DEF vars, HoldsFile
<1>4. ASSUME NEW t \in Threads, Others(t), fbLock' = fbLock, HoldsFile(t)' => HoldsFile(t)
      PROVE  \A u \in Threads : HoldsFile(u)' => \A i \in Positions : fbLock'[i] = procOf'[u]
  BY <1>1, <1>2, <1>4 DEF Others, HoldsFile
<1>5. ASSUME NEW t \in Threads, Others(t), fbLock' = Close(fbLock, procOf[t]),
             ~HoldsFile(t)'
      PROVE  \A u \in Threads : HoldsFile(u)' => \A i \in Positions : fbLock'[i] = procOf'[u]
  <2> SUFFICES ASSUME NEW u \in Threads, HoldsFile(u)', NEW i \in Positions
               PROVE  fbLock'[i] = procOf[u]
    BY <1>1
  <2>1. u # t /\ HoldsFile(u)
    BY <1>5 DEF Others, HoldsFile
  <2>2. fbLock[i] = procOf[u] /\ procOf[u] # procOf[t]
    BY <1>1, <1>2, <2>1 DEF Exclusive
  <2> QED BY <1>2, <1>5, <2>2 DEF Close
<1>6. ASSUME NEW t \in Threads, Others(t), Grantable(fbLock, Positions, procOf[t]),
             fbLock' = Lock(fbLock, Positions, procOf[t])
      PROVE  \A u \in Threads : HoldsFile(u)' => \A i \in Positions : fbLock'[i] = procOf'[u]
  <2> SUFFICES ASSUME NEW u \in Threads, HoldsFile(u)', NEW i \in Positions
               PROVE  fbLock'[i] = procOf[u]
    BY <1>1
  <2>1. fbLock'[i] = procOf[t]
    BY <1>2, <1>6 DEF Lock
  <2>2. ASSUME u # t PROVE FALSE
    <3>1. fbLock[i] = procOf[u] /\ procOf[u] # procOf[t]
      BY <1>1, <1>2, <1>6, <2>2 DEF Others, HoldsFile, Exclusive
    <3> QED BY <1>2, <1>6, <3>1 DEF Grantable
  <2> QED BY <2>1, <2>2
<1>7. ASSUME NEW t \in Threads, Receive(t) \/ HandlerStep(t)
      PROVE  \A u \in Threads : HoldsFile(u)' => \A i \in Positions : fbLock'[i] = procOf'[u]
  <2>1. Others(t)
    BY <1>7, StepOfOne
  <2>2. CASE Receive(t)
    <3>1. fbLock' = fbLock /\ pc'[t] \in {"seek", "view", "lock"}
      BY <2>2 DEF Receive, add_feedback, view_feedback_status, review_feedbacks, Goto,
                  TypeInv, TypeOK
    <3> QED BY <1>4, <2>1, <3>1 DEF HoldsFile
  <2>3. CASE SeekEnd(t) \/ LockFile(t)
    BY <1>6, <2>1, <2>3 DEF SeekEnd, LockFile
  <2>4. CASE ViewFeedback(t) \/ AppendFeedback(t) \/ UnlockFile(t)
    <3>1. fbLock' = Close(fbLock, procOf[t]) /\ (Goto(t, "recv") \/ Goto(t, "send"))
      BY <2>4 DEF ViewFeedback, AppendFeedback, UnlockFile, ReadOnlyPass, Return
    <3>2. pc'[t] \in {"recv", "send"}
      BY <3>1 DEF Goto, TypeInv, TypeOK
    <3> QED BY <1>5, <2>1, <3>1, <3>2 DEF HoldsFile
  <2>5. CASE ReadNext(t) \/ MarkReviewed(t)
    <3>1. fbLock' = fbLock /\ HoldsFile(t)
      BY <2>5 DEF ReadNext, MarkReviewed, HoldsFile
    <3> QED BY <1>4, <2>1, <3>1
  <2>6. CASE Show(t)
    <3>1. fbLock' = fbLock /\ pc'[t] = "recv"
      BY <2>6 DEF Show, Return, Goto, TypeInv, TypeOK
    <3> QED BY <1>4, <2>1, <3>1 DEF HoldsFile
  <2> QED BY <1>7, <2>2, <2>3, <2>4, <2>5, <2>6 DEF HandlerStep
<1> QED BY <1>3, <1>7, CalmStep

-----------------------------------------------------------------------------
(* What a customer was told is kept.                                       *)

\* A message acknowledged is in the file.
Kept ==
  trouble = 0 => \A m \in acked : \E i \in DOMAIN feedback : feedback[i].message = m

\* The ids in the file, and the one about to be written.
Ids ==
  Exclusive /\ trouble = 0 =>
    /\ \A j \in DOMAIN feedback : feedback[j].fb_id = j
    /\ \A t \in Threads : pc[t] = "append" => id[t] = Len(feedback) + 1

\* Every step keeps what was acknowledged.
LEMMA KeptStep ==
  ASSUME TypeInv, Copied, Kept, [Next]_vars
  PROVE  Kept'
<1> SUFFICES ASSUME trouble' = 0
             PROVE  \A m \in acked' : \E i \in DOMAIN feedback' : feedback'[i].message = m
  BY DEF Kept
<1>1. trouble = 0 /\ \A m \in acked : \E i \in DOMAIN feedback : feedback[i].message = m
  BY CalmStep DEF Kept
<1>2. ASSUME NEW t \in Threads, AppendFeedback(t)
      PROVE  \A m \in acked' : \E i \in DOMAIN feedback' : feedback'[i].message = m
  <2>1. /\ \A i \in DOMAIN feedback : i \in DOMAIN feedback' /\ feedback'[i] = feedback[i]
        /\ Len(feedback) + 1 \in DOMAIN feedback'
        /\ feedback'[Len(feedback) + 1].message = msg[t]
    BY <1>2, AppendAdds
  <2>2. acked' = acked \cup {msg[t]}
    BY <1>2 DEF AppendFeedback
  <2> QED BY <1>1, <2>1, <2>2
<1>3. CASE ~ \E t \in Threads : AppendFeedback(t)
  <2>1. acked' = acked
    BY <1>3, CalmStep DEF vars, ghosts, Receive, HandlerStep, ViewFeedback, SeekEnd, LockFile,
                          ReadNext, MarkReviewed, UnlockFile, Show
  <2> QED BY <1>1, <1>3, <2>1, RecordsStay DEF SameRecords
<1> QED BY <1>2, <1>3

\* Every step keeps ids and places equal.
LEMMA IdsStep ==
  ASSUME TypeInv, Copied, LockInv, Ids, [Next]_vars
  PROVE  Ids'
<1> SUFFICES ASSUME Exclusive', trouble' = 0
             PROVE  /\ \A j \in DOMAIN feedback' : feedback'[j].fb_id = j
                    /\ \A t \in Threads : pc'[t] = "append" => id'[t] = Len(feedback') + 1
  BY DEF Ids
<1>1. /\ trouble = 0 /\ Exclusive
      /\ \A j \in DOMAIN feedback : feedback[j].fb_id = j
      /\ \A t \in Threads : pc[t] = "append" => id[t] = Len(feedback) + 1
  BY CalmStep DEF Exclusive, Ids
<1>2. ASSUME NEW t \in Threads, AppendFeedback(t)
      PROVE  /\ \A j \in DOMAIN feedback' : feedback'[j].fb_id = j
             /\ \A u \in Threads : pc'[u] = "append" => id'[u] = Len(feedback') + 1
  <2>1. /\ Len(feedback) \in Nat /\ DOMAIN feedback = 1..Len(feedback)
        /\ DOMAIN feedback' = 1..(Len(feedback) + 1)
        /\ \A i \in DOMAIN feedback : feedback'[i] = feedback[i]
        /\ feedback'[Len(feedback) + 1].fb_id = id[t]
    BY <1>2, AppendAdds
  <2>2. pc[t] = "append" /\ pc'[t] = "recv"
    BY <1>2 DEF AppendFeedback, Return, Goto, TypeInv, TypeOK
  <2>3. \A j \in DOMAIN feedback' : feedback'[j].fb_id = j
    BY <1>1, <2>1, <2>2
  <2>4. ASSUME NEW u \in Threads, pc'[u] = "append" PROVE FALSE
    <3>1. u # t /\ pc[u] = "append"
      BY <1>2, <2>2, <2>4, StepOfOne DEF HandlerStep, Others
    <3>2. Positions # {}
      BY <2>2, RoomToAppend
    <3> QED BY <1>1, <2>2, <3>1, <3>2, Alone DEF HoldsFile
  <2> QED BY <2>3, <2>4
<1>3. CASE ~ \E t \in Threads : AppendFeedback(t)
  <2>1. SameRecords
    BY <1>3, RecordsStay
  <2>2. CASE UNCHANGED vars
    BY <1>1, <2>1, <2>2 DEF vars, locals, SameRecords
  <2>3. ASSUME NEW t \in Threads, Receive(t) \/ HandlerStep(t), NEW u \in Threads,
               pc'[u] = "append"
        PROVE  id'[u] = Len(feedback') + 1
    <3>1. Others(t)
      BY <2>3, StepOfOne
    <3>2. CASE u # t
      BY <1>1, <2>1, <2>3, <3>1, <3>2 DEF Others, SameRecords
    <3>3. CASE u = t
      <4>1. CASE SeekEnd(t)
        BY <2>1, <3>3, <4>1 DEF SeekEnd, NextId, SameRecords, TypeInv, TypeOK
      <4>2. ASSUME NEW s, Goto(t, s), s # "append" PROVE FALSE
        BY <2>3, <3>3, <4>2 DEF Goto, TypeInv, TypeOK
      <4>3. CASE Receive(t)
        BY <4>2, <4>3 DEF Receive, add_feedback, view_feedback_status, review_feedbacks
      <4>4. CASE ViewFeedback(t) \/ Show(t) \/ LockFile(t) \/ MarkReviewed(t) \/ UnlockFile(t)
        BY <4>2, <4>4 DEF ViewFeedback, Show, LockFile, MarkReviewed, UnlockFile, Return
      <4>5. CASE ReadNext(t)
        BY <2>3, <3>3, <4>2, <4>5 DEF ReadNext
      <4> QED BY <1>3, <2>3, <4>1, <4>3, <4>4, <4>5 DEF HandlerStep
    <3> QED BY <3>2, <3>3
  <2> QED BY <1>1, <2>1, <2>2, <2>3, CalmStep DEF SameRecords
<1> QED BY <1>2, <1>3

\* The inductive invariant of the part of Feedback that is about customers.
AckInv == TypeInv /\ Copied /\ Once /\ LockInv /\ Kept /\ Ids

\* Every step keeps it.
LEMMA AckStep == AckInv /\ [Next]_vars => AckInv'
BY NextTyped, CopiedStep, OnceStep, LockStep, KeptStep, IdsStep DEF AckInv

\* The initial state has it: nothing is acknowledged.
LEMMA InitAck == Init => AckInv
<1> SUFFICES ASSUME Init PROVE AckInv  OBVIOUS
<1>1. TypeInv /\ Copied /\ Once
  BY InitTyped, InitOnce
<1>2. LockInv /\ Kept /\ Ids
  BY DEF Init, LockInv, HoldsFile, Kept, Ids
<1> QED BY <1>1, <1>2 DEF AckInv

\* "Feedback Submitted" is never a lie while no system call fails: the message
\* is in feedback.db, in one place only, whatever appends and batch updates go
\* on at the same time and however threads share processes; and where each
\* thread has a process of its own, so that the lock excludes, the id the
\* customer was told is the place.
THEOREM AckedAreKept == Spec => []AckedIsKept
<1>1. AckInv => AckedIsKept
  <2> SUFFICES ASSUME AckInv, trouble = 0, NEW m \in acked
               PROVE  \E i \in DOMAIN feedback : \A j \in DOMAIN feedback :
                        (feedback[j].message = m <=> j = i) /\ (Exclusive => feedback[j].fb_id = j)
    BY DEF AckedIsKept
  <2>1. PICK i \in DOMAIN feedback : feedback[i].message = m
    BY DEF AckInv, Kept
  <2>2. \A j \in DOMAIN feedback : feedback[j].message = m <=> j = i
    BY <2>1 DEF AckInv, Once
  <2>3. \A j \in DOMAIN feedback : Exclusive => feedback[j].fb_id = j
    BY DEF AckInv, Ids
  <2> QED BY <2>2, <2>3
<1> QED BY <1>1, AckStep, InitAck, SpecSteps, PTL

-----------------------------------------------------------------------------
(* What is marked is shown, in every regime.                               *)

\* The record about to be marked is in the answer.
InAnswer ==
  trouble = 0 /\ ~overflow => \A t \in Threads : pc[t] = "mark" => fb[t].message \in lines[t]

\* Every step keeps the record about to be marked in the answer, and every
\* marked one in an answer or before a manager.
LEMMA ShownStep ==
  ASSUME TypeInv, InAnswer, MarkedIsShown, [Next]_vars
  PROVE  InAnswer' /\ MarkedIsShown'
<1> DEFINE Goal == /\ \A t \in Threads : pc'[t] = "mark" => fb'[t].message \in lines'[t]
                   /\ \A i \in DOMAIN feedback' : feedback'[i].reviewed =>
                        \/ shown'[feedback'[i].message] > 0
                        \/ \E t \in Threads : feedback'[i].message \in lines'[t]
<1>0. CASE ~(trouble' = 0 /\ ~overflow')
  BY <1>0 DEF InAnswer, MarkedIsShown, AllUnreadShown
<1> SUFFICES ASSUME trouble' = 0, ~overflow' PROVE Goal
  BY <1>0 DEF InAnswer, MarkedIsShown, AllUnreadShown
<1>1. overflow = FALSE
  <2>1. overflow \in BOOLEAN
    BY DEF TypeInv, TypeOK
  <2>2. overflow' = overflow \/ overflow' = TRUE
    BY CalmStep, Zenon DEF vars, ghosts, Receive, HandlerStep, ViewFeedback, SeekEnd,
                    AppendFeedback, LockFile, ReadNext, MarkReviewed, UnlockFile, Show
  <2> QED BY <2>1, <2>2, Zenon
<1>2. /\ \A t \in Threads : pc[t] = "mark" => fb[t].message \in lines[t]
      /\ \A i \in DOMAIN feedback : feedback[i].reviewed =>
           \/ shown[feedback[i].message] > 0
           \/ \E t \in Threads : feedback[i].message \in lines[t]
  BY <1>1, CalmStep DEF InAnswer, MarkedIsShown, AllUnreadShown
<1>3. CASE UNCHANGED vars
  BY <1>2, <1>3 DEF vars, locals, ghosts
<1>4. ASSUME Quiet, shown' = shown, \A u \in Threads : lines'[u] = lines[u]
      PROVE  Goal
  BY <1>2, <1>4 DEF Quiet
<1>5. ASSUME NEW t \in Threads, Receive(t) \/ SeekEnd(t) \/ LockFile(t) \/ UnlockFile(t)
      PROVE  Goal
  <2>1. Quiet
    BY <1>5, QuietTurn
  <2>2. shown' = shown /\ lines' = lines
    BY <1>5 DEF Receive, SeekEnd, LockFile, UnlockFile, locals, ghosts
  <2> QED BY <1>4, <2>1, <2>2
<1>6. ASSUME NEW t \in Threads, ViewFeedback(t) PROVE Goal
  <2>1. Quiet /\ shown' = shown /\ lines'[t] = {} /\ pc[t] = "view" /\ Others(t)
    BY <1>6, QuietTurn, StepOfOne DEF ViewFeedback, HandlerStep, Return, ghosts, TypeInv, TypeOK
  <2>2. lines[t] = {}
    BY <2>1, Locals DEF Flowing
  <2> QED BY <1>4, <2>1, <2>2 DEF Others
<1>7. ASSUME NEW t \in Threads, AppendFeedback(t) PROVE Goal
  <2>1. shown' = shown /\ lines'[t] = {} /\ pc[t] = "append" /\ pc'[t] = "recv" /\ Others(t)
    BY <1>7, StepOfOne DEF AppendFeedback, HandlerStep, Return, Goto, TypeInv, TypeOK
  <2>2. lines[t] = {}
    BY <2>1, Locals DEF Flowing
  <2>3. \A u \in Threads : lines'[u] = lines[u]
    BY <2>1, <2>2 DEF Others
  <2>4. \A u \in Threads : pc'[u] = "mark" => pc[u] = "mark" /\ fb'[u] = fb[u]
    BY <2>1 DEF Others
  <2>5. \A i \in DOMAIN feedback' :
          feedback'[i].reviewed => i \in DOMAIN feedback /\ feedback'[i] = feedback[i]
    BY <1>7, AppendAdds
  <2> QED BY <1>2, <2>1, <2>3, <2>4, <2>5
<1>8. ASSUME NEW t \in Threads, ReadNext(t) PROVE Goal
  <2>1. feedback' = feedback /\ shown' = shown /\ Others(t)
    BY <1>8, StepOfOne DEF ReadNext, HandlerStep
  <2>2. \/ pc'[t] # "mark" /\ lines'[t] = lines[t]
        \/ /\ fb'[t] = feedback[pos[t] + 1]
           /\ lines'[t] = lines[t] \cup {feedback[pos[t] + 1].message}
    <3>1. CASE \E s, p : s # "mark" /\ Moves(t, s, msg[t], id[t], p, fb[t], lines[t])
      BY <3>1, Moved DEF TypeInv
    <3>2. ASSUME NEW l, Moves(t, "mark", msg[t], id[t], pos[t], feedback[pos[t] + 1], l),
                 \/ l = lines[t] \cup {feedback[pos[t] + 1].message}
                 \/ l = lines[t] /\ overflow' = TRUE
          PROVE  /\ fb'[t] = feedback[pos[t] + 1]
                 /\ lines'[t] = lines[t] \cup {feedback[pos[t] + 1].message}
      BY <3>2, Moved DEF TypeInv
    <3> QED BY <1>8, <3>1, <3>2, ReadMoves
  <2>3. \A u \in Threads : lines[u] \subseteq lines'[u]
    BY <2>1, <2>2 DEF Others
  <2>4. \A u \in Threads : pc'[u] = "mark" => fb'[u].message \in lines'[u]
    BY <1>2, <2>1, <2>2 DEF Others
  <2> QED BY <1>2, <2>1, <2>3, <2>4
<1>9. ASSUME NEW t \in Threads, MarkReviewed(t) PROVE Goal
  <2>1. /\ shown' = shown /\ lines' = lines /\ pc[t] = "mark" /\ pc'[t] = "read"
        /\ fb' = fb /\ Others(t)
    BY <1>9, StepOfOne DEF MarkReviewed, HandlerStep, Goto, ghosts, TypeInv, TypeOK
  <2>2. /\ DOMAIN feedback' = DOMAIN feedback
        /\ \A i \in DOMAIN feedback : i # pos[t] + 1 => feedback'[i] = feedback[i]
        /\ feedback'[pos[t] + 1].message = fb[t].message
    BY <1>9, MarkWrites
  <2>3. fb[t].message \in lines'[t]
    BY <1>2, <2>1
  <2>4. \A u \in Threads : pc'[u] = "mark" => fb'[u].message \in lines'[u]
    BY <1>2, <2>1 DEF Others
  <2>5. ASSUME NEW i \in DOMAIN feedback', feedback'[i].reviewed
        PROVE  \/ shown'[feedback'[i].message] > 0
               \/ \E u \in Threads : feedback'[i].message \in lines'[u]
    <3>1. CASE i = pos[t] + 1
      BY <2>2, <2>3, <3>1
    <3>2. CASE i # pos[t] + 1
      BY <1>2, <2>1, <2>2, <2>5, <3>2
    <3> QED BY <3>1, <3>2
  <2> QED BY <2>4, <2>5
<1>10. ASSUME NEW t \in Threads, Show(t) PROVE Goal
  <2>1. Quiet /\ lines'[t] = {} /\ Others(t)
    BY <1>10, QuietTurn, StepOfOne DEF Show, HandlerStep, Return, TypeInv, TypeOK
  <2>2. \A u \in Threads : pc'[u] = "mark" => fb'[u].message \in lines'[u]
    <3>1. pc'[t] = "recv"
      BY <1>10 DEF Show, Return, Goto, TypeInv, TypeOK
    <3> QED BY <1>2, <2>1, <3>1 DEF Quiet, Others
  <2>3. \A m \in Positions : /\ shown[m] > 0 => shown'[m] > 0
                             /\ m \in lines[t] => shown'[m] > 0
    <3>1. \A m \in Positions : shown[m] \in Nat
      BY DEF TypeInv, TypeOK
    <3>2. \A m \in Positions : /\ m \in lines[t] => shown'[m] = shown[m] + 1
                               /\ m \notin lines[t] => shown'[m] = shown[m] + 0
      BY <1>10 DEF Show
    <3> QED BY <3>1, <3>2
  <2>4. \A i \in DOMAIN feedback : feedback[i].message \in Positions
    BY Handed DEF TypeInv, Numbered
  <2>5. ASSUME NEW i \in DOMAIN feedback', feedback'[i].reviewed
        PROVE  \/ shown'[feedback'[i].message] > 0
               \/ \E u \in Threads : feedback'[i].message \in lines'[u]
    <3>1. feedback' = feedback
      BY <2>1 DEF Quiet
    <3> QED BY <1>2, <2>1, <2>3, <2>4, <2>5, <3>1 DEF Others
  <2> QED BY <2>2, <2>5
<1> HIDE DEF Goal
<1> QED BY <1>3, <1>5, <1>6, <1>7, <1>8, <1>9, <1>10, CalmStep DEF HandlerStep

\* While nothing fails and no answer overflows, review_feedbacks() marks a
\* message only after it has put it into an answer, and the answer reaches a
\* manager: no message is marked as reviewed that nobody is shown, with any
\* number of managers, even where the lock does not exclude.
THEOREM MarkedAreShown == Spec => []MarkedIsShown
<1>1. Init => InAnswer /\ MarkedIsShown
  BY DEF Init, InAnswer, MarkedIsShown, AllUnreadShown
<1>2. TypeInv /\ InAnswer /\ MarkedIsShown /\ [Next]_vars => (InAnswer /\ MarkedIsShown)'
  BY ShownStep
<1>3. Spec => []TypeInv
  BY TypeCorrect, PTL DEF TypeInv
<1> QED BY <1>1, <1>2, <1>3, SpecSteps, PTL

-----------------------------------------------------------------------------
(* A message is shown once, where the lock excludes.  A message in an      *)
(* answer is marked, or about to be: so is one that was shown, and the     *)
(* next review passes over it.                                             *)

\* The message m is marked in feedback.db.
IsMarked(m) == \E i \in DOMAIN feedback : feedback[i].message = m /\ feedback[i].reviewed

\* The thread t has come to the record of m and is about to mark it.
ToMark(t, m) ==
  pc[t] = "mark" /\ pos[t] + 1 \in DOMAIN feedback /\ feedback[pos[t] + 1].message = m

\* Never in two answers, nor in an answer after it was shown.
Answers ==
  /\ \A t \in Threads : \A m \in lines[t] : shown[m] = 0 /\ (IsMarked(m) \/ ToMark(t, m))
  /\ \A t, u \in Threads : t # u => lines[t] \cap lines[u] = {}
  /\ \A m \in Positions : shown[m] <= 1 /\ (shown[m] > 0 => IsMarked(m))

AnswersInv == Exclusive /\ trouble = 0 => Answers

\* Marks are never taken away and messages stay in place.
LEMMA MarksStay ==
  ASSUME TypeInv, Copied, [Next]_vars
  PROVE  /\ \A m : IsMarked(m) => IsMarked(m)'
         /\ \A i \in DOMAIN feedback : i \in DOMAIN feedback' /\ feedback'[i].message = feedback[i].message
<1>1. feedback \in Seq(FbRec)
  BY Handed
<1>2. ASSUME NEW i \in DOMAIN feedback
      PROVE  /\ i \in DOMAIN feedback' /\ feedback'[i].message = feedback[i].message
             /\ feedback[i].reviewed => feedback'[i].reviewed
  <2>1. /\ i \in DOMAIN feedback'
        /\ \/ feedback'[i] = feedback[i]
           \/ feedback'[i] = [feedback[i] EXCEPT !.reviewed = TRUE]
    BY GrowsStep DEF Grows
  <2>2. feedback[i] \in FbRec
    BY <1>1
  <2> QED BY <2>1, <2>2 DEF FbRec
<1> QED BY <1>2 DEF IsMarked

\* A step that neither reads, marks nor shows keeps the answers apart.
LEMMA AnswersKept ==
  ASSUME TypeInv, Copied, Answers, [Next]_vars, NEW t \in Threads, Others(t),
         pc[t] # "mark", lines'[t] \subseteq lines[t], shown' = shown
  PROVE  Answers'
<1>1. \A u \in Threads : lines'[u] \subseteq lines[u]
  BY DEF Others
<1>2. ASSUME NEW u \in Threads, NEW m \in lines'[u]
      PROVE  shown'[m] = 0 /\ (IsMarked(m)' \/ ToMark(u, m)')
  <2>1. shown[m] = 0 /\ (IsMarked(m) \/ ToMark(u, m))
    BY <1>1, <1>2 DEF Answers
  <2>2. CASE IsMarked(m)
    BY <2>1, <2>2, MarksStay
  <2>3. CASE ToMark(u, m)
    <3>1. u # t /\ pc'[u] = pc[u] /\ pos'[u] = pos[u]
      BY <2>3 DEF ToMark, Others
    <3> QED BY <2>1, <2>3, <3>1, MarksStay DEF ToMark
  <2> QED BY <2>1, <2>2, <2>3
<1>3. \A m \in Positions : shown'[m] <= 1 /\ (shown'[m] > 0 => IsMarked(m)')
  BY MarksStay DEF Answers
<1>4. \A u, w \in Threads : u # w => lines'[u] \cap lines'[w] = {}
  BY <1>1 DEF Answers
<1> QED BY <1>2, <1>3, <1>4 DEF Answers

\* A read takes up a message that is in no answer and was never shown.
LEMMA AnswersRead ==
  ASSUME TypeInv, Copied, Once, LockInv, Answers, Exclusive, trouble = 0, [Next]_vars,
         NEW t \in Threads, ReadNext(t)
  PROVE  Answers'
<1>1. feedback' = feedback /\ shown' = shown /\ Others(t) /\ pc[t] = "read"
  BY StepOfOne DEF ReadNext, HandlerStep
<1>2. CASE \E s, p : Moves(t, s, msg[t], id[t], p, fb[t], lines[t])
  <2>1. lines'[t] = lines[t]
    BY <1>2, Moved DEF TypeInv
  <2> QED BY <1>1, <2>1, AnswersKept
<1>3. ASSUME NEW l, Moves(t, "mark", msg[t], id[t], pos[t], feedback[pos[t] + 1], l),
             pos[t] + 1 \in DOMAIN feedback, feedback[pos[t] + 1] \in FbRec,
             ~feedback[pos[t] + 1].reviewed,
             l = lines[t] \cup {feedback[pos[t] + 1].message} \/ l = lines[t]
      PROVE  Answers'
  <2> DEFINE k == pos[t] + 1
             new == feedback[k].message
  <2>1. pc'[t] = "mark" /\ pos'[t] = pos[t] /\ lines'[t] = l
    BY <1>3, Moved DEF TypeInv
  <2>2. CASE l = lines[t]
    BY <1>1, <2>1, <2>2, AnswersKept
  <2>3. CASE l = lines[t] \cup {new}
    <3>1. \A m : IsMarked(m)' <=> IsMarked(m)
      BY <1>1 DEF IsMarked
    <3>2. ~IsMarked(new)
      BY <1>3 DEF IsMarked, Once
    <3>3. new \in Positions
      BY <1>3, Handed DEF TypeInv, Numbered
    <3>4. shown[new] = 0
      BY <3>2, <3>3 DEF Answers, TypeInv, TypeOK
    <3>5. ASSUME NEW u \in Threads, u # t, new \in lines[u] PROVE FALSE
      <4>1. pc[u] = "mark"
        BY <3>2, <3>5 DEF Answers, ToMark
      <4>2. Positions # {}
        BY <3>3
      <4> QED BY <1>1, <3>5, <4>1, <4>2, Alone DEF HoldsFile
    <3>6. \A m : m = new => ToMark(t, m)'
      BY <1>1, <1>3, <2>1 DEF ToMark
    <3>7. ASSUME NEW u \in Threads, NEW m \in lines'[u]
          PROVE  shown'[m] = 0 /\ (IsMarked(m)' \/ ToMark(u, m)')
      <4>1. CASE u = t /\ m = new
        BY <1>1, <3>4, <3>6, <4>1
      <4>2. CASE u = t /\ m # new
        <5>1. m \in lines[t] /\ ~ToMark(t, m)
          BY <1>1, <2>1, <2>3, <3>7, <4>2 DEF ToMark
        <5> QED BY <1>1, <3>1, <4>2, <5>1 DEF Answers
      <4>3. CASE u # t
        <5>1. m \in lines[u] /\ pc'[u] = pc[u] /\ pos'[u] = pos[u]
          BY <1>1, <3>7, <4>3 DEF Others
        <5>2. ToMark(u, m) => ToMark(u, m)'
          BY <1>1, <5>1 DEF ToMark
        <5> QED BY <1>1, <3>1, <5>1, <5>2 DEF Answers
      <4> QED BY <4>1, <4>2, <4>3
    <3>8. \A u, w \in Threads : u # w => lines'[u] \cap lines'[w] = {}
      <4>1. \A u \in Threads : u # t => lines'[u] = lines[u]
        BY <1>1 DEF Others
      <4> QED BY <2>1, <2>3, <3>5, <4>1 DEF Answers
    <3>9. \A m \in Positions : shown'[m] <= 1 /\ (shown'[m] > 0 => IsMarked(m)')
      BY <1>1, <3>1 DEF Answers
    <3> QED BY <3>7, <3>8, <3>9 DEF Answers
  <2> QED BY <1>3, <2>2, <2>3
<1> QED BY <1>2, <1>3, ReadMoves

\* A mark keeps what it marks in the answer it is in.
LEMMA AnswersMark ==
  ASSUME TypeInv, Copied, Answers, [Next]_vars, NEW t \in Threads, MarkReviewed(t)
  PROVE  Answers'
<1>1. shown' = shown /\ lines' = lines /\ Others(t) /\ pc[t] = "mark"
  BY StepOfOne DEF MarkReviewed, HandlerStep, ghosts
<1>2. /\ pos[t] + 1 \in DOMAIN feedback' /\ feedback'[pos[t] + 1].message = fb[t].message
      /\ feedback'[pos[t] + 1].reviewed = TRUE /\ feedback[pos[t] + 1].message = fb[t].message
  BY <1>1, MarkWrites DEF Copied
<1>3. ASSUME NEW u \in Threads, NEW m \in lines'[u]
      PROVE  shown'[m] = 0 /\ (IsMarked(m)' \/ ToMark(u, m)')
  <2>1. shown[m] = 0 /\ (IsMarked(m) \/ ToMark(u, m))
    BY <1>1, <1>3 DEF Answers
  <2>2. CASE IsMarked(m)
    BY <1>1, <2>1, <2>2, MarksStay
  <2>3. CASE ToMark(t, m) /\ u = t
    BY <1>1, <1>2, <2>1, <2>3 DEF ToMark, IsMarked
  <2>4. CASE ToMark(u, m) /\ u # t
    <3>1. pc'[u] = pc[u] /\ pos'[u] = pos[u]
      BY <1>1, <2>4 DEF Others
    <3> QED BY <1>1, <2>1, <2>4, <3>1, MarksStay DEF ToMark
  <2> QED BY <2>1, <2>2, <2>3, <2>4
<1>4. \A m \in Positions : shown'[m] <= 1 /\ (shown'[m] > 0 => IsMarked(m)')
  BY <1>1, MarksStay DEF Answers
<1> QED BY <1>1, <1>3, <1>4 DEF Answers

\* An answer shows what nobody was shown before.
LEMMA AnswersShow ==
  ASSUME TypeInv, Copied, Answers, [Next]_vars, NEW t \in Threads, Show(t)
  PROVE  Answers'
<1>1. feedback' = feedback /\ lines'[t] = {} /\ Others(t) /\ pc[t] = "send"
  BY StepOfOne DEF Show, HandlerStep, Return, TypeInv, TypeOK
<1>2. \A m : IsMarked(m)' <=> IsMarked(m)
  BY <1>1 DEF IsMarked
<1>3. \A m \in Positions : /\ shown[m] \in Nat
                           /\ m \in lines[t] => shown'[m] = shown[m] + 1
                           /\ m \notin lines[t] => shown'[m] = shown[m]
  <2>1. \A m \in Positions : /\ m \in lines[t] => shown'[m] = shown[m] + 1
                             /\ m \notin lines[t] => shown'[m] = shown[m] + 0
    BY DEF Show
  <2>2. \A m \in Positions : shown[m] \in Nat
    BY DEF TypeInv, TypeOK
  <2> QED BY <2>1, <2>2
<1>4. ASSUME NEW u \in Threads, NEW m \in lines'[u]
      PROVE  shown'[m] = 0 /\ (IsMarked(m)' \/ ToMark(u, m)')
  <2>1. u # t /\ m \in lines[u] /\ pc'[u] = pc[u] /\ pos'[u] = pos[u]
    BY <1>1, <1>4 DEF Others
  <2>2. m \in Positions /\ m \notin lines[t]
    BY <2>1, Locals DEF Answers
  <2>3. shown[m] = 0 /\ (IsMarked(m) \/ ToMark(u, m))
    BY <2>1 DEF Answers
  <2>4. ToMark(u, m) => ToMark(u, m)'
    BY <1>1, <2>1 DEF ToMark
  <2> QED BY <1>2, <1>3, <2>2, <2>3, <2>4
<1>5. ASSUME NEW m \in Positions
      PROVE  shown'[m] <= 1 /\ (shown'[m] > 0 => IsMarked(m)')
  <2>1. CASE m \in lines[t]
    <3>1. shown[m] = 0 /\ IsMarked(m)
      BY <1>1, <2>1 DEF Answers, ToMark
    <3> QED BY <1>2, <1>3, <2>1, <3>1
  <2>2. CASE m \notin lines[t]
    BY <1>2, <1>3, <2>2 DEF Answers
  <2> QED BY <2>1, <2>2
<1>6. \A u, w \in Threads : u # w => lines'[u] \cap lines'[w] = {}
  <2>1. \A u \in Threads : u # t => lines'[u] = lines[u]
    BY <1>1 DEF Others
  <2> QED BY <1>1, <2>1 DEF Answers
<1> QED BY <1>4, <1>5, <1>6 DEF Answers

\* Every step keeps the answers apart.
LEMMA AnswersStep ==
  ASSUME TypeInv, Copied, Once, LockInv, AnswersInv, [Next]_vars
  PROVE  AnswersInv'
<1> SUFFICES ASSUME Exclusive', trouble' = 0 PROVE Answers'
  BY DEF AnswersInv
<1>1. Exclusive /\ trouble = 0 /\ Answers
  BY CalmStep DEF Exclusive, AnswersInv
<1>2. CASE UNCHANGED vars
  BY <1>1, <1>2 DEF vars, locals, ghosts, Answers, IsMarked, ToMark
<1>3. ASSUME NEW t \in Threads, Receive(t) \/ SeekEnd(t) \/ LockFile(t) \/ UnlockFile(t)
      PROVE  Answers'
  <2>1. Others(t)
    BY <1>3, StepOfOne DEF HandlerStep
  <2>2. pc[t] # "mark" /\ lines' = lines /\ shown' = shown
    BY <1>3 DEF Receive, SeekEnd, LockFile, UnlockFile, locals, ghosts
  <2> QED BY <1>1, <2>1, <2>2, AnswersKept
<1>4. ASSUME NEW t \in Threads, ViewFeedback(t) \/ AppendFeedback(t)
      PROVE  Answers'
  <2>1. Others(t)
    BY <1>4, StepOfOne DEF HandlerStep
  <2>2. pc[t] # "mark" /\ lines'[t] = {} /\ shown' = shown
    BY <1>4 DEF ViewFeedback, AppendFeedback, Return, ghosts, TypeInv, TypeOK
  <2> QED BY <1>1, <2>1, <2>2, AnswersKept
<1> QED BY <1>1, <1>2, <1>3, <1>4, AnswersRead, AnswersMark, AnswersShow, CalmStep
        DEF HandlerStep

\* Where no two threads share a process and nothing fails, no message is shown
\* to two managers: review_feedbacks() keeps the lock from its first read() to
\* its last write(), so that what another manager's answer holds is marked by
\* the time the lock is granted again.
THEOREM ShownToOne == Spec => []ShownOnce
<1>1. Init => Copied /\ Once /\ LockInv /\ AnswersInv
  <2>1. Init => LockInv
    BY DEF Init, LockInv, HoldsFile
  <2>2. Init => AnswersInv
    BY DEF Init, AnswersInv, Answers
  <2> QED BY <2>1, <2>2, InitOnce
<1>2. /\ TypeInv /\ (Copied /\ Once /\ LockInv /\ AnswersInv) /\ [Next]_vars
      => (Copied /\ Once /\ LockInv /\ AnswersInv)'
  BY CopiedStep, OnceStep, LockStep, AnswersStep
<1>3. Spec => []TypeInv
  BY TypeCorrect, PTL DEF TypeInv
<1>4. AnswersInv => ShownOnce
  BY DEF AnswersInv, Answers, ShownOnce
<1> QED BY <1>1, <1>2, <1>3, <1>4, SpecSteps, PTL
=============================================================================
