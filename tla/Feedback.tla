------------------------------ MODULE Feedback ------------------------------
(***************************************************************************)
(* feedback.db: add_feedback() and view_feedback_status()                  *)
(* (customer_module.c), append_feedback() (utils.c) and the batch update   *)
(* of review_feedbacks() (manager_module.c).                               *)
(*                                                                         *)
(* Each message is told apart by a number.  An answer of 1024 bytes has    *)
(* room for MaxLines messages; a line that does not fit is cut off, and    *)
(* its message is marked as reviewed all the same.                         *)
(***************************************************************************)
EXTENDS Integers, Sequences, FiniteSets, FileLocks

CONSTANTS Threads,      \* client threads
          Regimes,      \* ways in which threads may belong to processes
          MaxLines,     \* messages that fit into an answer
          MaxMessages,  \* bound: messages handed in
          MaxRequests,  \* bound: requests in a behaviour
          MaxTrouble    \* bound: failing calls, exits and vanished clients

ASSUME RegimesAssumption == Regimes \subseteq [Threads -> Procs]
ASSUME BoundsAssumption ==
  /\ MaxLines \in Nat /\ MaxMessages \in Nat
  /\ MaxRequests \in Nat /\ MaxTrouble \in Nat

VARIABLES
  procOf,    \* the process each thread belongs to
  feedback,  \* feedback.db
  fbLock,    \* fcntl locks on its records
  pc,        \* the next system call of each thread
  msg,       \* the message being added, 0 if none
  id,        \* fb_id computed from lseek(), not yet written
  pos,       \* the record review_feedbacks() has come to
  fb,        \* that record as it was read
  lines,     \* the messages in the answer so far
  served, added, trouble,   \* counters for the bounds
  acked,     \* history: messages answered "Feedback Submitted"
  shown,     \* history: how often a message was shown to a manager
  overflow   \* history: a line was cut off

locals == <<msg, id, pos, fb, lines>>
counts == <<served, added, trouble>>
ghosts == <<acked, shown, overflow>>
vars   == <<procOf, feedback, fbLock, pc, locals, counts, ghosts>>

-----------------------------------------------------------------------------
Positions == 1..MaxMessages

\* No two threads share a process, so that the locks exclude.
Exclusive == \A t, u \in Threads : procOf[t] = procOf[u] => t = u

NoRecord == [fb_id |-> 0, message |-> 0, reviewed |-> FALSE]

Init ==
  /\ procOf \in Regimes
  /\ feedback = << >>
  /\ fbLock = Unlocked(Positions)
  /\ pc = [t \in Threads |-> "recv"]
  /\ msg = [t \in Threads |-> 0]
  /\ id = [t \in Threads |-> 0]
  /\ pos = [t \in Threads |-> 0]
  /\ fb = [t \in Threads |-> NoRecord]
  /\ lines = [t \in Threads |-> {}]
  /\ served = 0 /\ added = 0 /\ trouble = 0
  /\ acked = {}
  /\ shown = [m \in Positions |-> 0]
  /\ overflow = FALSE

Goto(t, step) == pc' = [pc EXCEPT ![t] = step]

\* The thread is back at recv_request(), its handler's locals gone.
Return(t) ==
  /\ Goto(t, "recv")
  /\ msg' = [msg EXCEPT ![t] = 0]
  /\ id' = [id EXCEPT ![t] = 0]
  /\ pos' = [pos EXCEPT ![t] = 0]
  /\ fb' = [fb EXCEPT ![t] = NoRecord]
  /\ lines' = [lines EXCEPT ![t] = {}]

-----------------------------------------------------------------------------
(* Requests.                                                               *)

add_feedback(t) ==
  /\ added < MaxMessages
  /\ added' = added + 1
  /\ msg' = [msg EXCEPT ![t] = added + 1]
  /\ Goto(t, "seek")

view_feedback_status(t) == Goto(t, "view") /\ UNCHANGED <<added, msg>>

review_feedbacks(t) == Goto(t, "lock") /\ UNCHANGED <<added, msg>>

Receive(t) ==
  /\ pc[t] = "recv"
  /\ served < MaxRequests
  /\ served' = served + 1
  /\ add_feedback(t) \/ view_feedback_status(t) \/ review_feedbacks(t)
  /\ UNCHANGED <<procOf, feedback, fbLock, id, pos, fb, lines, trouble, ghosts>>

\* view_feedback_status(): a scan of the file opened O_RDONLY.
ViewFeedback(t) ==
  /\ pc[t] = "view"
  /\ fbLock' = ReadOnlyPass(fbLock, procOf[t])
  /\ Return(t)
  /\ UNCHANGED <<procOf, feedback, counts, ghosts>>

-----------------------------------------------------------------------------
(* append_feedback().                                                      *)

\* Mutant: the offset of the last record is taken for the end.
NextIdOfLast(t) == Len(feedback) - 1

\* lseek(SEEK_END) / sizeof(feedback_rec_t) + 1.
NextId(t) == Len(feedback) + 1

\* open(O_WRONLY | O_APPEND); lock_file(); lseek().
SeekEnd(t) ==
  /\ pc[t] = "seek"
  /\ Grantable(fbLock, Positions, procOf[t])
  /\ fbLock' = Lock(fbLock, Positions, procOf[t])
  /\ id' = [id EXCEPT ![t] = NextId(t)]
  /\ Goto(t, "append")
  /\ UNCHANGED <<procOf, feedback, msg, pos, fb, lines, counts, ghosts>>

NewRecord(t) == [fb_id |-> id[t], message |-> msg[t], reviewed |-> FALSE]

\* Mutant: the file is opened without O_APPEND.
PutAtOffset(t) ==
  feedback' = IF id[t] <= Len(feedback)
                THEN [feedback EXCEPT ![id[t]] = NewRecord(t)]
                ELSE Append(feedback, NewRecord(t))

\* write() to an O_APPEND descriptor.
PutAtEnd(t) == feedback' = Append(feedback, NewRecord(t))

\* write(); unlock_file(); close(); the customer is told the id.
AppendFeedback(t) ==
  /\ pc[t] = "append"
  /\ PutAtEnd(t)
  /\ acked' = acked \cup {msg[t]}
  /\ fbLock' = Close(fbLock, procOf[t])
  /\ Return(t)
  /\ UNCHANGED <<procOf, counts, shown, overflow>>

-----------------------------------------------------------------------------
(* review_feedbacks().                                                     *)

\* Mutant: the lock is not waited for.
LockFileNoWait(t) ==
  /\ pc[t] = "lock"
  /\ Goto(t, "read")
  /\ UNCHANGED <<procOf, feedback, fbLock, locals, counts, ghosts>>

\* open(O_RDWR); lock_file().
LockFile(t) ==
  /\ pc[t] = "lock"
  /\ Grantable(fbLock, Positions, procOf[t])
  /\ fbLock' = Lock(fbLock, Positions, procOf[t])
  /\ Goto(t, "read")
  /\ UNCHANGED <<procOf, feedback, locals, counts, ghosts>>

\* read() of the next record: a reviewed one is passed over, another one is
\* put into the answer if it fits.
ReadNext(t) ==
  LET next == pos[t] + 1
      rec  == feedback[next]
  IN  /\ pc[t] = "read"
      /\ \/ /\ next <= Len(feedback) /\ rec.reviewed
            /\ pos' = [pos EXCEPT ![t] = next]
            /\ UNCHANGED <<pc, fb, lines, overflow>>
         \/ /\ next <= Len(feedback) /\ ~rec.reviewed
            /\ fb' = [fb EXCEPT ![t] = rec]
            /\ \/ /\ Cardinality(lines[t]) < MaxLines
                  /\ lines' = [lines EXCEPT ![t] = @ \cup {rec.message}]
                  /\ UNCHANGED overflow
               \/ /\ Cardinality(lines[t]) >= MaxLines
                  /\ overflow' = TRUE
                  /\ UNCHANGED lines
            /\ Goto(t, "mark")
            /\ UNCHANGED pos
         \/ /\ next > Len(feedback)
            /\ Goto(t, "unlock")
            /\ UNCHANGED <<pos, fb, lines, overflow>>
      /\ UNCHANGED <<procOf, feedback, fbLock, msg, id, counts, acked, shown>>

\* Mutant: pos is not advanced past reviewed records.
MarkPosStuck(t) == Cardinality(lines[t])

\* The offset the marked record is written to.
MarkPos(t) == pos[t] + 1

\* fb.reviewed = 1.
Marked(t) == [fb[t] EXCEPT !.reviewed = TRUE]

\* lseek(pos); write(); lseek() past the record.
MarkReviewed(t) ==
  /\ pc[t] = "mark"
  /\ feedback' = [feedback EXCEPT ![MarkPos(t)] = Marked(t)]
  /\ pos' = [pos EXCEPT ![t] = @ + 1]
  /\ Goto(t, "read")
  /\ UNCHANGED <<procOf, fbLock, msg, id, fb, lines, counts, ghosts>>

\* Mutant: the file is not closed.
UnlockFileForgets(t) ==
  /\ pc[t] = "unlock"
  /\ Goto(t, "send")
  /\ UNCHANGED <<procOf, feedback, fbLock, locals, counts, ghosts>>

\* unlock_file(); close().
UnlockFile(t) ==
  /\ pc[t] = "unlock"
  /\ fbLock' = Close(fbLock, procOf[t])
  /\ Goto(t, "send")
  /\ UNCHANGED <<procOf, feedback, locals, counts, ghosts>>

\* Mutant: the answer is overwritten by "No new feedback found to review."
ShowNothing(t) ==
  /\ pc[t] = "send"
  /\ Return(t)
  /\ UNCHANGED <<procOf, feedback, fbLock, counts, ghosts>>

\* send_response(), and the manager reads the answer.
Show(t) ==
  /\ pc[t] = "send"
  /\ shown' = [m \in Positions |-> shown[m] + IF m \in lines[t] THEN 1 ELSE 0]
  /\ Return(t)
  /\ UNCHANGED <<procOf, feedback, fbLock, counts, acked, overflow>>

-----------------------------------------------------------------------------
(* What can go wrong.                                                      *)

Trouble == trouble < MaxTrouble /\ trouble' = trouble + 1

\* A failed open() ends the request, a failed lock_file() and the failed
\* write()s are not noticed, a failed read() ends the loop, and the answer to
\* a manager who has gone is lost.
SystemCallFails(t) ==
  /\ Trouble
  /\ \/ /\ pc[t] \in {"seek", "view", "lock", "send"}
        /\ Return(t)
        /\ UNCHANGED <<fbLock, acked>>
     \/ /\ pc[t] = "seek"
        /\ id' = [id EXCEPT ![t] = NextId(t)]
        /\ Goto(t, "append")
        /\ UNCHANGED <<fbLock, acked, msg, pos, fb, lines>>
     \/ /\ pc[t] = "append"
        /\ fbLock' = Close(fbLock, procOf[t])
        /\ acked' = acked \cup {msg[t]}
        /\ Return(t)
     \/ /\ pc[t] = "lock"
        /\ Goto(t, "read")
        /\ UNCHANGED <<fbLock, acked, locals>>
     \/ /\ pc[t] = "read"
        /\ Goto(t, "unlock")
        /\ UNCHANGED <<fbLock, acked, locals>>
     \/ /\ pc[t] = "mark"
        /\ pos' = [pos EXCEPT ![t] = @ + 1]
        /\ Goto(t, "read")
        /\ UNCHANGED <<fbLock, acked, msg, id, fb, lines>>
  /\ UNCHANGED <<procOf, feedback, served, added, shown, overflow>>

\* A process exits, its threads with it, and is started again.
Exit(p) ==
  LET Dead(f, v) == [t \in Threads |-> IF procOf[t] = p THEN v ELSE f[t]]
  IN  /\ Trouble
      /\ \E t \in Threads : procOf[t] = p
      /\ fbLock' = Close(fbLock, p)
      /\ pc' = Dead(pc, "recv")
      /\ msg' = Dead(msg, 0)
      /\ id' = Dead(id, 0)
      /\ pos' = Dead(pos, 0)
      /\ fb' = Dead(fb, NoRecord)
      /\ lines' = Dead(lines, {})
      /\ UNCHANGED <<procOf, feedback, served, added, ghosts>>

-----------------------------------------------------------------------------
HandlerStep(t) ==
  \/ ViewFeedback(t) \/ SeekEnd(t) \/ AppendFeedback(t)
  \/ LockFile(t) \/ ReadNext(t) \/ MarkReviewed(t) \/ UnlockFile(t) \/ Show(t)

Next ==
  \/ \E t \in Threads : Receive(t) \/ HandlerStep(t) \/ SystemCallFails(t)
  \/ \E p \in Procs : Exit(p)

\* Threads are scheduled, and woken when a lock they wait for is free.
Spec == Init /\ [][Next]_vars /\ \A t \in Threads : WF_vars(HandlerStep(t))

-----------------------------------------------------------------------------
(* Properties.                                                             *)

FbRec == [fb_id : Nat, message : Positions \cup {0}, reviewed : BOOLEAN]

TypeOK ==
  /\ procOf \in Regimes
  /\ feedback \in Seq(FbRec) /\ Len(feedback) <= MaxMessages
  /\ fbLock \in LockTable(Positions)
  /\ pc \in [Threads -> {"recv", "view", "seek", "append", "lock", "read", "mark",
                         "unlock", "send"}]
  /\ msg \in [Threads -> 0..MaxMessages]
  /\ id \in [Threads -> Nat]
  /\ pos \in [Threads -> 0..MaxMessages]
  /\ fb \in [Threads -> FbRec]
  /\ lines \in [Threads -> SUBSET Positions]
  /\ served \in Nat /\ added \in Nat /\ trouble \in Nat
  /\ acked \subseteq Positions /\ shown \in [Positions -> Nat]
  /\ overflow \in BOOLEAN

\* The batch update writes back what it read, perhaps long after: it never
\* changes a message or its place in the file, nor takes a mark away, whatever
\* is appended or marked meanwhile and whatever fails.
FeedbackKept ==
  [][ \A i \in DOMAIN feedback :
        /\ i \in DOMAIN feedback'
        /\ \/ feedback'[i] = feedback[i]
           \/ feedback'[i] = [feedback[i] EXCEPT !.reviewed = TRUE] ]_vars

\* "Feedback Submitted": the message is in the file, once, and under the id
\* the customer was told where the locks exclude.  In one server threads
\* append over each other's locks, and O_APPEND alone keeps the messages.
AckedIsKept ==
  trouble = 0 =>
    \A m \in acked : \E i \in DOMAIN feedback :
      \A j \in DOMAIN feedback :
        (feedback[j].message = m <=> j = i) /\ (Exclusive => feedback[j].fb_id = j)

\* "Managers can review all unread feedback": every message that
\* review_feedbacks() has marked was shown to a manager or is in an answer
\* under way, however many there are and whoever has gone.
AllUnreadShown ==
  \A i \in DOMAIN feedback :
    feedback[i].reviewed => \/ shown[feedback[i].message] > 0
                            \/ \E t \in Threads : feedback[i].message \in lines[t]

\* It is so unless the answer was full or was lost: a message is marked only
\* once it has been added to the answer.
MarkedIsShown == trouble = 0 /\ ~overflow => AllUnreadShown

\* Where the lock excludes, no message is shown to two managers.
ShownOnce == Exclusive /\ trouble = 0 => \A m \in Positions : shown[m] <= 1

\* No review goes on for ever and no handler waits for ever for the lock.
EveryRequestAnswered == \A t \in Threads : pc[t] # "recv" ~> pc[t] = "recv"
=============================================================================
