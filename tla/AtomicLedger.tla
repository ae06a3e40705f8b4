---------------------------- MODULE AtomicLedger ----------------------------
(***************************************************************************)
(* What the record updates of accounts.db and the appends to               *)
(* transactions.db promise (README.md:54 of the repository): each happens  *)
(* in one step, on the record as it is at that moment.                     *)
(***************************************************************************)
EXTENDS Integers, Sequences

CONSTANTS Accounts,   \* user ids with a record in accounts.db
          Amounts,    \* the amounts clients send
          Opening,    \* the balance each account starts with
          Entries     \* what a transaction record can say, without its id

VARIABLES accounts,   \* accounts.db
          txns        \* transactions.db

avars == <<accounts, txns>>

AInit ==
  /\ accounts = [a \in Accounts |-> [balance |-> Opening[a], active |-> TRUE]]
  /\ txns = << >>

\* A deposit, a received transfer, a loan, or a transfer undone.
ACredit(a, n) ==
  /\ n > 0
  /\ accounts[a].active
  /\ accounts' = [accounts EXCEPT ![a].balance = @ + n]
  /\ UNCHANGED txns

\* A withdrawal or a sent transfer, from funds that are there.
ADebit(a, n) ==
  /\ n > 0
  /\ accounts[a].active
  /\ accounts[a].balance >= n
  /\ accounts' = [accounts EXCEPT ![a].balance = @ - n]
  /\ UNCHANGED txns

ASetStatus(a, s) ==
  /\ accounts' = [accounts EXCEPT ![a].active = s]
  /\ UNCHANGED txns

\* A record is added, never put in another's place; its id is a position
\* the file already has, or its own.
ALog(e) ==
  /\ \E i \in 1..(Len(txns) + 1) : txns' = Append(txns, [id |-> i, entry |-> e])
  /\ UNCHANGED accounts

ANext ==
  \/ \E a \in Accounts, n \in Amounts : ACredit(a, n) \/ ADebit(a, n)
  \/ \E a \in Accounts, s \in BOOLEAN : ASetStatus(a, s)
  \/ \E e \in Entries : ALog(e)

ASpec == AInit /\ [][ANext]_avars
=============================================================================
