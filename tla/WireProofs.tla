----------------------------- MODULE WireProofs -----------------------------
(***************************************************************************)
(* Proofs about Wire, for every set of roles, any number of requests and   *)
(* any number of reads that come up short.                                 *)
(***************************************************************************)
EXTENDS Wire, SequenceTheorems, TLAPS

-----------------------------------------------------------------------------
(* Lemmas about the operators the model is built from.                     *)

\* The smaller of two numbers.
LEMMA MinOfTwo ==
  ASSUME NEW a \in Int, NEW b \in Int
  PROVE  Min({a, b}) = IF a <= b THEN a ELSE b
BY DEF Min

\* The operations of the protocol.
LEMMA Operations ==
  DOMAIN Conversions =
    {"LOGIN", "LOGOUT", "CHANGE_PASSWORD", "VIEW_BALANCE", "DEPOSIT", "WITHDRAW",
     "TRANSFER", "APPLY_LOAN", "VIEW_LOAN", "ADD_FEEDBACK", "VIEW_FEEDBACK",
     "VIEW_TRANSACTIONS", "VIEW_DETAILS", "ADD_CUSTOMER", "MODIFY_CUSTOMER",
     "PROCESS_LOANS", "APPROVE_REJECT_LOAN", "VIEW_ASSIGNED_LOANS",
     "VIEW_CUST_TRANSACTIONS", "SET_ACCOUNT_STATUS", "VIEW_NON_ASSIGNED_LOANS",
     "ASSIGN_LOAN", "REVIEW_FEEDBACK", "ADD_EMPLOYEE", "MODIFY_USER", "LIST_USERS",
     "CHANGE_ROLE"}
BY DEF Conversions

\* What the menus offer are operations, and neither LOGIN nor CHANGE_ROLE.
LEMMA MenuOps ==
  ASSUME NEW r \in Roles, NEW op \in MenuOf[r]
  PROVE  op \in DOMAIN Conversions \ {"LOGIN", "CHANGE_ROLE"}
<1>1. r \in {"customer", "employee", "manager", "admin"}
  BY RolesAssumption
<1>2. MenuOf[r] \in {CustomerMenu, EmployeeMenu, ManagerMenu, AdminMenu}
  BY <1>1 DEF MenuOf
<1> QED BY <1>2, Operations DEF CustomerMenu, EmployeeMenu, ManagerMenu, AdminMenu

\* A read() comes up short.
Short(stream, k) == k < 3 /\ k < Len(stream)

\* What a read() may return.
LEMMA ReadsAre ==
  ASSUME NEW stream, Len(stream) \in Nat, NEW k \in ReadsOf(stream)
  PROVE  /\ k \in 1..3 /\ k <= Len(stream)
         /\ Short(stream, k) => shorts < MaxShorts
         /\ Shortened(stream, k) => shorts' = IF Short(stream, k) THEN shorts + 1 ELSE shorts
<1>1. Min({3, Len(stream)}) = IF 3 <= Len(stream) THEN 3 ELSE Len(stream)
  BY MinOfTwo
<1> QED BY <1>1 DEF ReadsOf, Shortened, Short

\* What a read() leaves behind.
LEMMA RestIs ==
  ASSUME NEW S, NEW stream \in Seq(S), NEW k \in 1..3, k <= Len(stream)
  PROVE  /\ Rest(stream, k) \in Seq(S)
         /\ Len(Rest(stream, k)) = Len(stream) - k
         /\ \A i \in 1..(Len(stream) - k) : /\ Rest(stream, k)[i] = stream[i + k]
                                            /\ i + k \in 1..Len(stream)
<1>1. Len(stream) \in Nat
  OBVIOUS
<1> QED BY <1>1 DEF Rest

\* What a write() adds.
LEMMA SentIs ==
  ASSUME NEW stream \in Seq(Segment), NEW n \in Nat
  PROVE  /\ stream \o Segments(n) \in Seq(Segment)
         /\ Len(stream \o Segments(n)) = Len(stream) + 3
         /\ \A i \in 1..Len(stream) : (stream \o Segments(n))[i] = stream[i]
         /\ (stream \o Segments(n))[Len(stream) + 1] = [of |-> n, part |-> "head"]
         /\ (stream \o Segments(n))[Len(stream) + 2] = [of |-> n, part |-> "text"]
         /\ (stream \o Segments(n))[Len(stream) + 3] = [of |-> n, part |-> "padding"]
<1>1. /\ Segments(n) \in Seq(Segment) /\ Len(Segments(n)) = 3
      /\ Segments(n)[1] = [of |-> n, part |-> "head"]
      /\ Segments(n)[2] = [of |-> n, part |-> "text"]
      /\ Segments(n)[3] = [of |-> n, part |-> "padding"]
  BY DEF Segments, Segment
<1> DEFINE tail == Segments(n)
           new == stream \o tail
<1> HIDE DEF tail
<1>2. Len(stream) \in Nat /\ tail \in Seq(Segment) /\ Len(tail) = 3
  BY <1>1 DEF tail
<1>3. /\ new \in Seq(Segment) /\ Len(new) = Len(stream) + 3
      /\ \A i \in 1..(Len(stream) + 3) :
           new[i] = IF i <= Len(stream) THEN stream[i] ELSE tail[i - Len(stream)]
  <2>1. /\ new \in Seq(Segment) /\ Len(new) = Len(stream) + Len(tail)
        /\ \A i \in 1..(Len(stream) + Len(tail)) :
             new[i] = IF i <= Len(stream) THEN stream[i] ELSE tail[i - Len(stream)]
    BY <1>2, ConcatProperties
  <2> HIDE DEF new
  <2> QED BY <1>2, <2>1
<1> HIDE DEF new
<1>4. \A i \in 1..Len(stream) : new[i] = stream[i]
  BY <1>2, <1>3
<1>5. /\ new[Len(stream) + 1] = tail[1]
      /\ new[Len(stream) + 2] = tail[2]
      /\ new[Len(stream) + 3] = tail[3]
  BY <1>2, <1>3
<1> QED BY <1>1, <1>3, <1>4, <1>5 DEF new, tail

-----------------------------------------------------------------------------
(* Type correctness.  Flow says what a step may assume: segments are of    *)
(* requests and answers that exist, and a menu is shown to those who       *)
(* logged in.                                                              *)

OnWire(stream, n) ==
  \A i \in 1..Len(stream) : stream[i].of \in 1..n /\ stream[i].part # "none"

Flow ==
  /\ OnWire(up, Len(requests)) /\ OnWire(down, Len(answers))
  /\ \A i \in 1..3 : buf[i].part # "none" => buf[i].of \in 1..Len(requests)
  /\ server = "route" => buf[1].part # "none"
  /\ server = "send" => Len(answers) > 0
  /\ client = "prompt" => menu = "none"
  /\ client \in {"menu", "role"} => menu \in Roles
  /\ client = "wait" => /\ Len(requests) > 0
                        /\ requests[Len(requests)] = "LOGIN" <=> menu = "none"

TypeInv == TypeOK /\ Flow

\* The answer a read() of the client leaves in its buffer: the text it gets,
\* or the one that was there.
TextRead(k) == TextAfter(resp[IF menu = "none" THEN "main" ELSE "menu"], k)

\* "none" is no role.
LEMMA NoneIsNoRole == "none" \notin Roles
BY RolesAssumption

\* write() of a request.
LEMMA SendTyped ==
  ASSUME TypeInv, NEW op \in DOMAIN Conversions, Send(op), op = "LOGIN" <=> menu = "none",
         UNCHANGED <<answers, down, menu, server, buf>>
  PROVE  /\ requests' \in Seq(DOMAIN Conversions) /\ Len(requests') <= MaxRequests
         /\ up' \in Seq(Segment) /\ client' \in {"wait", "gone"} /\ reset' \in BOOLEAN
         /\ Flow'
<1>0. /\ requests \in Seq(DOMAIN Conversions) /\ Len(requests) \in Nat
      /\ Len(requests) <= MaxRequests
      /\ up \in Seq(Segment) /\ Len(up) \in Nat /\ reset \in BOOLEAN
  BY DEF TypeInv, TypeOK
<1>1. CASE requests' = Append(requests, op) /\ Len(requests) < MaxRequests /\ client' = "wait"
  <2>1. /\ requests' \in Seq(DOMAIN Conversions) /\ Len(requests') = Len(requests) + 1
        /\ requests'[Len(requests')] = op
    BY <1>0, <1>1
  <2>2. Len(requests') <= MaxRequests
    BY <1>0, <1>1, <2>1, BoundsAssumption
  <2>3. reset' \in BOOLEAN
    BY <1>0, <1>1 DEF Send
  <2>4. up' = up \/ up' = up \o Segments(Len(requests) + 1)
    BY <1>1 DEF Send
  <2>5. up' \in Seq(Segment) /\ OnWire(up', Len(requests'))
    <3>1. CASE up' = up
      BY <1>0, <2>1, <3>1 DEF TypeInv, Flow, OnWire
    <3>2. CASE up' = up \o Segments(Len(requests) + 1)
      <4>1. /\ up' \in Seq(Segment) /\ Len(up') = Len(up) + 3
            /\ \A i \in 1..Len(up) : up'[i] = up[i]
            /\ up'[Len(up) + 1] = [of |-> Len(requests) + 1, part |-> "head"]
            /\ up'[Len(up) + 2] = [of |-> Len(requests) + 1, part |-> "text"]
            /\ up'[Len(up) + 3] = [of |-> Len(requests) + 1, part |-> "padding"]
        BY <1>0, <3>2, SentIs
      <4>2. \A i \in 1..Len(up') : \/ i \in 1..Len(up) \/ i = Len(up) + 1
                                   \/ i = Len(up) + 2 \/ i = Len(up) + 3
        BY <1>0, <4>1
      <4>3. \A i \in 1..Len(up) : up[i].of \in 1..Len(requests) /\ up[i].part # "none"
        BY DEF TypeInv, Flow, OnWire
      <4>4. 1..Len(requests) \subseteq 1..Len(requests') /\ Len(requests) + 1 \in 1..Len(requests')
        BY <1>0, <2>1
      <4>5. ASSUME NEW i \in 1..Len(up')
            PROVE  up'[i].of \in 1..Len(requests') /\ up'[i].part # "none"
        <5>1. CASE i \in 1..Len(up)
          <6>1. up'[i] = up[i]
            BY <4>1, <5>1
          <6> QED BY <4>3, <4>4, <5>1, <6>1
        <5>2. CASE i = Len(up) + 1
          <6>1. up'[i] = [of |-> Len(requests) + 1, part |-> "head"]
            BY <4>1, <5>2
          <6> QED BY <4>4, <6>1
        <5>3. CASE i = Len(up) + 2
          <6>1. up'[i] = [of |-> Len(requests) + 1, part |-> "text"]
            BY <4>1, <5>3
          <6> QED BY <4>4, <6>1
        <5>4. CASE i = Len(up) + 3
          <6>1. up'[i] = [of |-> Len(requests) + 1, part |-> "padding"]
            BY <4>1, <5>4
          <6> QED BY <4>4, <6>1
        <5> QED BY <4>2, <5>1, <5>2, <5>3, <5>4
      <4> QED BY <4>1, <4>5 DEF OnWire
    <3> QED BY <2>4, <3>1, <3>2
  <2>6. \A i \in 1..3 : buf'[i].part # "none" => buf'[i].of \in 1..Len(requests')
    BY <1>0, <2>1 DEF TypeInv, Flow
  <2>7. Flow'
    BY <1>1, <2>1, <2>5, <2>6 DEF TypeInv, Flow, OnWire
  <2> QED BY <1>1, <2>1, <2>2, <2>3, <2>5, <2>7
<1>2. CASE client' = "gone" /\ UNCHANGED <<requests, up, reset>>
  BY <1>0, <1>2 DEF TypeInv, Flow, OnWire
<1> QED BY <1>1, <1>2 DEF Send

\* The steps in which the client writes.
LEMMA ClientStepTyped ==
  ASSUME TypeInv, ClientStep
  PROVE  TypeInv'
<1> USE DEF clientVars, serverVars
<1>0. TypeOK /\ Flow
  BY DEF TypeInv
<1>1. CASE Login
  <2>1. "LOGIN" \in DOMAIN Conversions
    BY Operations
  <2>2. menu = "none"
    BY <1>0, <1>1 DEF Login, Flow
  <2>3. Send("LOGIN") /\ UNCHANGED <<answers, down, menu, resp, shown, told, server, buf, runs, shorts, refused>>
    BY <1>1 DEF Login
  <2>4. /\ requests' \in Seq(DOMAIN Conversions) /\ Len(requests') <= MaxRequests
        /\ up' \in Seq(Segment) /\ client' \in {"wait", "gone"} /\ reset' \in BOOLEAN
        /\ Flow'
    BY <2>1, <2>2, <2>3, SendTyped
  <2>5. TypeOK'
    BY <1>0, <2>3, <2>4 DEF TypeOK
  <2> QED BY <2>4, <2>5 DEF TypeInv
<1>2. ASSUME NEW op, Choose(op) PROVE TypeInv'
  <2>1. menu \in Roles
    BY <1>0, <1>2 DEF Choose, Flow
  <2>2. op \in DOMAIN Conversions /\ (op = "LOGIN" <=> menu = "none")
    BY <1>2, <2>1, MenuOps, NoneIsNoRole DEF Choose
  <2>3. Send(op) /\ UNCHANGED <<answers, down, menu, shown, told, server, buf, runs, shorts, refused>>
    BY <1>2 DEF Choose
  <2>4. /\ requests' \in Seq(DOMAIN Conversions) /\ Len(requests') <= MaxRequests
        /\ up' \in Seq(Segment) /\ client' \in {"wait", "gone"} /\ reset' \in BOOLEAN
        /\ Flow'
    BY <2>2, <2>3, SendTyped
  <2>5. resp' \in [main : 0..Len(answers), menu : 0..Len(answers)]
    <3>1. 0 \in 0..Len(answers)
      BY <1>0 DEF TypeOK
    <3>2. resp \in [main : 0..Len(answers), menu : 0..Len(answers)]
      BY <1>0 DEF TypeOK
    <3>3. resp' = [resp EXCEPT !.menu = 0]
      BY <1>2 DEF Choose
    <3> QED BY <3>1, <3>2, <3>3
  <2>6. TypeOK'
    BY <1>0, <2>3, <2>4, <2>5 DEF TypeOK
  <2> QED BY <2>4, <2>6 DEF TypeInv
<1>3. CASE SendChangeRole
  <2>1. "CHANGE_ROLE" \in DOMAIN Conversions
    BY Operations
  <2>2. menu # "none"
    BY <1>0, <1>3, NoneIsNoRole DEF SendChangeRole, Flow
  <2>3. Send("CHANGE_ROLE") /\ UNCHANGED <<answers, down, menu, resp, shown, told, server, buf, runs, shorts, refused>>
    BY <1>3 DEF SendChangeRole
  <2>4. /\ requests' \in Seq(DOMAIN Conversions) /\ Len(requests') <= MaxRequests
        /\ up' \in Seq(Segment) /\ client' \in {"wait", "gone"} /\ reset' \in BOOLEAN
        /\ Flow'
    BY <2>1, <2>2, <2>3, SendTyped
  <2>5. TypeOK'
    BY <1>0, <2>3, <2>4 DEF TypeOK
  <2> QED BY <2>4, <2>5 DEF TypeInv
<1>4. CASE RefuseEmployee
  <2>1. "ADD_EMPLOYEE" \in DOMAIN Conversions
    BY Operations
  <2>2. refused' \subseteq DOMAIN Conversions
    BY <1>0, <1>4, <2>1 DEF RefuseEmployee, TypeOK
  <2>3. UNCHANGED <<requests, answers, up, down, client, menu, resp, shown, told, server, buf,
                    runs, reset, shorts>>
    BY <1>4 DEF RefuseEmployee
  <2>4. TypeOK'
    BY <1>0, <2>2, <2>3 DEF TypeOK
  <2>5. Flow'
    BY <1>0, <2>3 DEF Flow, OnWire
  <2> QED BY <2>4, <2>5 DEF TypeInv
<1>5. CASE Leave
  <2>1. /\ client' = "gone" /\ down' = << >>
        /\ UNCHANGED <<requests, answers, up, menu, resp, shown, told, server, buf, runs, reset,
                       shorts, refused>>
    BY <1>5 DEF Leave
  <2>2. TypeOK'
    BY <1>0, <2>1 DEF TypeOK
  <2>3. Flow'
    BY <1>0, <2>1 DEF Flow, OnWire
  <2> QED BY <2>2, <2>3 DEF TypeInv
<1> QED BY <1>1, <1>2, <1>3, <1>4, <1>5 DEF ClientStep

\* What read() of a response does, without the names of its locals.
LEMMA ReceiveIs ==
  ASSUME Receive
  PROVE  /\ client = "wait"
         /\ UNCHANGED <<requests, answers, up, told, server, buf, runs, reset, refused>>
         /\ \E k \in ReadsOf(down) :
              /\ Shortened(down, k)
              /\ down' = Rest(down, k)
              /\ resp' = [resp EXCEPT ![IF menu = "none" THEN "main" ELSE "menu"] = TextRead(k)]
              /\ shown' = TextRead(k)
              /\ GoOn(StatusIn(down[1]), TextRead(k))
BY DEF Receive, ReadResponse, TextRead, serverVars

\* Storing a text in one of the two response buffers.
LEMMA RespPut ==
  ASSUME NEW S, NEW r \in [main : S, menu : S], NEW x \in S, NEW mine \in {"main", "menu"}
  PROVE  /\ [r EXCEPT ![mine] = x] \in [main : S, menu : S]
         /\ mine = "menu" => [r EXCEPT ![mine] = x].menu = x
         /\ r[mine] \in S
<1>1. CASE mine = "main"
  BY <1>1
<1>2. CASE mine = "menu"
  BY <1>2
<1> QED BY <1>1, <1>2

\* An element of a sequence.
LEMMA SeqAt ==
  ASSUME NEW S, NEW s \in Seq(S), NEW i \in 1..Len(s)
  PROVE  s[i] \in S
OBVIOUS

\* What an answer is.
LEMMA AnswerAt ==
  ASSUME TypeInv, NEW a \in 0..Len(answers)
  PROVE  a # 0 => /\ a \in 1..Len(answers)
                  /\ answers[a].to \in Nat
                  /\ answers[a].status \in {0, 1}
                  /\ answers[a].role \in Roles \cup {"none"}
<1> SUFFICES ASSUME a # 0
             PROVE  /\ a \in 1..Len(answers)
                    /\ answers[a].to \in Nat
                    /\ answers[a].status \in {0, 1}
                    /\ answers[a].role \in Roles \cup {"none"}
  OBVIOUS
<1>1. answers \in Seq([to : Nat, status : {0, 1}, role : Roles \cup {"none"}])
  BY DEF TypeInv, TypeOK
<1>2. a \in 1..Len(answers)
  BY <1>1
<1>3. answers[a] \in [to : Nat, status : {0, 1}, role : Roles \cup {"none"}]
  BY <1>1, <1>2, SeqAt
<1> QED BY <1>2, <1>3

\* Where the client goes on.
LEMMA GoOnTyped ==
  ASSUME TypeInv, client = "wait", NEW st, NEW a \in 0..Len(answers), GoOn(st, a)
  PROVE  /\ client' \in {"prompt", "menu", "role"}
         /\ client' = "prompt" => menu' = "none"
         /\ client' # "prompt" => menu' \in Roles
         /\ client' = "role" => requests[Len(requests)] = "LIST_USERS"
<1>0. /\ Len(requests) > 0 /\ (requests[Len(requests)] = "LOGIN" <=> menu = "none")
      /\ menu \in Roles \cup {"none"}
  BY DEF TypeInv, TypeOK, Flow
<1>1. a # 0 => answers[a].role \in Roles \cup {"none"}
  BY AnswerAt
<1> QED BY <1>0, <1>1 DEF GoOn

\* A text the client reads is that of an answer, or none.
LEMMA TextTyped ==
  ASSUME TypeInv, NEW k \in ReadsOf(down)
  PROVE  TextRead(k) \in 0..Len(answers)
<1>0. /\ resp \in [main : 0..Len(answers), menu : 0..Len(answers)]
      /\ Len(answers) \in Nat /\ Len(down) \in Nat
  BY DEF TypeInv, TypeOK
<1>1. k \in 1..3 /\ k <= Len(down)
  BY <1>0, ReadsAre
<1>2. CASE k = 1
  BY <1>0, <1>2, RespPut DEF TextRead, TextAfter
<1>3. CASE k # 1
  <2>1. 2 \in 1..Len(down)
    BY <1>0, <1>1, <1>3
  <2>2. down[2].of \in 1..Len(answers)
    BY <2>1 DEF TypeInv, Flow, OnWire
  <2> QED BY <1>0, <1>3, <2>2 DEF TextRead, TextAfter
<1> QED BY <1>2, <1>3

\* What is left on a stream is still of messages that exist.
LEMMA RestOnWire ==
  ASSUME NEW stream \in Seq(Segment), NEW n \in Nat, OnWire(stream, n),
         NEW k \in 1..3, k <= Len(stream)
  PROVE  Rest(stream, k) \in Seq(Segment) /\ OnWire(Rest(stream, k), n)
<1>1. /\ Rest(stream, k) \in Seq(Segment)
      /\ Len(Rest(stream, k)) = Len(stream) - k
      /\ \A i \in 1..(Len(stream) - k) : /\ Rest(stream, k)[i] = stream[i + k]
                                         /\ i + k \in 1..Len(stream)
  BY RestIs
<1> QED BY <1>1 DEF OnWire

\* A read() counts towards the bound if it comes up short.
LEMMA ShortsTyped ==
  ASSUME TypeInv, NEW stream, Len(stream) \in Nat, NEW k \in ReadsOf(stream),
         Shortened(stream, k)
  PROVE  shorts' \in 0..MaxShorts
<1>1. /\ Short(stream, k) => shorts < MaxShorts
      /\ shorts' = IF Short(stream, k) THEN shorts + 1 ELSE shorts
  BY ReadsAre
<1>2. shorts \in 0..MaxShorts /\ MaxShorts \in Nat
  BY BoundsAssumption DEF TypeInv, TypeOK
<1> QED BY <1>1, <1>2

\* The steps in which the client reads.
LEMMA ClientReadsTyped ==
  ASSUME TypeInv, ClientReads
  PROVE  TypeInv'
<1> USE DEF clientVars, serverVars
<1>0. /\ TypeOK /\ Flow /\ down \in Seq(Segment) /\ Len(down) \in Nat /\ Len(answers) \in Nat
      /\ resp \in [main : 0..Len(answers), menu : 0..Len(answers)]
  BY DEF TypeInv, TypeOK
<1>1. CASE Receive
  <2>1. PICK k \in ReadsOf(down) :
          /\ Shortened(down, k)
          /\ down' = Rest(down, k)
          /\ resp' = [resp EXCEPT ![IF menu = "none" THEN "main" ELSE "menu"] = TextRead(k)]
          /\ shown' = TextRead(k)
          /\ GoOn(StatusIn(down[1]), TextRead(k))
    BY <1>1, ReceiveIs
  <2>2. /\ client = "wait"
        /\ UNCHANGED <<requests, answers, up, told, server, buf, runs, reset, refused>>
    BY <1>1, ReceiveIs
  <2>3. k \in 1..3 /\ k <= Len(down) /\ TextRead(k) \in 0..Len(answers)
    BY <1>0, ReadsAre, TextTyped
  <2>4. down' \in Seq(Segment) /\ OnWire(down', Len(answers))
    BY <1>0, <2>1, <2>3, RestOnWire DEF Flow
  <2>5. /\ client' \in {"prompt", "menu", "role"}
        /\ client' = "prompt" => menu' = "none"
        /\ client' # "prompt" => menu' \in Roles
    BY <2>1, <2>2, <2>3, GoOnTyped
  <2>6. resp' \in [main : 0..Len(answers), menu : 0..Len(answers)]
    BY <1>0, <2>1, <2>3, RespPut
  <2>7. shorts' \in 0..MaxShorts
    BY <1>0, <2>1, ShortsTyped
  <2>8. TypeOK'
    BY <1>0, <2>1, <2>2, <2>3, <2>4, <2>5, <2>6, <2>7 DEF TypeOK
  <2>9. Flow'
    BY <1>0, <2>2, <2>4, <2>5 DEF Flow, OnWire
  <2> QED BY <2>8, <2>9 DEF TypeInv
<1>2. CASE ConnectionLost
  <2>1. /\ client = "wait"
        /\ told' = TRUE
        /\ resp' = [resp EXCEPT ![IF menu = "none" THEN "main" ELSE "menu"] = 0]
        /\ shown' = 0
        /\ GoOn(-1, 0)
        /\ UNCHANGED <<requests, answers, up, down, server, buf, runs, reset, shorts, refused>>
    BY <1>2 DEF ConnectionLost
  <2>2. 0 \in 0..Len(answers)
    BY <1>0
  <2>3. /\ client' \in {"prompt", "menu", "role"}
        /\ client' = "prompt" => menu' = "none"
        /\ client' # "prompt" => menu' \in Roles
    BY <2>1, <2>2, GoOnTyped
  <2>4. resp' \in [main : 0..Len(answers), menu : 0..Len(answers)]
    BY <1>0, <2>1, <2>2, RespPut
  <2>5. TypeOK'
    BY <1>0, <2>1, <2>2, <2>3, <2>4 DEF TypeOK
  <2>6. Flow'
    BY <1>0, <2>1, <2>3 DEF Flow, OnWire
  <2> QED BY <2>5, <2>6 DEF TypeInv
<1> QED BY <1>1, <1>2 DEF ClientReads

\* The outcomes of the routes.
LEMMA RouteIs ==
  ASSUME Route
  PROVE  /\ server = "route" /\ server' = "send"
         /\ UNCHANGED <<requests, up, down, client, menu, resp, shown, told, buf, reset, shorts>>
         /\ \E st \in {0, 1}, role \in Roles \cup {"none"} :
              answers' = Append(answers, [to |-> buf[1].of, status |-> st, role |-> role])
         /\ \/ /\ buf[1].part = "head"
               /\ \E words \in WordsIn(buf[2]) :
                    /\ Parses(requests[buf[1].of], words)
                    /\ runs' = Append(runs, [of |-> buf[1].of, text |-> buf[2],
                                   complete |-> words >= Conversions[requests[buf[1].of]]])
               /\ UNCHANGED refused
            \/ /\ buf[1].part = "head"
               /\ \E words \in WordsIn(buf[2]) : ~Parses(requests[buf[1].of], words)
               /\ refused' = refused \cup {requests[buf[1].of]}
               /\ UNCHANGED runs
            \/ buf[1].part # "head" /\ UNCHANGED <<runs, refused>>
BY DEF Route, Response, clientVars

\* The steps of the server.
LEMMA ServerTyped ==
  ASSUME TypeInv, ServerStep \/ Exit
  PROVE  TypeInv'
<1> USE DEF clientVars, serverVars
<1>0. /\ TypeOK /\ Flow /\ down \in Seq(Segment) /\ Len(down) \in Nat /\ Len(answers) \in Nat
      /\ up \in Seq(Segment) /\ Len(up) \in Nat /\ Len(requests) \in Nat
      /\ resp \in [main : 0..Len(answers), menu : 0..Len(answers)]
  BY DEF TypeInv, TypeOK
<1>1. CASE Recv
  <2>1. PICK k \in ReadsOf(up) :
          /\ Shortened(up, k)
          /\ up' = Rest(up, k)
          /\ buf' = [i \in 1..3 |-> IF i <= k THEN up[i]
                                              ELSE IF up[1].part = "head" THEN buf[i]
                                              ELSE NoSegment]
    BY <1>1 DEF Recv
  <2>2. /\ server' = "route"
        /\ UNCHANGED <<requests, answers, down, client, menu, resp, shown, told, reset, runs,
                       refused>>
    BY <1>1 DEF Recv
  <2>3. k \in 1..3 /\ k <= Len(up)
    BY <1>0, ReadsAre
  <2>4. up' \in Seq(Segment) /\ OnWire(up', Len(requests))
    BY <1>0, <2>1, <2>3, RestOnWire DEF Flow
  <2>5. shorts' \in 0..MaxShorts
    BY <1>0, <2>1, ShortsTyped
  <2>6. \A i \in 1..k : /\ i \in 1..Len(up) /\ up[i] \in Segment
                        /\ up[i].part # "none" /\ up[i].of \in 1..Len(requests)
    <3>1. \A i \in 1..k : i \in 1..Len(up)
      BY <1>0, <2>3
    <3> QED BY <1>0, <3>1, SeqAt DEF Flow, OnWire
  <2>7. buf' \in [1..3 -> Segment]
    <3>1. \A i \in 1..3 : i <= k => i \in 1..k
      BY <2>3
    <3>2. buf \in [1..3 -> Segment]
      BY <1>0 DEF TypeOK
    <3>3. NoSegment \in Segment
      BY DEF NoSegment, Segment
    <3> QED BY <2>1, <2>6, <3>1, <3>2, <3>3
  <2>8. /\ \A i \in 1..3 : buf'[i].part # "none" => buf'[i].of \in 1..Len(requests)
        /\ buf'[1].part # "none"
    <3>1. \A i \in 1..3 : i <= k => i \in 1..k
      BY <2>3
    <3>2. \A i \in 1..3 : \/ i <= k /\ buf'[i] = up[i]
                          \/ i > k /\ buf'[i] \in {buf[i], NoSegment}
      BY <2>1, <2>3
    <3>3. buf'[1] = up[1] /\ 1 \in 1..k
      BY <2>3, <3>2
    <3>4. NoSegment.part = "none"
      BY DEF NoSegment
    <3> QED BY <1>0, <2>6, <3>1, <3>2, <3>3, <3>4 DEF Flow
  <2>9. TypeOK'
    BY <1>0, <2>2, <2>4, <2>5, <2>7 DEF TypeOK
  <2>10. Flow'
    BY <1>0, <2>2, <2>4, <2>8 DEF Flow, OnWire
  <2> QED BY <2>9, <2>10 DEF TypeInv
<1>2. CASE RecvFails
  <2>1. /\ server' = "ended"
        /\ UNCHANGED <<requests, answers, up, down, client, menu, resp, shown, told, buf, runs,
                       reset, shorts, refused>>
    BY <1>2 DEF RecvFails
  <2>2. TypeOK'
    BY <1>0, <2>1 DEF TypeOK
  <2>3. Flow'
    BY <1>0, <2>1 DEF Flow, OnWire
  <2> QED BY <2>2, <2>3 DEF TypeInv
<1>3. CASE Route
  <2> DEFINE n == buf[1].of
  <2>1. /\ server = "route" /\ server' = "send"
        /\ UNCHANGED <<requests, up, down, client, menu, resp, shown, told, buf, reset, shorts>>
    BY <1>3, RouteIs
  <2>2. n \in 1..Len(requests) /\ buf[2] \in Segment
    BY <1>0, <2>1 DEF Flow, TypeOK
  <2>3. requests[n] \in DOMAIN Conversions
    BY <1>0, <2>2, SeqAt DEF TypeOK
  <2>4. PICK st \in {0, 1}, role \in Roles \cup {"none"} :
          answers' = Append(answers, [to |-> n, status |-> st, role |-> role])
    BY <1>3, RouteIs
  <2>5. /\ answers' \in Seq([to : Nat, status : {0, 1}, role : Roles \cup {"none"}])
        /\ Len(answers') = Len(answers) + 1
    <3>1. n \in Nat
      BY <1>0, <2>2
    <3>2. [to |-> n, status |-> st, role |-> role]
            \in [to : Nat, status : {0, 1}, role : Roles \cup {"none"}]
      BY <3>1
    <3>3. answers \in Seq([to : Nat, status : {0, 1}, role : Roles \cup {"none"}])
      BY <1>0 DEF TypeOK
    <3> QED BY <2>4, <3>2, <3>3, AppendProperties
  <2>6. runs' \in Seq([of : Nat, text : Segment, complete : BOOLEAN])
    <3>1. runs \in Seq([of : Nat, text : Segment, complete : BOOLEAN])
      BY <1>0 DEF TypeOK
    <3>2. CASE runs' = runs
      BY <3>1, <3>2
    <3>3. ASSUME NEW b \in BOOLEAN, runs' = Append(runs, [of |-> n, text |-> buf[2], complete |-> b])
          PROVE  runs' \in Seq([of : Nat, text : Segment, complete : BOOLEAN])
      <4>1. [of |-> n, text |-> buf[2], complete |-> b]
              \in [of : Nat, text : Segment, complete : BOOLEAN]
        BY <1>0, <2>2
      <4> QED BY <3>1, <3>3, <4>1, AppendProperties
    <3>4. ASSUME NEW words,
                 runs' = Append(runs, [of |-> n, text |-> buf[2],
                                       complete |-> words >= Conversions[requests[n]]])
          PROVE  runs' \in Seq([of : Nat, text : Segment, complete : BOOLEAN])
      <4>1. (words >= Conversions[requests[n]]) \in BOOLEAN
        OBVIOUS
      <4> QED BY <3>3, <3>4, <4>1
    <3> QED BY <1>3, <3>2, <3>4, RouteIs
  <2>7. refused' \subseteq DOMAIN Conversions
    <3>1. refused' = refused \/ refused' = refused \cup {requests[n]}
      BY <1>3, RouteIs
    <3>2. refused \subseteq DOMAIN Conversions
      BY <1>0 DEF TypeOK
    <3> HIDE DEF n
    <3> QED BY <2>3, <3>1, <3>2
  <2>8. 0..Len(answers) \subseteq 0..Len(answers')
    BY <1>0, <2>5
  <2>9. TypeOK'
    <3>1. resp' \in [main : 0..Len(answers'), menu : 0..Len(answers')]
      BY <1>0, <2>1, <2>8
    <3>2. shown' \in 0..Len(answers')
      BY <1>0, <2>1, <2>8 DEF TypeOK
    <3> HIDE DEF n
    <3> QED BY <1>0, <2>1, <2>5, <2>6, <2>7, <3>1, <3>2 DEF TypeOK
  <2>10. Flow'
    <3>1. OnWire(down, Len(answers'))
      BY <1>0, <2>8, <2>5 DEF Flow, OnWire
    <3> HIDE DEF n
    <3> QED BY <1>0, <2>1, <2>5, <3>1 DEF Flow, OnWire
  <2> QED BY <2>9, <2>10 DEF TypeInv
<1>4. CASE SendResponse
  <2>1. /\ server = "send" /\ server' \in {"recv", "killed"} /\ reset' \in BOOLEAN
        /\ UNCHANGED <<requests, answers, up, client, menu, resp, shown, told, buf, runs, shorts,
                       refused>>
        /\ down' = down \/ down' = down \o Segments(Len(answers))
    BY <1>0, <1>4 DEF SendResponse, TypeOK
  <2>2. down' \in Seq(Segment) /\ OnWire(down', Len(answers))
    <3>1. CASE down' = down
      BY <1>0, <3>1 DEF Flow
    <3>2. CASE down' = down \o Segments(Len(answers))
      <4>1. /\ down' \in Seq(Segment) /\ Len(down') = Len(down) + 3
            /\ \A i \in 1..Len(down) : down'[i] = down[i]
            /\ down'[Len(down) + 1] = [of |-> Len(answers), part |-> "head"]
            /\ down'[Len(down) + 2] = [of |-> Len(answers), part |-> "text"]
            /\ down'[Len(down) + 3] = [of |-> Len(answers), part |-> "padding"]
        BY <1>0, <3>2, SentIs
      <4>2. \A i \in 1..Len(down') : \/ i \in 1..Len(down) \/ i = Len(down) + 1
                                     \/ i = Len(down) + 2 \/ i = Len(down) + 3
        BY <1>0, <4>1
      <4>3. \A i \in 1..Len(down) : down[i].of \in 1..Len(answers) /\ down[i].part # "none"
        BY <1>0 DEF Flow, OnWire
      <4>4. Len(answers) \in 1..Len(answers)
        BY <1>0, <2>1 DEF Flow
      <4> QED BY <4>1, <4>2, <4>3, <4>4 DEF OnWire
    <3> QED BY <2>1, <3>1, <3>2
  <2>3. TypeOK'
    BY <1>0, <2>1, <2>2 DEF TypeOK
  <2>4. Flow'
    BY <1>0, <2>1, <2>2 DEF Flow, OnWire
  <2> QED BY <2>3, <2>4 DEF TypeInv
<1>5. CASE Exit
  <2>1. /\ server' = "ended" /\ up' = << >> /\ down' \in {down, << >>}
        /\ UNCHANGED <<requests, answers, client, menu, resp, shown, told, buf, runs, reset,
                       shorts, refused>>
    BY <1>5 DEF Exit
  <2>2. TypeOK'
    <3>1. << >> \in Seq(Segment)
      OBVIOUS
    <3>2. up' \in Seq(Segment) /\ down' \in Seq(Segment)
      BY <1>0, <2>1, <3>1
    <3> QED BY <1>0, <2>1, <3>2 DEF TypeOK
  <2>3. Flow'
    BY <1>0, <2>1 DEF Flow, OnWire
  <2> QED BY <2>2, <2>3 DEF TypeInv
<1> QED BY <1>1, <1>2, <1>3, <1>4, <1>5 DEF ServerStep

\* Every step keeps the types.
LEMMA NextTyped ==
  ASSUME TypeInv, [Next]_vars
  PROVE  TypeInv'
<1>1. CASE UNCHANGED vars
  <2>1. UNCHANGED <<requests, answers, up, down, client, menu, resp, shown, told, server, buf,
                    runs, reset, shorts, refused>>
    BY <1>1 DEF vars, clientVars, serverVars
  <2>2. TypeOK' /\ Flow'
    BY <2>1 DEF TypeInv, TypeOK, Flow, OnWire
  <2> QED BY <2>2 DEF TypeInv
<1> QED BY <1>1, ClientStepTyped, ClientReadsTyped, ServerTyped DEF Next

\* A connection starts at the prompt, with nothing sent.
LEMMA InitTyped == Init => TypeInv
<1> SUFFICES ASSUME Init PROVE TypeInv  OBVIOUS
<1>1. TypeOK
  <2>1. \A S : << >> \in Seq(S)
    OBVIOUS
  <2>2. Len(<< >>) = 0 /\ 0 \in 0..0
    OBVIOUS
  <2>3. NoSegment \in Segment
    BY DEF NoSegment, Segment
  <2>4. buf \in [1..3 -> Segment]
    BY <2>3 DEF Init
  <2>5. shorts \in 0..MaxShorts /\ Len(requests) <= MaxRequests
    BY <2>2, BoundsAssumption DEF Init
  <2>6. /\ resp \in [main : 0..Len(answers), menu : 0..Len(answers)]
        /\ shown \in 0..Len(answers)
    BY <2>2 DEF Init
  <2> QED BY <2>1, <2>4, <2>5, <2>6 DEF Init, TypeOK
<1>2. Flow
  BY DEF Init, Flow, OnWire, NoSegment
<1> QED BY <1>1, <1>2 DEF TypeInv

\* Safety needs no fairness.
LEMMA SpecSteps == Spec => Init /\ [][Next]_vars
BY PTL DEF Spec

\* Every variable keeps its type, every segment on the wire is of a request
\* or an answer that exists, and nobody is shown a menu without a login.
THEOREM TypeCorrect == Spec => [](TypeOK /\ Flow)
<1>1. Init => TypeInv  BY InitTyped
<1>2. TypeInv /\ [Next]_vars => TypeInv'  BY NextTyped
<1>3. TypeInv => TypeOK /\ Flow  BY DEF TypeInv
<1> QED BY <1>1, <1>2, <1>3, SpecSteps, PTL

-----------------------------------------------------------------------------
(* Streams.  Segments travel in the order they were written, without gaps: *)
(* what is on its way are the last segments of what was sent.              *)

\* The number of a segment, counted from the first one sent.
Place(segment) ==
  3 * segment.of - 3 + (CASE segment.part = "head" -> 1
                          [] segment.part = "text" -> 2
                          [] OTHER -> 3)

\* A stream carries the last of the segments of n messages.
Carried(stream, n) ==
  \A i \in 1..Len(stream) : Place(stream[i]) = 3 * n - Len(stream) + i

\* read() takes segments from the front.
LEMMA CarriedRest ==
  ASSUME NEW stream \in Seq(Segment), NEW n \in Nat, Carried(stream, n),
         NEW k \in 1..3, k <= Len(stream)
  PROVE  Carried(Rest(stream, k), n)
<1>0. Len(stream) \in Nat
  OBVIOUS
<1>1. /\ Len(Rest(stream, k)) = Len(stream) - k
      /\ \A i \in 1..(Len(stream) - k) : /\ Rest(stream, k)[i] = stream[i + k]
                                         /\ i + k \in 1..Len(stream)
  BY RestIs
<1> SUFFICES ASSUME NEW i \in 1..(Len(stream) - k)
             PROVE  Place(Rest(stream, k)[i]) = 3 * n - (Len(stream) - k) + i
  BY <1>1 DEF Carried
<1>2. Place(Rest(stream, k)[i]) = 3 * n - Len(stream) + (i + k)
  BY <1>1 DEF Carried
<1> QED BY <1>0, <1>1, <1>2

\* write() adds the next message.
LEMMA CarriedSend ==
  ASSUME NEW stream \in Seq(Segment), NEW n \in Nat, Carried(stream, n)
  PROVE  Carried(stream \o Segments(n + 1), n + 1)
<1> DEFINE new == stream \o Segments(n + 1)
           L == Len(stream)
<1>1. /\ Len(new) = L + 3
      /\ \A i \in 1..L : new[i] = stream[i]
      /\ new[L + 1] = [of |-> n + 1, part |-> "head"]
      /\ new[L + 2] = [of |-> n + 1, part |-> "text"]
      /\ new[L + 3] = [of |-> n + 1, part |-> "padding"]
  <2>1. n + 1 \in Nat
    OBVIOUS
  <2> QED BY <2>1, SentIs
<1>2. L \in Nat
  OBVIOUS
<1> HIDE DEF new, L
<1>3. /\ Place(new[L + 1]) = 3 * n + 1
      /\ Place(new[L + 2]) = 3 * n + 2
      /\ Place(new[L + 3]) = 3 * n + 3
  <2>1. /\ new[L + 1].of = n + 1 /\ new[L + 1].part = "head"
        /\ new[L + 2].of = n + 1 /\ new[L + 2].part = "text"
        /\ new[L + 3].of = n + 1 /\ new[L + 3].part = "padding"
    BY <1>1
  <2>2. Place(new[L + 1]) = 3 * (n + 1) - 3 + 1
    BY <2>1 DEF Place
  <2>3. Place(new[L + 2]) = 3 * (n + 1) - 3 + 2
    BY <2>1 DEF Place
  <2>4. Place(new[L + 3]) = 3 * (n + 1) - 3 + 3
    BY <2>1 DEF Place
  <2> QED BY <2>2, <2>3, <2>4
<1> SUFFICES ASSUME NEW i \in 1..(L + 3)
             PROVE  Place(new[i]) = 3 * (n + 1) - (L + 3) + i
  BY <1>1 DEF Carried, new
<1>4. CASE i \in 1..L
  <2>1. Place(new[i]) = 3 * n - L + i
    BY <1>1, <1>4 DEF Carried, L
  <2> QED BY <1>2, <2>1
<1>5. CASE i \in {L + 1, L + 2, L + 3}
  BY <1>2, <1>3, <1>5
<1> QED BY <1>2, <1>4, <1>5

\* What the first segment on a stream tells.
LEMMA FrontIs ==
  ASSUME NEW stream \in Seq(Segment), NEW n \in Nat, Carried(stream, n), stream # << >>
  PROVE  /\ stream[1] \in Segment /\ stream[1].of \in Nat
         /\ Place(stream[1]) = 3 * n - Len(stream) + 1
         /\ stream[1].part = "head" => 3 * stream[1].of = 3 * n - Len(stream) + 3
         /\ 3 * n - Len(stream) + 1 <= 3 * stream[1].of
<1>1. 1 \in 1..Len(stream) /\ Len(stream) \in Nat
  OBVIOUS
<1>2. stream[1] \in Segment
  BY <1>1, SeqAt
<1>3. stream[1].of \in Nat
  BY <1>2 DEF Segment
<1>4. Place(stream[1]) = 3 * n - Len(stream) + 1
  BY <1>1 DEF Carried
<1> QED BY <1>1, <1>2, <1>3, <1>4 DEF Place

\* The client writes a request.
Sends(op) ==
  /\ Send(op)
  /\ client \in {"prompt", "menu", "role"}
  /\ client = "prompt" <=> op = "LOGIN"
  /\ client = "role" <=> op = "CHANGE_ROLE"
  /\ resp' = IF client = "menu" THEN [resp EXCEPT !.menu = 0] ELSE resp
  /\ UNCHANGED <<answers, down, menu, shown, told, server, buf, runs, shorts, refused>>

\* A step of the client that is no read() is a write(), or changes little.
LEMMA ClientSteps ==
  ASSUME TypeInv, ClientStep
  PROVE  \/ \E op \in DOMAIN Conversions : Sends(op)
         \/ RefuseEmployee
         \/ Leave
<1> USE DEF clientVars, serverVars
<1>1. CASE Login
  <2>1. "LOGIN" \in DOMAIN Conversions
    BY Operations
  <2>2. Sends("LOGIN")
    BY <1>1 DEF Login, Sends
  <2> QED BY <2>1, <2>2
<1>2. ASSUME NEW op, Choose(op) PROVE op \in DOMAIN Conversions /\ Sends(op)
  <2>1. menu \in Roles
    BY <1>2 DEF Choose, TypeInv, Flow
  <2>2. op \in DOMAIN Conversions /\ op # "LOGIN" /\ op # "CHANGE_ROLE"
    BY <1>2, <2>1, MenuOps DEF Choose
  <2> QED BY <1>2, <2>2 DEF Choose, Sends
<1>3. CASE SendChangeRole
  <2>1. "CHANGE_ROLE" \in DOMAIN Conversions
    BY Operations
  <2>2. Sends("CHANGE_ROLE")
    BY <1>3 DEF SendChangeRole, Sends
  <2> QED BY <2>1, <2>2
<1> QED BY <1>1, <1>2, <1>3 DEF ClientStep

\* Requests travel in order; a server that is gone leaves none of a client
\* that is not, and only then is a client told that the connection is lost.
UpInv ==
  /\ Carried(up, Len(requests))
  /\ ~ServerThere /\ client # "gone" => up = << >>
  /\ told => ~ServerThere

\* All other steps leave what is on its way to the server, and the handler
\* calls.
UpQuiet ==
  /\ UNCHANGED <<requests, answers, buf, runs>>
  /\ up' \in {up, << >>}
  /\ server' # server => server' # "route"
  /\ ServerThere' => ServerThere

\* Every step is one of these.
LEMMA UpSteps ==
  ASSUME TypeInv, [Next]_vars
  PROVE  UpQuiet \/ Recv \/ Route \/ \E op \in DOMAIN Conversions : Sends(op)
<1> USE DEF clientVars, serverVars
<1>1. CASE UNCHANGED vars
  BY <1>1 DEF vars, UpQuiet, ServerThere
<1>2. CASE RefuseEmployee \/ Leave \/ Receive \/ ConnectionLost
  BY <1>2 DEF RefuseEmployee, Leave, Receive, ConnectionLost, UpQuiet, ServerThere
<1>3. CASE RecvFails \/ SendResponse \/ Exit
  BY <1>3 DEF RecvFails, SendResponse, Exit, UpQuiet, ServerThere
<1> QED BY <1>1, <1>2, <1>3, ClientSteps DEF Next, ClientReads, ServerStep

\* Requests on the stream, after a write().
LEMMA SendsUp ==
  ASSUME TypeInv, UpInv, NEW op \in DOMAIN Conversions, Sends(op)
  PROVE  /\ Carried(up', Len(requests'))
         /\ \/ /\ ServerThere /\ client' = "wait" /\ UNCHANGED reset
               /\ requests' = Append(requests, op)
               /\ Len(requests') = Len(requests) + 1 /\ Len(up') = Len(up) + 3
               /\ up' = up \o Segments(Len(requests) + 1)
            \/ /\ ~ServerThere /\ client' = "wait" /\ up = << >> /\ up' = << >>
               /\ requests' = Append(requests, op)
               /\ Len(requests') = Len(requests) + 1
            \/ /\ ~ServerThere /\ client' = "gone" /\ UNCHANGED <<requests, up, reset>>
<1>0. /\ requests \in Seq(DOMAIN Conversions) /\ Len(requests) \in Nat
      /\ up \in Seq(Segment) /\ Len(up) \in Nat
  BY DEF TypeInv, TypeOK
<1>1. CASE /\ ServerThere /\ client' = "wait" /\ UNCHANGED reset
           /\ requests' = Append(requests, op)
           /\ up' = up \o Segments(Len(requests) + 1)
  <2>1. Len(requests') = Len(requests) + 1
    BY <1>0, <1>1
  <2>2. Carried(up', Len(requests) + 1)
    BY <1>0, <1>1, CarriedSend DEF UpInv
  <2>3. Len(up') = Len(up) + 3
    <3>1. Len(requests) + 1 \in Nat
      BY <1>0
    <3> QED BY <1>0, <1>1, <3>1, SentIs
  <2> QED BY <1>1, <2>1, <2>2, <2>3
<1>2. CASE /\ ~ServerThere /\ client' = "wait" /\ UNCHANGED up
           /\ requests' = Append(requests, op)
  <2>1. up = << >>
    BY <1>2 DEF UpInv, Sends
  <2>2. Len(requests') = Len(requests) + 1
    BY <1>0, <1>2
  <2>3. Carried(up', Len(requests'))
    BY <1>2, <2>1 DEF Carried
  <2> QED BY <1>2, <2>1, <2>2, <2>3
<1>3. CASE ~ServerThere /\ client' = "gone" /\ UNCHANGED <<requests, up, reset>>
  BY <1>3 DEF UpInv
<1> QED BY <1>1, <1>2, <1>3 DEF Sends, Send

\* What recv_request() does.
LEMMA RecvIs ==
  ASSUME TypeInv, UpInv, Recv
  PROVE  /\ server = "recv" /\ server' = "route"
         /\ UNCHANGED <<requests, answers, down, client, menu, resp, shown, told, reset, runs,
                        refused>>
         /\ up # << >> /\ up[1] \in Segment
         /\ \E k \in 1..3 :
              /\ k <= Len(up) /\ Len(up') = Len(up) - k
              /\ up' = Rest(up, k) /\ Carried(up', Len(requests))
              /\ shorts' = IF Short(up, k) THEN shorts + 1 ELSE shorts
              /\ buf' = [i \in 1..3 |-> IF i <= k THEN up[i]
                                              ELSE IF up[1].part = "head" THEN buf[i]
                                              ELSE NoSegment]
              /\ buf'[1] = up[1]
<1> USE DEF clientVars
<1>0. /\ up \in Seq(Segment) /\ Len(up) \in Nat /\ Len(requests) \in Nat
      /\ Carried(up, Len(requests))
  BY DEF TypeInv, TypeOK, UpInv
<1>1. PICK k \in ReadsOf(up) :
        /\ Shortened(up, k)
        /\ up' = Rest(up, k)
        /\ buf' = [i \in 1..3 |-> IF i <= k THEN up[i]
                                              ELSE IF up[1].part = "head" THEN buf[i]
                                              ELSE NoSegment]
  BY DEF Recv
<1>2. /\ k \in 1..3 /\ k <= Len(up)
      /\ shorts' = IF Short(up, k) THEN shorts + 1 ELSE shorts
  BY <1>0, <1>1, ReadsAre
<1>3. Len(up') = Len(up) - k /\ Carried(up', Len(requests))
  BY <1>0, <1>1, <1>2, RestIs, CarriedRest
<1>4. up # << >> /\ 1 \in 1..Len(up) /\ up[1] \in Segment
  <2>1. Len(up) # 0
    BY <1>0, <1>2
  <2>2. up # << >>
    BY <2>1
  <2>3. 1 \in 1..Len(up)
    BY <1>0, <2>1
  <2> QED BY <1>0, <2>2, <2>3, SeqAt
<1>5. buf'[1] = up[1]
  BY <1>1, <1>2
<1>6. /\ server = "recv" /\ server' = "route"
      /\ UNCHANGED <<requests, answers, down, client, menu, resp, shown, told, reset, runs,
                     refused>>
  BY DEF Recv
<1> QED BY <1>1, <1>2, <1>3, <1>4, <1>5, <1>6

\* Every step keeps the requests in order.
LEMMA NextUp ==
  ASSUME TypeInv, UpInv, [Next]_vars
  PROVE  UpInv'
<1> USE DEF clientVars, serverVars
<1>0. Carried(<< >>, Len(requests))
  BY DEF Carried
<1>1. Carried(up', Len(requests'))
  <2>1. CASE UpQuiet
    BY <1>0, <2>1 DEF UpQuiet, UpInv
  <2>2. CASE Recv
    BY <2>2, RecvIs
  <2>3. CASE Route
    BY <2>3, RouteIs DEF UpInv
  <2>4. ASSUME NEW op \in DOMAIN Conversions, Sends(op) PROVE Carried(up', Len(requests'))
    BY <2>4, SendsUp
  <2> QED BY <2>1, <2>2, <2>3, <2>4, UpSteps
<1>2. /\ ~ServerThere' /\ client' # "gone" => up' = << >>
      /\ told' => ~ServerThere'
  <2>1. CASE UNCHANGED vars
    BY <2>1 DEF vars, UpInv, ServerThere
  <2>2. CASE RefuseEmployee \/ Leave
    BY <2>2 DEF RefuseEmployee, Leave, UpInv, ServerThere
  <2>3. CASE Receive \/ ConnectionLost
    BY <2>3 DEF Receive, ConnectionLost, UpInv, ServerThere
  <2>4. CASE Recv \/ RecvFails \/ Route
    BY <2>4 DEF Recv, RecvFails, Route, UpInv, ServerThere
  <2>5. CASE SendResponse \/ Exit
    BY <2>5 DEF SendResponse, Exit, UpInv, ServerThere
  <2>6. ASSUME NEW op \in DOMAIN Conversions, Sends(op)
        PROVE  /\ ~ServerThere' /\ client' # "gone" => up' = << >>
               /\ told' => ~ServerThere'
    BY <2>6, SendsUp DEF Sends, UpInv, ServerThere
  <2> QED BY <2>1, <2>2, <2>3, <2>4, <2>5, <2>6, ClientSteps DEF Next, ClientReads, ServerStep
<1> QED BY <1>1, <1>2 DEF UpInv, Carried

\* Nothing has been sent at the start.
LEMMA InitUp == Init => UpInv
BY DEF Init, UpInv, Carried, ServerThere

-----------------------------------------------------------------------------
(* No request is carried out twice.                                        *)

\* Segments of requests that are not on their way any more.
Taken == 3 * Len(requests) - Len(up)

\* Handlers are called for requests in the order sent, with heads that are
\* not on the stream any more.
RunsInv ==
  /\ \A i, j \in 1..Len(runs) : i < j => runs[i].of < runs[j].of
  /\ \A i \in 1..Len(runs) : 3 * runs[i].of <= Taken + 2
  /\ server = "route" /\ buf[1].part = "head" =>
       /\ 3 * buf[1].of <= Taken + 2
       /\ \A i \in 1..Len(runs) : runs[i].of < buf[1].of

\* A handler call is for a number.
LEMMA RunAt ==
  ASSUME TypeInv, NEW i \in 1..Len(runs)
  PROVE  runs[i].of \in Nat
<1>0. runs \in Seq([of : Nat, text : Segment, complete : BOOLEAN])
  BY DEF TypeInv, TypeOK
<1>1. runs[i] \in [of : Nat, text : Segment, complete : BOOLEAN]
  BY <1>0, SeqAt
<1> QED BY <1>1

\* Segments do not return.
LEMMA TakenGrows ==
  ASSUME TypeInv, TypeInv', UpInv, [Next]_vars
  PROVE  Taken \in Int /\ Taken' \in Int /\ Taken <= Taken'
<1>0. /\ Len(requests) \in Nat /\ Len(up) \in Nat
      /\ Len(requests') \in Nat /\ Len(up') \in Nat
  <2>1. TypeOK /\ TypeOK'
    BY DEF TypeInv
  <2>2. /\ requests \in Seq(DOMAIN Conversions) /\ up \in Seq(Segment)
        /\ requests' \in Seq(DOMAIN Conversions) /\ up' \in Seq(Segment)
    BY <2>1 DEF TypeOK
  <2> QED BY <2>2
<1>1. \/ Len(requests') = Len(requests) /\ Len(up') <= Len(up)
      \/ Len(requests') = Len(requests) + 1 /\ Len(up') <= Len(up) + 3
  <2>1. CASE UpQuiet
    BY <1>0, <2>1 DEF UpQuiet
  <2>2. CASE Recv
    BY <1>0, <2>2, RecvIs
  <2>3. CASE Route
    BY <1>0, <2>3, RouteIs
  <2>4. ASSUME NEW op \in DOMAIN Conversions, Sends(op)
        PROVE  \/ Len(requests') = Len(requests) /\ Len(up') <= Len(up)
               \/ Len(requests') = Len(requests) + 1 /\ Len(up') <= Len(up) + 3
    BY <1>0, <2>4, SendsUp
  <2> QED BY <2>1, <2>2, <2>3, <2>4, UpSteps
<1> QED BY <1>0, <1>1 DEF Taken

\* What is new in the handler calls and in the request buffer.
LEMMA RunsSteps ==
  ASSUME TypeInv, UpInv, [Next]_vars
  PROVE  \/ /\ UNCHANGED <<runs, buf>>
            /\ server' = "route" => server = "route"
         \/ Recv
         \/ Route
<1> USE DEF clientVars, serverVars
<1>1. CASE UpQuiet
  BY <1>1 DEF UpQuiet
<1>2. ASSUME NEW op \in DOMAIN Conversions, Sends(op)
      PROVE  UNCHANGED <<runs, buf, server>>
  BY <1>2 DEF Sends
<1> QED BY <1>1, <1>2, UpSteps

\* Every step keeps the handler calls in order.
LEMMA NextRuns ==
  ASSUME TypeInv, TypeInv', UpInv, RunsInv, [Next]_vars
  PROVE  RunsInv'
<1>1. Taken \in Int /\ Taken' \in Int /\ Taken <= Taken'
  BY TakenGrows
<1>2. \A i \in 1..Len(runs) : runs[i].of \in Nat /\ 3 * runs[i].of <= Taken' + 2
  <2> SUFFICES ASSUME NEW i \in 1..Len(runs)
               PROVE  runs[i].of \in Nat /\ 3 * runs[i].of <= Taken' + 2
    OBVIOUS
  <2>1. runs[i].of \in Nat
    BY RunAt
  <2>2. 3 * runs[i].of <= Taken + 2
    BY DEF RunsInv
  <2> QED BY <1>1, <2>1, <2>2
<1>3. buf[1].of \in Nat
  <2>1. buf[1] \in Segment
    BY DEF TypeInv, TypeOK
  <2> QED BY <2>1 DEF Segment
<1>4. CASE UNCHANGED <<runs, buf>> /\ (server' = "route" => server = "route")
  <2>1. runs' = runs /\ buf' = buf
    BY <1>4
  <2>2. ASSUME server' = "route", buf[1].part = "head"
        PROVE  /\ 3 * buf[1].of <= Taken' + 2
               /\ \A i \in 1..Len(runs) : runs[i].of < buf[1].of
    <3>1. /\ 3 * buf[1].of <= Taken + 2
          /\ \A i \in 1..Len(runs) : runs[i].of < buf[1].of
      BY <1>4, <2>2 DEF RunsInv
    <3> QED BY <1>1, <1>3, <3>1
  <2>3. \A i, j \in 1..Len(runs) : i < j => runs[i].of < runs[j].of
    BY DEF RunsInv
  <2> QED BY <1>2, <2>1, <2>2, <2>3 DEF RunsInv
<1>5. CASE Recv
  <2>0. up \in Seq(Segment) /\ Len(requests) \in Nat /\ Len(up) \in Nat
    <3>1. TypeOK
      BY DEF TypeInv
    <3>2. up \in Seq(Segment) /\ requests \in Seq(DOMAIN Conversions)
      BY <3>1 DEF TypeOK
    <3> QED BY <3>2
  <2>1. buf'[1] = up[1] /\ runs' = runs /\ requests' = requests /\ up # << >>
    BY <1>5, RecvIs
  <2>2. Len(up') <= Len(up) - 1 /\ Len(up') \in Nat
    <3>1. Len(up') \in Nat
      BY DEF TypeInv, TypeOK
    <3>2. \E k \in 1..3 : Len(up') = Len(up) - k
      BY <1>5, RecvIs
    <3> QED BY <2>0, <3>1, <3>2
  <2>3. /\ up[1].of \in Nat
        /\ up[1].part = "head" => 3 * up[1].of = 3 * Len(requests) - Len(up) + 3
    BY <2>0, <2>1, FrontIs DEF UpInv
  <2>4. Taken' = 3 * Len(requests) - Len(up')
    BY <2>1 DEF Taken
  <2>5. ASSUME up[1].part = "head"
        PROVE  /\ 3 * up[1].of <= Taken' + 2
               /\ \A i \in 1..Len(runs) : runs[i].of < up[1].of
    <3>1. 3 * up[1].of = 3 * Len(requests) - Len(up) + 3
      BY <2>3, <2>5
    <3>2. 3 * up[1].of <= Taken' + 2
      BY <2>0, <2>2, <2>3, <2>4, <3>1
    <3>3. ASSUME NEW i \in 1..Len(runs) PROVE runs[i].of < up[1].of
      <4>1. runs[i].of \in Nat /\ 3 * runs[i].of <= Taken + 2
        BY RunAt DEF RunsInv
      <4>2. Taken = 3 * Len(requests) - Len(up)
        BY DEF Taken
      <4> QED BY <2>0, <2>3, <3>1, <4>1, <4>2
    <3> QED BY <3>2, <3>3
  <2>6. \A i, j \in 1..Len(runs) : i < j => runs[i].of < runs[j].of
    BY DEF RunsInv
  <2> QED BY <1>2, <2>1, <2>5, <2>6 DEF RunsInv
<1>6. CASE Route
  <2>1. server = "route" /\ server' = "send" /\ UNCHANGED <<requests, up, buf>>
    BY <1>6, RouteIs
  <2>2. \A i, j \in 1..Len(runs) : i < j => runs[i].of < runs[j].of
    BY DEF RunsInv
  <2>3. CASE runs' = runs
    BY <1>2, <2>1, <2>2, <2>3 DEF RunsInv
  <2>4. ASSUME NEW r, buf[1].part = "head", r.of = buf[1].of, runs' = Append(runs, r)
        PROVE  RunsInv'
    <3>0. runs \in Seq([of : Nat, text : Segment, complete : BOOLEAN]) /\ Len(runs) \in Nat
      BY DEF TypeInv, TypeOK
    <3>1. /\ Len(runs') = Len(runs) + 1
          /\ \A i \in 1..Len(runs) : runs'[i] = runs[i]
          /\ runs'[Len(runs) + 1] = r
      BY <2>4, <3>0
    <3>2. 3 * r.of <= Taken' + 2 /\ \A i \in 1..Len(runs) : runs[i].of < r.of
      <4>1. 3 * buf[1].of <= Taken + 2 /\ \A i \in 1..Len(runs) : runs[i].of < buf[1].of
        BY <2>1, <2>4 DEF RunsInv
      <4> QED BY <1>1, <1>3, <2>4, <4>1
    <3>3. \A i \in 1..Len(runs') : i \in 1..Len(runs) \/ i = Len(runs) + 1
      BY <3>0, <3>1
    <3>4. \A i \in 1..Len(runs') : 3 * runs'[i].of <= Taken' + 2
      BY <1>2, <3>1, <3>2, <3>3
    <3>5. ASSUME NEW i \in 1..Len(runs'), NEW j \in 1..Len(runs'), i < j
          PROVE  runs'[i].of < runs'[j].of
      <4>1. i \in 1..Len(runs)
        BY <3>0, <3>1, <3>5
      <4> QED BY <2>2, <3>1, <3>2, <3>3, <3>5, <4>1
    <3> QED BY <2>1, <3>4, <3>5 DEF RunsInv
  <2>5. \/ runs' = runs
        \/ /\ buf[1].part = "head"
           /\ \E b : runs' = Append(runs, [of |-> buf[1].of, text |-> buf[2], complete |-> b])
    BY <1>6, RouteIs
  <2> QED BY <2>3, <2>4, <2>5
<1> QED BY <1>4, <1>5, <1>6, RunsSteps

\* However the bytes of requests are split between read()s, with whatever was
\* left in the request buffer, and wherever either side goes away, no request
\* is handed to a handler twice.
THEOREM NothingTwice == Spec => []AtMostOnce
<1> DEFINE Inv == TypeInv /\ UpInv /\ RunsInv
<1>1. Init => Inv
  BY InitTyped, InitUp DEF Init, RunsInv
<1>2. Inv /\ [Next]_vars => Inv'
  BY NextTyped, NextUp, NextRuns
<1>3. Inv => AtMostOnce
  <2> SUFFICES ASSUME Inv, NEW i \in DOMAIN runs, NEW j \in DOMAIN runs,
                      runs[i].of = runs[j].of
               PROVE  i = j
    BY DEF AtMostOnce
  <2>0. runs \in Seq([of : Nat, text : Segment, complete : BOOLEAN])
    BY DEF TypeInv, TypeOK
  <2>1. i \in 1..Len(runs) /\ j \in 1..Len(runs) /\ Len(runs) \in Nat
    BY <2>0
  <2>2. runs[i].of \in Nat /\ runs[j].of \in Nat
    BY <2>1, RunAt
  <2>3. ~(i < j) /\ ~(j < i)
    BY <2>1, <2>2 DEF RunsInv
  <2> QED BY <2>1, <2>3
<1> HIDE DEF Inv
<1> QED BY <1>1, <1>2, <1>3, SpecSteps, PTL

-----------------------------------------------------------------------------
(* While every read() gets what was sent, each takes one whole message.    *)

Whole(stream) == stream # << >> => stream[1].part = "head"

\* A segment is known by its place.
LEMMA PlaceTells ==
  ASSUME NEW segment \in Segment, segment.part # "none", NEW n \in Nat
  PROVE  /\ Place(segment) = 3 * n + 1 => segment = [of |-> n + 1, part |-> "head"]
         /\ Place(segment) = 3 * n + 2 => segment = [of |-> n + 1, part |-> "text"]
<1>1. /\ segment.of \in Nat /\ segment.part \in {"head", "text", "padding"}
      /\ segment = [of |-> segment.of, part |-> segment.part]
  BY DEF Segment
<1>2. CASE segment.part = "head"
  <2>1. Place(segment) = 3 * segment.of - 3 + 1
    BY <1>2 DEF Place
  <2> QED BY <1>1, <1>2, <2>1
<1>3. CASE segment.part = "text"
  <2>1. Place(segment) = 3 * segment.of - 3 + 2
    BY <1>3 DEF Place
  <2> QED BY <1>1, <1>3, <2>1
<1>4. CASE segment.part = "padding"
  <2>1. Place(segment) = 3 * segment.of - 3 + 3
    BY <1>4 DEF Place
  <2> QED BY <1>1, <1>4, <2>1
<1> QED BY <1>1, <1>2, <1>3, <1>4

\* read() gets a message, and a message is next.
LEMMA WholeRead ==
  ASSUME NEW stream \in Seq(Segment), NEW n \in Nat, Carried(stream, n),
         NEW w \in Nat, OnWire(stream, w), Whole(stream), NEW k \in 1..3, k <= Len(stream), ~Short(stream, k)
  PROVE  /\ k = 3 /\ Whole(Rest(stream, k))
         /\ stream[1].part = "head"
         /\ stream[2] = [of |-> stream[1].of, part |-> "text"]
<1>0. Len(stream) \in Nat /\ stream # << >>
  OBVIOUS
<1>1. stream[1].part = "head" /\ stream[1].of \in 1..w
  <2>1. 1 \in 1..Len(stream)
    BY <1>0
  <2> QED BY <1>0, <2>1 DEF Whole, OnWire
<1>2. 3 * stream[1].of = 3 * n - Len(stream) + 3
  BY <1>0, <1>1, FrontIs
<1>3. k = 3 /\ Len(stream) >= 3
  BY <1>0, <1>1, <1>2 DEF Short
<1> DEFINE m == stream[1].of - 1
<1>4. m \in Nat /\ m + 1 = stream[1].of /\ 3 * n - Len(stream) = 3 * m
  BY <1>0, <1>1, <1>2
<1> HIDE DEF m
<1>5. \A i \in 1..Len(stream) : /\ stream[i] \in Segment /\ stream[i].part # "none"
                                /\ Place(stream[i]) = 3 * m + i
  <2> SUFFICES ASSUME NEW i \in 1..Len(stream)
               PROVE  /\ stream[i] \in Segment /\ stream[i].part # "none"
                      /\ Place(stream[i]) = 3 * m + i
    OBVIOUS
  <2>1. stream[i] \in Segment
    BY SeqAt
  <2>2. stream[i].part # "none"
    BY DEF OnWire
  <2>3. Place(stream[i]) = 3 * n - Len(stream) + i
    BY DEF Carried
  <2> QED BY <1>4, <2>1, <2>2, <2>3
<1>6. stream[2] = [of |-> stream[1].of, part |-> "text"]
  <2>1. 2 \in 1..Len(stream)
    BY <1>0, <1>3
  <2> QED BY <1>4, <1>5, <2>1, PlaceTells
<1>7. Whole(Rest(stream, k))
  <2>1. /\ Rest(stream, k) \in Seq(Segment)
        /\ Len(Rest(stream, k)) = Len(stream) - 3
        /\ \A i \in 1..(Len(stream) - 3) : /\ Rest(stream, k)[i] = stream[i + 3]
                                           /\ i + 3 \in 1..Len(stream)
    BY <1>3, RestIs
  <2> SUFFICES ASSUME Rest(stream, k) # << >> PROVE Rest(stream, k)[1].part = "head"
    BY DEF Whole
  <2>2. 1 \in 1..(Len(stream) - 3)
    BY <1>0, <2>1
  <2>3. Rest(stream, k)[1] = stream[4] /\ 4 \in 1..Len(stream)
    BY <2>1, <2>2
  <2>4. Place(stream[4]) = 3 * (m + 1) + 1 /\ m + 1 \in Nat
    BY <1>4, <1>5, <2>3
  <2>5. stream[4] = [of |-> (m + 1) + 1, part |-> "head"]
    BY <1>5, <2>3, <2>4, PlaceTells
  <2> QED BY <2>3, <2>5
<1> QED BY <1>1, <1>3, <1>6, <1>7

\* write() adds behind.
LEMMA WholeSend ==
  ASSUME NEW stream \in Seq(Segment), NEW n \in Nat, Whole(stream)
  PROVE  Whole(stream \o Segments(n))
<1>1. /\ \A i \in 1..Len(stream) : (stream \o Segments(n))[i] = stream[i]
      /\ (stream \o Segments(n))[Len(stream) + 1] = [of |-> n, part |-> "head"]
  BY SentIs
<1>2. CASE stream = << >>
  <2>1. (stream \o Segments(n))[1] = [of |-> n, part |-> "head"]
    BY <1>1, <1>2
  <2> QED BY <2>1 DEF Whole
<1>3. CASE stream # << >>
  <2>1. 1 \in 1..Len(stream)
    BY <1>3
  <2>2. (stream \o Segments(n))[1] = stream[1]
    BY <1>1, <2>1
  <2> QED BY <1>3, <2>2 DEF Whole
<1> QED BY <1>2, <1>3

\* What the menus ask for is what the routes take, but for MODIFY_USER.
LEMMA PayloadParses ==
  ASSUME NEW op \in DOMAIN Conversions, op # "MODIFY_USER"
  PROVE  Parses(op, Words(op)) /\ Words(op) >= Conversions[op]
<1>1. Words(op) \in Nat /\ Conversions[op] \in Nat
  BY Operations DEF Words, Conversions
<1>2. Min({Words(op), Conversions[op]}) = IF Words(op) <= Conversions[op] THEN Words(op)
                                          ELSE Conversions[op]
  BY <1>1, MinOfTwo
<1>3. Words(op) >= Conversions[op]
  BY Operations DEF Words, Conversions
<1>4. op \in DOMAIN Wanted => Conversions[op] = Wanted[op]
  BY DEF Conversions, Wanted
<1> QED BY <1>1, <1>2, <1>3, <1>4 DEF Parses

\* Reads that came up short stay counted.
LEMMA ShortsGrow ==
  ASSUME TypeInv, UpInv, [Next]_vars
  PROVE  shorts \in Nat /\ shorts' \in Nat /\ shorts <= shorts'
<1> USE DEF clientVars, serverVars
<1>0. shorts \in Nat
  <2>1. shorts \in 0..MaxShorts
    BY DEF TypeInv, TypeOK
  <2> QED BY <2>1, BoundsAssumption
<1>1. CASE UNCHANGED vars
  BY <1>0, <1>1 DEF vars
<1>2. CASE RefuseEmployee \/ Leave \/ ConnectionLost
  BY <1>0, <1>2 DEF RefuseEmployee, Leave, ConnectionLost
<1>3. CASE RecvFails \/ Route \/ SendResponse \/ Exit
  BY <1>0, <1>3 DEF RecvFails, Route, SendResponse, Exit
<1>4. ASSUME NEW op \in DOMAIN Conversions, Sends(op)
      PROVE  shorts' = shorts
  BY <1>4 DEF Sends
<1>5. CASE Recv
  BY <1>0, <1>5, RecvIs
<1>6. CASE Receive
  <2>1. Len(down) \in Nat
    BY DEF TypeInv, TypeOK
  <2>2. PICK k \in ReadsOf(down) : Shortened(down, k)
    BY <1>6, ReceiveIs
  <2>3. shorts' = IF Short(down, k) THEN shorts + 1 ELSE shorts
    BY <2>1, <2>2, ReadsAre
  <2> QED BY <1>0, <2>3
<1> QED BY <1>0, <1>1, <1>2, <1>3, <1>4, <1>5, <1>6, ClientSteps
        DEF Next, ClientReads, ServerStep

\* A handler has been called for request n, with all of its payload.
CarriedOut(n, calls) ==
  \E i \in 1..Len(calls) : /\ calls[i].of = n
                           /\ calls[i].text = [of |-> n, part |-> "text"]
                           /\ calls[i].complete

AlignInv ==
  /\ \A k \in 1..Len(answers) : answers[k].to \in 1..Len(requests)
  /\ shorts = 0 =>
       /\ Whole(up)
       /\ server = "route" => /\ buf[1].part = "head"
                              /\ buf[2] = [of |-> buf[1].of, part |-> "text"]
       /\ \A k \in 1..Len(answers) : \/ requests[answers[k].to] = "MODIFY_USER"
                                     \/ CarriedOut(answers[k].to, runs)

\* What has been carried out stays so.
LEMMA CarriedOutStays ==
  ASSUME TypeInv, NEW n, NEW r, CarriedOut(n, runs)
  PROVE  CarriedOut(n, Append(runs, r))
<1>0. runs \in Seq([of : Nat, text : Segment, complete : BOOLEAN]) /\ Len(runs) \in Nat
  BY DEF TypeInv, TypeOK
<1>1. /\ Len(Append(runs, r)) = Len(runs) + 1
      /\ \A i \in 1..Len(runs) : Append(runs, r)[i] = runs[i]
  BY <1>0
<1>2. 1..Len(runs) \subseteq 1..Len(Append(runs, r))
  BY <1>0, <1>1
<1> QED BY <1>1, <1>2 DEF CarriedOut

\* A route that gets a whole request.
LEMMA RouteWhole ==
  ASSUME TypeInv, Route, buf[1].part = "head",
         buf[2] = [of |-> buf[1].of, part |-> "text"]
  PROVE  /\ requests[buf[1].of] = "MODIFY_USER" \/ CarriedOut(buf[1].of, runs')
         /\ runs' = runs \/ \E r : runs' = Append(runs, r)
<1> DEFINE n == buf[1].of
           op == requests[n]
<1>1. server = "route" /\ requests \in Seq(DOMAIN Conversions)
  BY RouteIs DEF TypeInv, TypeOK
<1>2. n \in 1..Len(requests)
  BY <1>1 DEF TypeInv, Flow
<1>3. op \in DOMAIN Conversions
  BY <1>1, <1>2, SeqAt
<1>4. WordsIn(buf[2]) = {Words(op)}
  BY DEF WordsIn
<1> HIDE DEF n, op
<1>5. \/ runs' = Append(runs, [of |-> n, text |-> buf[2],
                               complete |-> Words(op) >= Conversions[op]])
      \/ ~Parses(op, Words(op)) /\ runs' = runs
  BY <1>4, RouteIs DEF n, op
<1>6. CASE op # "MODIFY_USER"
  <2>1. Parses(op, Words(op)) /\ (Words(op) >= Conversions[op]) = TRUE
    BY <1>3, <1>6, PayloadParses
  <2>2. runs' = Append(runs, [of |-> n, text |-> buf[2], complete |-> TRUE])
    BY <1>5, <2>1
  <2>3. /\ Len(runs) \in Nat /\ Len(runs') = Len(runs) + 1
        /\ runs'[Len(runs) + 1] = [of |-> n, text |-> buf[2], complete |-> TRUE]
    <3>1. runs \in Seq([of : Nat, text : Segment, complete : BOOLEAN])
      BY DEF TypeInv, TypeOK
    <3> QED BY <2>2, <3>1
  <2>4. Len(runs) + 1 \in 1..Len(runs')
    BY <2>3
  <2>5. buf[2] = [of |-> n, part |-> "text"]
    BY DEF n
  <2>6. CarriedOut(n, runs')
    BY <2>3, <2>4, <2>5 DEF CarriedOut
  <2> QED BY <2>2, <2>6 DEF n
<1>7. CASE op = "MODIFY_USER"
  BY <1>5, <1>7 DEF n, op
<1> QED BY <1>6, <1>7

\* A route answers the request whose head is in the buffer.
LEMMA RouteAnswers ==
  ASSUME TypeInv, Route
  PROVE  /\ Len(answers') = Len(answers) + 1
         /\ \A k \in 1..Len(answers) : answers'[k] = answers[k]
         /\ answers'[Len(answers) + 1].to = buf[1].of
<1>0. answers \in Seq([to : Nat, status : {0, 1}, role : Roles \cup {"none"}])
  BY DEF TypeInv, TypeOK
<1>1. PICK st \in {0, 1}, role \in Roles \cup {"none"} :
        answers' = Append(answers, [to |-> buf[1].of, status |-> st, role |-> role])
  BY RouteIs
<1> QED BY <1>0, <1>1

\* Every step keeps the messages whole, unless a read() comes up short.
LEMMA NextAlign ==
  ASSUME TypeInv, TypeInv', UpInv, AlignInv, [Next]_vars
  PROVE  AlignInv'
<1>0. /\ requests \in Seq(DOMAIN Conversions) /\ Len(requests) \in Nat
      /\ up \in Seq(Segment) /\ Len(answers) \in Nat
      /\ answers \in Seq([to : Nat, status : {0, 1}, role : Roles \cup {"none"}])
  <2>1. TypeOK
    BY DEF TypeInv
  <2>2. /\ requests \in Seq(DOMAIN Conversions) /\ up \in Seq(Segment)
        /\ answers \in Seq([to : Nat, status : {0, 1}, role : Roles \cup {"none"}])
    BY <2>1 DEF TypeOK
  <2> QED BY <2>2
<1>1. shorts' = 0 => shorts = 0
  BY ShortsGrow
<1>2. \A k \in 1..Len(answers) : answers[k].to \in 1..Len(requests)
  BY DEF AlignInv
<1>3. CASE UpQuiet
  <2>1. /\ requests' = requests /\ answers' = answers /\ buf' = buf /\ runs' = runs
        /\ up' \in {up, << >>} /\ (server' = "route" => server = "route")
    BY <1>3 DEF UpQuiet
  <2>2. Whole(<< >>)
    BY DEF Whole
  <2>3. shorts' = 0 => Whole(up')
    BY <1>1, <2>1, <2>2 DEF AlignInv
  <2>4. shorts' = 0 /\ server' = "route" => /\ buf[1].part = "head"
                                            /\ buf[2] = [of |-> buf[1].of, part |-> "text"]
    BY <1>1, <2>1 DEF AlignInv
  <2>5. shorts' = 0 => \A k \in 1..Len(answers) : \/ requests[answers[k].to] = "MODIFY_USER"
                                                  \/ CarriedOut(answers[k].to, runs)
    BY <1>1 DEF AlignInv
  <2> QED BY <1>2, <2>1, <2>3, <2>4, <2>5 DEF AlignInv
<1>4. CASE Recv
  <2>1. /\ requests' = requests /\ answers' = answers /\ runs' = runs
    BY <1>4, RecvIs
  <2>2. ASSUME shorts' = 0
        PROVE  /\ Whole(up') /\ buf'[1].part = "head"
               /\ buf'[2] = [of |-> buf'[1].of, part |-> "text"]
    <3>1. PICK k \in 1..3 : /\ k <= Len(up) /\ up' = Rest(up, k)
                            /\ shorts' = IF Short(up, k) THEN shorts + 1 ELSE shorts
                            /\ buf' = [i \in 1..3 |-> IF i <= k THEN up[i]
                                              ELSE IF up[1].part = "head" THEN buf[i]
                                              ELSE NoSegment]
      BY <1>4, RecvIs
    <3>2. shorts = 0 /\ ~Short(up, k)
      BY <1>1, <2>2, <3>1
    <3>3. Whole(up) /\ Carried(up, Len(requests)) /\ OnWire(up, Len(requests))
      BY <3>2 DEF AlignInv, UpInv, TypeInv, Flow
    <3>4. /\ k = 3 /\ Whole(Rest(up, k)) /\ up[1].part = "head"
          /\ up[2] = [of |-> up[1].of, part |-> "text"]
      BY <1>0, <3>1, <3>2, <3>3, WholeRead
    <3>5. buf'[1] = up[1] /\ buf'[2] = up[2]
      BY <3>1, <3>4
    <3> QED BY <3>1, <3>4, <3>5
  <2>3. shorts' = 0 => \A k \in 1..Len(answers) : \/ requests[answers[k].to] = "MODIFY_USER"
                                                  \/ CarriedOut(answers[k].to, runs)
    BY <1>1 DEF AlignInv
  <2> QED BY <1>2, <2>1, <2>2, <2>3 DEF AlignInv
<1>5. CASE Route
  <2>1. /\ requests' = requests /\ up' = up /\ server = "route" /\ server' = "send"
        /\ shorts' = shorts
    BY <1>5, RouteIs
  <2>2. buf[1].of \in 1..Len(requests)
    BY <2>1 DEF TypeInv, Flow
  <2>3. /\ Len(answers') = Len(answers) + 1
        /\ \A k \in 1..Len(answers) : answers'[k] = answers[k]
        /\ answers'[Len(answers) + 1].to = buf[1].of
    BY <1>5, RouteAnswers
  <2>4. \A k \in 1..Len(answers') : k \in 1..Len(answers) \/ k = Len(answers) + 1
    BY <1>0, <2>3
  <2>5. \A k \in 1..Len(answers') : answers'[k].to \in 1..Len(requests')
    BY <1>2, <2>1, <2>2, <2>3, <2>4
  <2>6. ASSUME shorts' = 0, NEW k \in 1..Len(answers')
        PROVE  requests'[answers'[k].to] = "MODIFY_USER" \/ CarriedOut(answers'[k].to, runs')
    <3>1. buf[1].part = "head" /\ buf[2] = [of |-> buf[1].of, part |-> "text"]
      BY <2>1, <2>6 DEF AlignInv
    <3>2. /\ requests[buf[1].of] = "MODIFY_USER" \/ CarriedOut(buf[1].of, runs')
          /\ runs' = runs \/ \E r : runs' = Append(runs, r)
      BY <1>5, <3>1, RouteWhole
    <3>3. CASE k = Len(answers) + 1
      BY <2>1, <2>3, <3>2, <3>3
    <3>4. CASE k \in 1..Len(answers)
      <4>1. requests[answers[k].to] = "MODIFY_USER" \/ CarriedOut(answers[k].to, runs)
        BY <2>1, <2>6, <3>4 DEF AlignInv
      <4>2. CarriedOut(answers[k].to, runs) => CarriedOut(answers[k].to, runs')
        BY <3>2, CarriedOutStays
      <4> QED BY <2>1, <2>3, <3>4, <4>1, <4>2
    <3> QED BY <2>4, <3>3, <3>4
  <2>7. shorts' = 0 => Whole(up')
    BY <2>1 DEF AlignInv
  <2> QED BY <2>1, <2>5, <2>6, <2>7 DEF AlignInv
<1>6. ASSUME NEW op \in DOMAIN Conversions, Sends(op) PROVE AlignInv'
  <2>1. /\ answers' = answers /\ server' = server /\ buf' = buf /\ runs' = runs
        /\ shorts' = shorts
    BY <1>6 DEF Sends
  <2>2. \/ requests' = requests
        \/ requests' = Append(requests, op)
    BY <1>6, SendsUp
  <2>3. \A i \in 1..Len(requests) : i \in 1..Len(requests') /\ requests'[i] = requests[i]
    BY <1>0, <2>2
  <2>4. shorts' = 0 => Whole(up')
    <3>1. Len(requests) + 1 \in Nat /\ Whole(<< >>)
      BY <1>0 DEF Whole
    <3>2. up' = up \o Segments(Len(requests) + 1) \/ up' = << >> \/ up' = up
      BY <1>6, SendsUp
    <3> QED BY <1>0, <2>1, <3>1, <3>2, WholeSend DEF AlignInv
  <2>5. shorts' = 0 /\ server' = "route" => /\ buf[1].part = "head"
                                            /\ buf[2] = [of |-> buf[1].of, part |-> "text"]
    BY <2>1 DEF AlignInv
  <2>6. shorts' = 0 => \A k \in 1..Len(answers) : \/ requests'[answers[k].to] = "MODIFY_USER"
                                                  \/ CarriedOut(answers[k].to, runs)
    BY <1>2, <2>1, <2>3 DEF AlignInv
  <2> QED BY <1>2, <2>1, <2>3, <2>4, <2>5, <2>6 DEF AlignInv
<1> QED BY <1>3, <1>4, <1>5, <1>6, UpSteps

\* While every read() gets what was sent, every request that has been
\* answered was handed to its handler with its own payload and all of it; the
\* answers to MODIFY_USER are the exception, whatever the other bytes do.
THEOREM AnswersAreEarned == Spec => []AnsweredIsRun
<1> DEFINE Inv == TypeInv /\ UpInv /\ AlignInv
<1>1. Init => Inv
  BY InitTyped, InitUp DEF Init, AlignInv, Whole
<1>2. Inv /\ [Next]_vars => Inv'
  BY NextTyped, NextUp, NextAlign
<1>3. Inv => AnsweredIsRun
  <2> SUFFICES ASSUME Inv, shorts = 0, NEW k \in DOMAIN answers
               PROVE  \/ requests[answers[k].to] = "MODIFY_USER"
                      \/ \E i \in DOMAIN runs :
                           /\ runs[i].of = answers[k].to
                           /\ runs[i].text = [of |-> answers[k].to, part |-> "text"]
                           /\ runs[i].complete
    BY DEF AnsweredIsRun
  <2>1. DOMAIN answers = 1..Len(answers) /\ DOMAIN runs = 1..Len(runs)
    BY DEF TypeInv, TypeOK
  <2> QED BY <2>1 DEF AlignInv, CarriedOut
<1> HIDE DEF Inv
<1> QED BY <1>1, <1>2, <1>3, SpecSteps, PTL

-----------------------------------------------------------------------------
(* How far one side can be behind the other.  Each side makes one read()   *)
(* for each message the other side sends; su of the server's read()s and   *)
(* sd of the client's came up short, and m answers have been sent.         *)

One(b) == IF b THEN 1 ELSE 0

UpPace(su) ==
  /\ ServerThere =>
       3 * (Len(answers) + One(server = "route")) + Len(up) <= 3 * (Len(requests) + su)
  /\ server = "route" => Len(answers) + 1 <= buf[1].of + su
  /\ \A k \in 1..Len(answers) : k <= answers[k].to + su

DownPace(sd, m) ==
  /\ Carried(down, m)
  /\ ServerThere /\ client # "gone" => m = Len(answers) - One(server = "send")
  /\ client # "gone" /\ (ServerThere \/ down # << >>) =>
       3 * (Len(requests) - One(client = "wait")) + Len(down) <= 3 * (m + sd)

PaceInv ==
  \E su, sd, m \in Nat : su + sd <= shorts /\ UpPace(su) /\ DownPace(sd, m)

\* Numbers of messages and of segments.
LEMMA RoundUp ==
  ASSUME NEW a \in Nat, NEW b \in Nat, NEW l \in Nat, l >= 1, 3 * a + l <= 3 * b
  PROVE  3 * (a + 1) <= 3 * b /\ a + 1 <= b
OBVIOUS

\* The types the arithmetic needs.
LEMMA Lengths ==
  ASSUME TypeInv
  PROVE  /\ Len(requests) \in Nat /\ Len(answers) \in Nat
         /\ Len(up) \in Nat /\ Len(down) \in Nat
         /\ up \in Seq(Segment) /\ down \in Seq(Segment)
         /\ buf[1].of \in Nat
         /\ \A k \in 1..Len(answers) : answers[k].to \in Nat
<1>1. TypeOK
  BY DEF TypeInv
<1>2. /\ requests \in Seq(DOMAIN Conversions) /\ up \in Seq(Segment) /\ down \in Seq(Segment)
      /\ answers \in Seq([to : Nat, status : {0, 1}, role : Roles \cup {"none"}])
      /\ buf \in [1..3 -> Segment]
  BY <1>1 DEF TypeOK
<1>3. buf[1].of \in Nat
  <2>1. buf[1] \in Segment
    BY <1>2
  <2> QED BY <2>1 DEF Segment
<1>4. Len(requests) \in Nat /\ Len(answers) \in Nat /\ Len(up) \in Nat /\ Len(down) \in Nat
  BY <1>2
<1>5. ASSUME NEW k \in 1..Len(answers) PROVE answers[k].to \in Nat
  <2>1. answers[k] \in [to : Nat, status : {0, 1}, role : Roles \cup {"none"}]
    BY <1>2, SeqAt
  <2> QED BY <2>1
<1> QED BY <1>2, <1>3, <1>4, <1>5

\* The server falls behind by one request at most with each read() that came
\* up short.
LEMMA NextUpPace ==
  ASSUME TypeInv, TypeInv', UpInv, [Next]_vars, NEW su \in Nat, UpPace(su)
  PROVE  \/ UpPace(su)'
         \/ Recv /\ shorts' = shorts + 1 /\ UpPace(su + 1)'
<1>0. /\ Len(requests) \in Nat /\ Len(answers) \in Nat /\ Len(up) \in Nat
      /\ up \in Seq(Segment) /\ buf[1].of \in Nat
      /\ \A k \in 1..Len(answers) : answers[k].to \in Nat
  BY Lengths
<1>1. CASE UpQuiet
  <2>1. /\ requests' = requests /\ answers' = answers /\ buf' = buf
        /\ Len(up') <= Len(up) /\ Len(up') \in Nat
        /\ server' = "route" => server = "route"
        /\ ServerThere' => ServerThere
    BY <1>0, <1>1 DEF UpQuiet
  <2> QED BY <1>0, <2>1 DEF UpPace, One
<1>2. CASE Recv
  <2>1. /\ requests' = requests /\ answers' = answers /\ server = "recv" /\ server' = "route"
        /\ buf'[1] = up[1] /\ up # << >>
    BY <1>2, RecvIs
  <2>2. PICK k \in 1..3 : /\ k <= Len(up) /\ Len(up') = Len(up) - k
                          /\ shorts' = IF Short(up, k) THEN shorts + 1 ELSE shorts
    BY <1>2, RecvIs
  <2>3. 3 * Len(requests) - Len(up) + 1 <= 3 * up[1].of /\ up[1].of \in Nat
    BY <1>0, <2>1, FrontIs DEF UpInv
  <2>4. /\ 3 * Len(answers) + Len(up) <= 3 * (Len(requests) + su)
        /\ \A i \in 1..Len(answers) : i <= answers[i].to + su
    BY <1>0, <2>1 DEF UpPace, ServerThere, One
  <2>5. Len(answers) + 1 <= up[1].of + su
    BY <1>0, <2>3, <2>4
  <2>6. CASE Short(up, k)
    <3>1. 3 * (Len(answers) + 1) + Len(up') <= 3 * (Len(requests) + (su + 1))
      BY <1>0, <2>2, <2>4
    <3>2. Len(answers) + 1 <= up[1].of + (su + 1)
      BY <1>0, <2>3, <2>5
    <3>3. \A i \in 1..Len(answers) : i <= answers[i].to + (su + 1)
      BY <1>0, <2>4
    <3>4. UpPace(su + 1)'
      BY <2>1, <3>1, <3>2, <3>3 DEF UpPace, One
    <3> QED BY <1>2, <2>2, <2>6, <3>4
  <2>7. CASE ~Short(up, k)
    <3>1. k = 3 \/ k = Len(up)
      BY <1>0, <2>2, <2>7 DEF Short
    <3>2. 3 * (Len(answers) + 1) + (Len(up) - k) <= 3 * (Len(requests) + su)
      <4>1. CASE k = 3
        BY <1>0, <2>4, <4>1
      <4>2. CASE k = Len(up)
        BY <1>0, <2>2, <2>4, <4>2, RoundUp
      <4> QED BY <3>1, <4>1, <4>2
    <3>3. 3 * (Len(answers) + 1) + Len(up') <= 3 * (Len(requests) + su)
      BY <2>2, <3>2
    <3>4. UpPace(su)'
      BY <2>1, <2>4, <2>5, <3>3 DEF UpPace, One
    <3> QED BY <3>4
  <2> QED BY <2>6, <2>7
<1>3. CASE Route
  <2>1. /\ requests' = requests /\ up' = up /\ server = "route" /\ server' = "send"
    BY <1>3, RouteIs
  <2>2. /\ Len(answers') = Len(answers) + 1
        /\ \A k \in 1..Len(answers) : answers'[k] = answers[k]
        /\ answers'[Len(answers) + 1].to = buf[1].of
    BY <1>3, RouteAnswers
  <2>3. /\ 3 * (Len(answers) + 1) + Len(up) <= 3 * (Len(requests) + su)
        /\ Len(answers) + 1 <= buf[1].of + su
        /\ \A k \in 1..Len(answers) : k <= answers[k].to + su
    BY <2>1 DEF UpPace, ServerThere, One
  <2>4. \A k \in 1..Len(answers') : k \in 1..Len(answers) \/ k = Len(answers) + 1
    BY <1>0, <2>2
  <2>5. \A k \in 1..Len(answers') : k <= answers'[k].to + su
    BY <2>2, <2>3, <2>4
  <2>6. 3 * (Len(answers') + 0) + Len(up') <= 3 * (Len(requests') + su)
    BY <1>0, <2>1, <2>2, <2>3
  <2> QED BY <2>1, <2>5, <2>6 DEF UpPace, One
<1>4. ASSUME NEW op \in DOMAIN Conversions, Sends(op) PROVE UpPace(su)'
  <2>1. answers' = answers /\ server' = server /\ buf' = buf
    BY <1>4 DEF Sends
  <2>2. ServerThere' = ServerThere
    BY <2>1 DEF ServerThere
  <2>3. ServerThere => Len(requests') = Len(requests) + 1 /\ Len(up') = Len(up) + 3
    BY <1>4, SendsUp
  <2>4. ServerThere => 3 * (Len(answers) + One(server = "route")) + Len(up')
                         <= 3 * (Len(requests') + su)
    <3>1. One(server = "route") \in Nat
      BY DEF One
    <3> QED BY <1>0, <2>3, <3>1 DEF UpPace
  <2> QED BY <2>1, <2>2, <2>4 DEF UpPace
<1> QED BY <1>1, <1>2, <1>3, <1>4, UpSteps

\* All steps but these leave what is on its way to the client, or drop it.
DownQuiet ==
  /\ UNCHANGED <<requests, answers>>
  /\ down' \in {down, << >>}
  /\ client' # "gone" /\ (ServerThere' \/ down' # << >>) => UNCHANGED client
  /\ ServerThere' /\ client' # "gone" => (server' = "send" <=> server = "send")
  /\ ServerThere' => ServerThere

\* Every step is one of these.
LEMMA DownSteps ==
  ASSUME TypeInv, [Next]_vars
  PROVE  \/ DownQuiet
         \/ Receive
         \/ Route
         \/ SendResponse /\ client # "gone"
         \/ \E op \in DOMAIN Conversions : Sends(op)
<1> USE DEF clientVars, serverVars, ServerThere
<1>1. CASE UNCHANGED vars
  BY <1>1 DEF vars, DownQuiet
<1>2. CASE RefuseEmployee \/ Leave
  BY <1>2 DEF RefuseEmployee, Leave, DownQuiet
<1>3. CASE ConnectionLost
  BY <1>3 DEF ConnectionLost, DownQuiet
<1>4. CASE Recv \/ RecvFails
  BY <1>4 DEF Recv, RecvFails, DownQuiet
<1>5. CASE Exit
  BY <1>5 DEF Exit, DownQuiet
<1>6. CASE SendResponse /\ client = "gone"
  BY <1>6 DEF SendResponse, DownQuiet
<1> QED BY <1>1, <1>2, <1>3, <1>4, <1>5, <1>6, ClientSteps DEF Next, ClientReads, ServerStep

\* What a read() of the client leaves.
LEMMA ReceiveLeaves ==
  ASSUME TypeInv, Receive, NEW m \in Nat, Carried(down, m)
  PROVE  /\ client = "wait" /\ client' \notin {"wait", "gone"}
         /\ UNCHANGED <<requests, answers, server, told>>
         /\ \E k \in 1..3 : /\ k <= Len(down) /\ down' = Rest(down, k)
                            /\ Len(down') = Len(down) - k
                            /\ Carried(down', m)
                            /\ shorts' = IF Short(down, k) THEN shorts + 1 ELSE shorts
<1>0. down \in Seq(Segment) /\ Len(down) \in Nat
  BY Lengths
<1>1. PICK k \in ReadsOf(down) : /\ Shortened(down, k) /\ down' = Rest(down, k)
                                 /\ GoOn(StatusIn(down[1]), TextRead(k))
  BY ReceiveIs
<1>2. client = "wait" /\ UNCHANGED <<requests, answers, server, told>>
  BY ReceiveIs
<1>3. /\ k \in 1..3 /\ k <= Len(down)
      /\ shorts' = IF Short(down, k) THEN shorts + 1 ELSE shorts
  BY <1>0, <1>1, ReadsAre
<1>4. Len(down') = Len(down) - k /\ Carried(down', m)
  BY <1>0, <1>1, <1>3, RestIs, CarriedRest
<1>5. client' \in {"prompt", "menu", "role"}
  <2>1. TextRead(k) \in 0..Len(answers)
    BY TextTyped
  <2> QED BY <1>1, <1>2, <2>1, GoOnTyped
<1> QED BY <1>1, <1>2, <1>3, <1>4, <1>5

\* The client falls behind by one answer at most with each read() that came
\* up short.
LEMMA NextDownPace ==
  ASSUME TypeInv, TypeInv', UpInv, [Next]_vars, NEW sd \in Nat, NEW m \in Nat,
         DownPace(sd, m)
  PROVE  \E n \in Nat : \/ DownPace(sd, n)'
                        \/ Receive /\ shorts' = shorts + 1 /\ DownPace(sd + 1, n)'
<1>0. /\ Len(requests) \in Nat /\ Len(answers) \in Nat /\ Len(down) \in Nat
      /\ down \in Seq(Segment)
  BY Lengths
<1>1. Carried(down, m) /\ Carried(<< >>, m)
  BY DEF DownPace, Carried
<1>2. CASE DownQuiet
  <2>1. /\ requests' = requests /\ answers' = answers /\ down' \in {down, << >>}
        /\ client' # "gone" /\ (ServerThere' \/ down' # << >>) => client' = client
        /\ ServerThere' /\ client' # "gone" => (server' = "send" <=> server = "send")
        /\ ServerThere' => ServerThere
    BY <1>2 DEF DownQuiet
  <2>2. Carried(down', m)
    BY <1>1, <2>1
  <2>3. ServerThere' /\ client' # "gone" => m = Len(answers') - One(server' = "send")
    BY <2>1 DEF DownPace, One
  <2>4. ASSUME client' # "gone", ServerThere' \/ down' # << >>
        PROVE  3 * (Len(requests') - One(client' = "wait")) + Len(down') <= 3 * (m + sd)
    <3>1. client' = client /\ (ServerThere \/ down # << >>)
      BY <2>1, <2>4
    <3>2. 3 * (Len(requests) - One(client = "wait")) + Len(down) <= 3 * (m + sd)
      BY <2>4, <3>1 DEF DownPace
    <3>3. Len(down') <= Len(down) /\ Len(down') \in Nat
      BY <1>0, <2>1
    <3>4. One(client = "wait") \in {0, 1}
      BY DEF One
    <3> QED BY <1>0, <2>1, <3>1, <3>2, <3>3, <3>4
  <2>5. DownPace(sd, m)'
    BY <2>2, <2>3, <2>4 DEF DownPace
  <2> QED BY <2>5
<1>3. CASE Receive
  <2>1. /\ client = "wait" /\ client' \notin {"wait", "gone"}
        /\ UNCHANGED <<requests, answers, server>>
    BY <1>1, <1>3, ReceiveLeaves
  <2>2. PICK k \in 1..3 : /\ k <= Len(down) /\ Len(down') = Len(down) - k
                          /\ Carried(down', m)
                          /\ shorts' = IF Short(down, k) THEN shorts + 1 ELSE shorts
    BY <1>1, <1>3, ReceiveLeaves
  <2>3. down # << >>
    BY <1>0, <2>2
  <2>4. 3 * (Len(requests) - 1) + Len(down) <= 3 * (m + sd)
    BY <2>1, <2>3 DEF DownPace, One
  <2>5. ServerThere' /\ client' # "gone" => m = Len(answers') - One(server' = "send")
    BY <2>1 DEF DownPace, ServerThere
  <2>6. One(client' = "wait") = 0
    BY <2>1 DEF One
  <2>7. CASE Short(down, k)
    <3>1. 3 * (Len(requests') - 0) + Len(down') <= 3 * (m + (sd + 1))
      BY <1>0, <2>1, <2>2, <2>4
    <3>2. DownPace(sd + 1, m)'
      BY <2>2, <2>5, <2>6, <3>1 DEF DownPace
    <3> QED BY <1>3, <2>2, <2>7, <3>2
  <2>8. CASE ~Short(down, k)
    <3>1. k = 3 \/ k = Len(down)
      BY <1>0, <2>2, <2>8 DEF Short
    <3>2. 3 * Len(requests) + (Len(down) - k) <= 3 * (m + sd)
      <4>1. CASE k = 3
        BY <1>0, <2>4, <4>1
      <4>2. CASE k = Len(down)
        <5>1. Len(requests) - 1 \in Nat /\ m + sd \in Nat /\ Len(down) >= 1
          <6>1. Len(requests) > 0
            BY <2>1 DEF TypeInv, Flow
          <6> QED BY <1>0, <2>2, <6>1
        <5>2. 3 * ((Len(requests) - 1) + 1) <= 3 * (m + sd)
          BY <1>0, <2>4, <5>1, RoundUp
        <5> QED BY <1>0, <4>2, <5>2
      <4> QED BY <3>1, <4>1, <4>2
    <3>3. 3 * (Len(requests') - 0) + Len(down') <= 3 * (m + sd)
      BY <1>0, <2>1, <2>2, <3>2
    <3>4. DownPace(sd, m)'
      BY <2>2, <2>5, <2>6, <3>3 DEF DownPace
    <3> QED BY <3>4
  <2> QED BY <2>7, <2>8
<1>4. CASE Route
  <2>1. /\ server = "route" /\ server' = "send" /\ UNCHANGED <<requests, down, client>>
        /\ Len(answers') = Len(answers) + 1
    BY <1>4, RouteIs, RouteAnswers
  <2>2. ServerThere
    BY <2>1 DEF ServerThere
  <2>3. ServerThere' /\ client' # "gone" => m = Len(answers') - One(server' = "send")
    BY <1>0, <2>1, <2>2 DEF DownPace, One
  <2>4. client' # "gone" /\ (ServerThere' \/ down' # << >>) =>
          3 * (Len(requests') - One(client' = "wait")) + Len(down') <= 3 * (m + sd)
    BY <2>1, <2>2 DEF DownPace
  <2>5. DownPace(sd, m)'
    BY <1>1, <2>1, <2>3, <2>4 DEF DownPace
  <2> QED BY <2>5
<1>5. CASE SendResponse /\ client # "gone"
  <2>1. /\ server = "send" /\ server' = "recv" /\ UNCHANGED <<requests, answers, client>>
        /\ down' = down \o Segments(Len(answers))
    BY <1>5 DEF SendResponse, clientVars
  <2>2. ServerThere
    BY <2>1 DEF ServerThere
  <2>3. m = Len(answers) - 1 /\ m + 1 = Len(answers) /\ m + 1 \in Nat
    BY <1>0, <1>5, <2>1, <2>2 DEF DownPace, One
  <2>4. Carried(down', m + 1)
    BY <1>0, <1>1, <2>1, <2>3, CarriedSend
  <2>5. Len(down') = Len(down) + 3
    BY <1>0, <2>1, SentIs
  <2>6. ServerThere' /\ client' # "gone" => m + 1 = Len(answers') - One(server' = "send")
    BY <1>0, <2>1, <2>3 DEF One
  <2>7. 3 * (Len(requests') - One(client' = "wait")) + Len(down') <= 3 * ((m + 1) + sd)
    <3>1. 3 * (Len(requests) - One(client = "wait")) + Len(down) <= 3 * (m + sd)
      BY <1>5, <2>2 DEF DownPace
    <3>2. One(client = "wait") \in {0, 1}
      BY DEF One
    <3> QED BY <1>0, <2>1, <2>5, <3>1, <3>2
  <2>8. DownPace(sd, m + 1)'
    BY <2>4, <2>6, <2>7 DEF DownPace
  <2> QED BY <2>3, <2>8
<1>6. ASSUME NEW op \in DOMAIN Conversions, Sends(op)
      PROVE  DownPace(sd, m)'
  <2>1. /\ answers' = answers /\ server' = server /\ down' = down
        /\ client \in {"prompt", "menu", "role"}
    BY <1>6 DEF Sends
  <2>2. \/ Len(requests') = Len(requests) + 1 /\ client' = "wait"
        \/ client' = "gone"
    BY <1>6, SendsUp
  <2>3. ServerThere' /\ client' # "gone" => m = Len(answers') - One(server' = "send")
    BY <2>1 DEF DownPace, ServerThere
  <2>4. ASSUME client' # "gone", ServerThere' \/ down' # << >>
        PROVE  3 * (Len(requests') - One(client' = "wait")) + Len(down') <= 3 * (m + sd)
    <3>1. ServerThere \/ down # << >>
      BY <2>1, <2>4 DEF ServerThere
    <3>2. 3 * (Len(requests) - 0) + Len(down) <= 3 * (m + sd)
      BY <2>1, <3>1 DEF DownPace, One
    <3>3. Len(requests') - One(client' = "wait") = Len(requests) - 0
      BY <1>0, <2>2, <2>4 DEF One
    <3> QED BY <2>1, <3>2, <3>3
  <2> QED BY <1>1, <2>1, <2>3, <2>4 DEF DownPace
<1> QED BY <1>2, <1>3, <1>4, <1>5, <1>6, DownSteps

\* Every step keeps both sides within the reads that came up short.
LEMMA NextPace ==
  ASSUME TypeInv, TypeInv', UpInv, PaceInv, [Next]_vars
  PROVE  PaceInv'
<1>1. PICK su \in Nat, sd \in Nat, m \in Nat : /\ su + sd <= shorts
                                               /\ UpPace(su) /\ DownPace(sd, m)
  BY DEF PaceInv
<1>2. shorts \in Nat /\ shorts' \in Nat /\ shorts <= shorts'
  BY ShortsGrow
<1>3. \/ UpPace(su)'
      \/ Recv /\ shorts' = shorts + 1 /\ UpPace(su + 1)'
  BY <1>1, NextUpPace
<1>4. PICK n \in Nat : \/ DownPace(sd, n)'
                       \/ Receive /\ shorts' = shorts + 1 /\ DownPace(sd + 1, n)'
  BY <1>1, NextDownPace
<1>5. ~(Recv /\ Receive)
  BY DEF Recv, Receive, serverVars
<1>6. \E s, d \in Nat : s + d <= shorts' /\ UpPace(s)' /\ DownPace(d, n)'
  <2>1. CASE UpPace(su)' /\ DownPace(sd, n)'
    BY <1>1, <1>2, <2>1
  <2>2. CASE shorts' = shorts + 1 /\ UpPace(su + 1)' /\ DownPace(sd, n)'
    <3>1. su + 1 \in Nat /\ (su + 1) + sd <= shorts'
      BY <1>1, <1>2, <2>2
    <3> QED BY <2>2, <3>1
  <2>3. CASE shorts' = shorts + 1 /\ UpPace(su)' /\ DownPace(sd + 1, n)'
    <3>1. sd + 1 \in Nat /\ su + (sd + 1) <= shorts'
      BY <1>1, <1>2, <2>3
    <3> QED BY <2>3, <3>1
  <2> QED BY <1>3, <1>4, <1>5, <2>1, <2>2, <2>3
<1> QED BY <1>4, <1>6 DEF PaceInv

\* Nobody is behind at the start.
LEMMA InitPace == Init => PaceInv
<1> SUFFICES ASSUME Init PROVE PaceInv  OBVIOUS
<1>1. Len(<< >>) = 0 /\ 0 \in Nat
  OBVIOUS
<1>2. UpPace(0)
  BY <1>1 DEF Init, UpPace, One
<1>3. DownPace(0, 0)
  BY <1>1 DEF Init, DownPace, Carried, One
<1> QED BY <1>1, <1>2, <1>3 DEF Init, PaceInv

-----------------------------------------------------------------------------
(* A client that vanishes does not take the server with it.                *)

\* What the server has still to read or to answer, in segments.
Load == Len(up) + (IF server \in {"route", "send"} THEN 3 ELSE 0)

\* At most one request is open, and none once the server has written to a
\* client that is gone.
SurviveInv ==
  /\ server = "killed" => shorts > 0
  /\ shorts = 0 /\ ServerThere => /\ Load <= 3
                                  /\ reset => Load = 0 /\ client = "gone"

\* While nothing came up short, a client that is there has one request open
\* at most.
LEMMA OneOpen ==
  ASSUME TypeInv, PaceInv, shorts = 0, ServerThere, client # "gone"
  PROVE  Load <= 3 /\ (client # "wait" => Load = 0 /\ down = << >>)
<1>0. /\ Len(requests) \in Nat /\ Len(answers) \in Nat /\ Len(up) \in Nat /\ Len(down) \in Nat
      /\ down \in Seq(Segment)
  BY Lengths
<1>1. PICK su \in Nat, sd \in Nat, m \in Nat : /\ su + sd <= shorts
                                               /\ UpPace(su) /\ DownPace(sd, m)
  BY DEF PaceInv
<1>2. su = 0 /\ sd = 0
  BY <1>1
<1>3. 3 * (Len(answers) + One(server = "route")) + Len(up) <= 3 * Len(requests)
  BY <1>0, <1>1, <1>2 DEF UpPace
<1>4. /\ m = Len(answers) - One(server = "send")
      /\ 3 * (Len(requests) - One(client = "wait")) + Len(down) <= 3 * m
  BY <1>1, <1>2 DEF DownPace
<1>5. /\ One(server = "route") \in {0, 1} /\ One(server = "send") \in {0, 1}
      /\ One(client = "wait") \in {0, 1} /\ (client # "wait" => One(client = "wait") = 0)
  BY DEF One
<1>6. Load = Len(up) + 3 * One(server = "route") + 3 * One(server = "send")
  <2>1. CASE server = "route"
    BY <1>0, <2>1 DEF Load, One
  <2>2. CASE server = "send"
    BY <1>0, <2>2 DEF Load, One
  <2>3. CASE server \notin {"route", "send"}
    <3>1. Load = Len(up) + 0 /\ One(server = "route") = 0 /\ One(server = "send") = 0
      BY <2>3 DEF Load, One
    <3> QED BY <1>0, <3>1
  <2> QED BY <2>1, <2>2, <2>3
<1>7. Load + Len(down) <= 3 * One(client = "wait") /\ Load \in Nat
  <2> DEFINE r == One(server = "route")
             s == One(server = "send")
             w == One(client = "wait")
  <2>1. r \in {0, 1} /\ s \in {0, 1} /\ w \in {0, 1}
    BY <1>5
  <2>2. /\ 3 * (Len(answers) + r) + Len(up) <= 3 * Len(requests)
        /\ 3 * (Len(requests) - w) + Len(down) <= 3 * (Len(answers) - s)
        /\ Load = Len(up) + 3 * r + 3 * s
    BY <1>3, <1>4, <1>6
  <2> HIDE DEF r, s, w
  <2>3. Load + Len(down) <= 3 * w /\ Load \in Nat
    BY <1>0, <2>1, <2>2
  <2> QED BY <2>3 DEF w
<1>8. Len(down) = 0 => down = << >>
  BY <1>0
<1> QED BY <1>0, <1>5, <1>7, <1>8

\* Every step keeps that.
LEMMA NextSurvive ==
  ASSUME TypeInv, TypeInv', UpInv, AlignInv, PaceInv, SurviveInv, [Next]_vars
  PROVE  SurviveInv'
<1> USE DEF clientVars, serverVars
<1>0. /\ Len(up) \in Nat /\ up \in Seq(Segment) /\ Len(requests) \in Nat
      /\ shorts \in Nat /\ shorts' \in Nat /\ shorts <= shorts'
      /\ shorts' = 0 => shorts = 0
  BY Lengths, ShortsGrow
<1>1. CASE UNCHANGED vars
  BY <1>1 DEF vars, SurviveInv, Load, ServerThere
<1>2. CASE RefuseEmployee \/ ConnectionLost
  <2>1. UNCHANGED <<up, server, reset, shorts>> /\ client # "gone"
    BY <1>2 DEF RefuseEmployee, ConnectionLost
  <2>2. ~(shorts = 0 /\ ServerThere /\ reset)
    BY <2>1 DEF SurviveInv
  <2>3. Load' = Load /\ ServerThere' = ServerThere
    BY <2>1 DEF Load, ServerThere
  <2> QED BY <2>1, <2>2, <2>3 DEF SurviveInv
<1>3. CASE Leave
  BY <1>3 DEF Leave, SurviveInv, Load, ServerThere
<1>4. CASE Receive
  <2>1. UNCHANGED <<up, server, reset>> /\ client # "gone"
    BY <1>4, ReceiveIs
  <2>2. ~(shorts = 0 /\ ServerThere /\ reset)
    BY <2>1 DEF SurviveInv
  <2>3. Load' = Load /\ ServerThere' = ServerThere
    BY <2>1 DEF Load, ServerThere
  <2> QED BY <1>0, <2>1, <2>2, <2>3 DEF SurviveInv
<1>5. CASE Recv
  <2>1. server = "recv" /\ server' = "route" /\ UNCHANGED <<client, reset>>
    BY <1>5, RecvIs
  <2>2. ASSUME shorts' = 0
        PROVE  Load' = Load
    <3>1. PICK k \in 1..3 : /\ k <= Len(up) /\ up' = Rest(up, k) /\ Len(up') = Len(up) - k
                            /\ shorts' = IF Short(up, k) THEN shorts + 1 ELSE shorts
      BY <1>5, RecvIs
    <3>2. shorts = 0 /\ ~Short(up, k)
      BY <1>0, <2>2, <3>1
    <3>3. Whole(up) /\ Carried(up, Len(requests)) /\ OnWire(up, Len(requests))
      BY <3>2 DEF AlignInv, UpInv, TypeInv, Flow
    <3>4. k = 3
      BY <1>0, <3>1, <3>2, <3>3, WholeRead
    <3> QED BY <1>0, <2>1, <3>1, <3>4 DEF Load
  <2>3. ServerThere
    BY <2>1 DEF ServerThere
  <2> QED BY <1>0, <2>1, <2>2, <2>3 DEF SurviveInv
<1>6. CASE RecvFails \/ Exit
  <2>1. server' = "ended"
    BY <1>6 DEF RecvFails, Exit
  <2> QED BY <2>1 DEF SurviveInv, ServerThere
<1>7. CASE Route
  <2>1. server = "route" /\ server' = "send" /\ UNCHANGED <<up, client, reset, shorts>>
    BY <1>7, RouteIs
  <2>2. Load' = Load /\ ServerThere
    BY <2>1 DEF Load, ServerThere
  <2> QED BY <2>1, <2>2 DEF SurviveInv
<1>8. CASE SendResponse
  <2>1. server = "send" /\ UNCHANGED <<up, client, shorts>>
    BY <1>8 DEF SendResponse
  <2>2. ServerThere /\ Load = Len(up) + 3
    BY <2>1 DEF Load, ServerThere
  <2>3. shorts = 0 => ~reset /\ Len(up) = 0
    BY <1>0, <2>2 DEF SurviveInv
  <2>4. server' \in {"recv", "killed"} /\ (server' = "killed" => reset)
    BY <1>8 DEF SendResponse
  <2>5. shorts = 0 => server' = "recv" /\ Load' = 0
    BY <2>1, <2>3, <2>4 DEF Load
  <2>6. reset' => reset \/ client = "gone"
    BY <1>8 DEF SendResponse
  <2> QED BY <1>0, <2>1, <2>3, <2>4, <2>5, <2>6 DEF SurviveInv
<1>9. ASSUME NEW op \in DOMAIN Conversions, Sends(op) PROVE SurviveInv'
  <2>1. server' = server /\ shorts' = shorts /\ client # "gone"
    BY <1>9 DEF Sends
  <2>2. ServerThere => client' = "wait" /\ reset' = reset
    BY <1>9, SendsUp
  <2>3. ServerThere' = ServerThere
    BY <2>1 DEF ServerThere
  <2>4. shorts' = 0 /\ ServerThere' => Load' <= 3
    <3>1. client # "wait"
      BY <1>9 DEF Sends
    <3>2. shorts = 0 /\ ServerThere => Load = 0
      BY <2>1, <3>1, OneOpen
    <3>3. ServerThere => Len(up') = Len(up) + 3
      BY <1>9, SendsUp
    <3>4. ServerThere => Load' = Load + 3
      BY <1>0, <2>1, <3>3 DEF Load
    <3> QED BY <2>1, <2>3, <3>2, <3>4
  <2>5. shorts = 0 /\ ServerThere => ~reset
    BY <2>1 DEF SurviveInv
  <2> QED BY <2>1, <2>2, <2>3, <2>4, <2>5 DEF SurviveInv
<1> QED BY <1>1, <1>2, <1>3, <1>4, <1>5, <1>6, <1>7, <1>8, <1>9, ClientSteps
        DEF Next, ClientReads, ServerStep

\* However many requests it makes and wherever it goes away, a client cannot
\* have the server killed by SIGPIPE as long as every read() got what was
\* sent.
THEOREM ServerOutlives == Spec => []ServerSurvives
<1> DEFINE Inv == TypeInv /\ UpInv /\ AlignInv /\ PaceInv /\ SurviveInv
<1>1. Init => Inv
  <2>1. Init => AlignInv
    BY DEF Init, AlignInv, Whole
  <2>2. Init => SurviveInv
    BY DEF Init, SurviveInv, Load
  <2> QED BY <2>1, <2>2, InitTyped, InitUp, InitPace
<1>2. Inv /\ [Next]_vars => Inv'
  BY NextTyped, NextUp, NextAlign, NextPace, NextSurvive
<1>3. Inv => ServerSurvives
  BY DEF SurviveInv, ServerSurvives
<1> HIDE DEF Inv
<1> QED BY <1>1, <1>2, <1>3, SpecSteps, PTL

-----------------------------------------------------------------------------
(* The answer shown is that to the request just made, or to one not older  *)
(* than the reads that came up short allow.                                *)

\* Reads the client has made.
Reads == Len(requests) - One(client = "wait")

\* "Manage User Roles" goes from its first request to its second one with
\* what is in the response buffer.
InRole == client = "role" \/ (client = "wait" /\ requests[Len(requests)] = "CHANGE_ROLE")

LagInv ==
  /\ shorts = 0 => Whole(down)
  /\ client = "wait" /\ requests[Len(requests)] \notin {"LOGIN", "CHANGE_ROLE"} =>
       resp.menu = 0
  /\ InRole /\ resp.menu # 0 /\ ~told =>
       /\ Reads <= answers[resp.menu].to + shorts
       /\ ~Whole(down) => Reads + 1 <= answers[resp.menu].to + shorts
  /\ LagBounded

\* The types of what the client holds.
LEMMA ClientTypes ==
  ASSUME TypeInv
  PROVE  /\ resp.menu \in 0..Len(answers) /\ resp.main \in 0..Len(answers)
         /\ shown \in 0..Len(answers)
         /\ resp \in [main : 0..Len(answers), menu : 0..Len(answers)]
         /\ resp.menu # 0 => answers[resp.menu].to \in Nat
         /\ shown # 0 => answers[shown].to \in Nat
<1>1. /\ resp \in [main : 0..Len(answers), menu : 0..Len(answers)]
      /\ shown \in 0..Len(answers)
  BY DEF TypeInv, TypeOK
<1>2. Len(answers) \in Nat /\ \A k \in 1..Len(answers) : answers[k].to \in Nat
  BY Lengths
<1> QED BY <1>1, <1>2

\* Most steps leave the client alone, keep the answers and do not cut the
\* stream to it.
ClientQuiet ==
  /\ UNCHANGED <<requests, resp, shown, told>>
  /\ client' \in {client, "gone"}
  /\ \A k \in 1..Len(answers) : answers'[k] = answers[k]
  /\ Whole(down) => Whole(down')

\* Every step is one of these.
LEMMA ClientQuietSteps ==
  ASSUME TypeInv, [Next]_vars
  PROVE  \/ ClientQuiet
         \/ Receive
         \/ ConnectionLost
         \/ \E op \in DOMAIN Conversions : Sends(op)
<1> USE DEF clientVars, serverVars
<1>0. down \in Seq(Segment) /\ Len(answers) \in Nat /\ Whole(<< >>)
  BY Lengths DEF Whole
<1>1. CASE UNCHANGED vars
  BY <1>1 DEF vars, ClientQuiet
<1>2. CASE RefuseEmployee \/ Leave
  BY <1>0, <1>2 DEF RefuseEmployee, Leave, ClientQuiet
<1>3. CASE Recv \/ RecvFails
  BY <1>3 DEF Recv, RecvFails, ClientQuiet
<1>4. CASE Route
  <2>1. \A k \in 1..Len(answers) : answers'[k] = answers[k]
    BY <1>4, RouteAnswers
  <2>2. UNCHANGED <<requests, resp, shown, told, client, down>>
    BY <1>4, RouteIs
  <2> QED BY <2>1, <2>2 DEF ClientQuiet
<1>5. CASE SendResponse
  <2>1. UNCHANGED <<requests, resp, shown, told, client, answers>>
    BY <1>5 DEF SendResponse
  <2>2. down' = down \/ down' = down \o Segments(Len(answers))
    BY <1>5 DEF SendResponse
  <2>3. Whole(down) => Whole(down')
    BY <1>0, <2>2, WholeSend
  <2> QED BY <2>1, <2>3 DEF ClientQuiet
<1>6. CASE Exit
  BY <1>0, <1>6 DEF Exit, ClientQuiet
<1> QED BY <1>1, <1>2, <1>3, <1>4, <1>5, <1>6, ClientSteps DEF Next, ClientReads, ServerStep

\* Such steps keep the lag.
LEMMA QuietLag ==
  ASSUME TypeInv, UpInv, [Next]_vars, LagInv, ClientQuiet
  PROVE  LagInv'
<1>1. shorts \in Nat /\ shorts' \in Nat /\ shorts <= shorts'
  BY ShortsGrow
<1>2. /\ resp.menu \in 0..Len(answers) /\ shown \in 0..Len(answers)
      /\ resp.menu # 0 => answers[resp.menu].to \in Nat
      /\ shown # 0 => answers[shown].to \in Nat
      /\ Len(answers) \in Nat /\ Len(requests) \in Nat
  BY ClientTypes, Lengths
<1>3. /\ requests' = requests /\ resp' = resp /\ shown' = shown /\ told' = told
      /\ client' \in {client, "gone"}
      /\ \A k \in 1..Len(answers) : answers'[k] = answers[k]
      /\ Whole(down) => Whole(down')
  BY DEF ClientQuiet
<1>4. /\ resp.menu # 0 => answers'[resp.menu] = answers[resp.menu]
      /\ shown # 0 => answers'[shown] = answers[shown]
  BY <1>2, <1>3
<1>5. shorts' = 0 => Whole(down')
  BY <1>1, <1>3 DEF LagInv
<1>6. client' = "wait" /\ requests'[Len(requests')] \notin {"LOGIN", "CHANGE_ROLE"} =>
        resp'.menu = 0
  BY <1>3 DEF LagInv
<1>7. ASSUME InRole', resp'.menu # 0, ~told'
      PROVE  /\ Reads' <= answers'[resp'.menu].to + shorts'
             /\ ~Whole(down') => Reads' + 1 <= answers'[resp'.menu].to + shorts'
  <2>1. client' = client /\ InRole
    BY <1>3, <1>7 DEF InRole
  <2>2. Reads' = Reads /\ Reads \in Int
    BY <1>2, <1>3, <2>1 DEF Reads, One
  <2>3. /\ Reads <= answers[resp.menu].to + shorts
        /\ ~Whole(down) => Reads + 1 <= answers[resp.menu].to + shorts
    BY <1>3, <1>7, <2>1 DEF LagInv
  <2> QED BY <1>1, <1>2, <1>3, <1>4, <1>7, <2>2, <2>3
<1>8. LagBounded'
  <2> SUFFICES ASSUME client' \in {"menu", "role"}, ~told'
               PROVE  /\ shorts' = 0 => shown' # 0
                      /\ shown' # 0 /\ (shorts' > 0 => requests'[Len(requests')] # "LOGIN") =>
                           Len(requests') - answers'[shown'].to <= shorts'
    BY DEF LagBounded
  <2>1. client \in {"menu", "role"} /\ ~told
    BY <1>3
  <2>2. /\ shorts = 0 => shown # 0
        /\ shown # 0 /\ (shorts > 0 => requests[Len(requests)] # "LOGIN") =>
             Len(requests) - answers[shown].to <= shorts
    BY <2>1 DEF LagInv, LagBounded
  <2>3. shorts > 0 => shorts' > 0
    BY <1>1
  <2>4. shorts' = 0 => shorts = 0
    BY <1>1
  <2>5. ASSUME shown # 0, shorts' > 0 => requests[Len(requests)] # "LOGIN"
        PROVE  Len(requests) - answers[shown].to <= shorts'
    <3>1. Len(requests) - answers[shown].to <= shorts
      BY <2>2, <2>3, <2>5
    <3> QED BY <1>1, <1>2, <2>5, <3>1
  <2> QED BY <1>3, <1>4, <2>2, <2>4, <2>5
<1> QED BY <1>5, <1>6, <1>7, <1>8 DEF LagInv

\* A write() keeps the lag.
LEMMA SendsLag ==
  ASSUME TypeInv, UpInv, LagInv, NEW op \in DOMAIN Conversions, Sends(op)
  PROVE  LagInv'
<1>0. /\ Len(requests) \in Nat /\ requests \in Seq(DOMAIN Conversions)
      /\ resp \in [main : 0..Len(answers), menu : 0..Len(answers)]
  BY Lengths, ClientTypes DEF TypeInv, TypeOK
<1>1. /\ down' = down /\ shorts' = shorts /\ answers' = answers /\ told' = told
      /\ client \in {"prompt", "menu", "role"}
      /\ client = "prompt" <=> op = "LOGIN"
      /\ client = "role" <=> op = "CHANGE_ROLE"
      /\ resp' = IF client = "menu" THEN [resp EXCEPT !.menu = 0] ELSE resp
  BY DEF Sends
<1>2. \/ /\ client' = "wait" /\ Len(requests') = Len(requests) + 1
         /\ requests' = Append(requests, op)
      \/ client' = "gone"
  BY SendsUp
<1>3. client' = "wait" => requests'[Len(requests')] = op
  BY <1>0, <1>2
<1>4. shorts' = 0 => Whole(down')
  BY <1>1 DEF LagInv
<1>5. client = "menu" => resp'.menu = 0
  BY <1>0, <1>1
<1>6. ASSUME InRole', resp'.menu # 0, ~told'
      PROVE  /\ Reads' <= answers'[resp'.menu].to + shorts'
             /\ ~Whole(down') => Reads' + 1 <= answers'[resp'.menu].to + shorts'
  <2>1. client' = "wait" /\ op = "CHANGE_ROLE"
    BY <1>2, <1>3, <1>6 DEF InRole
  <2>2. client = "role" /\ resp' = resp
    BY <1>1, <2>1
  <2>3. Reads' = Len(requests) /\ Reads = Len(requests)
    BY <1>0, <1>2, <2>1, <2>2 DEF Reads, One
  <2>4. /\ Reads <= answers[resp.menu].to + shorts
        /\ ~Whole(down) => Reads + 1 <= answers[resp.menu].to + shorts
    BY <1>1, <1>6, <2>2 DEF LagInv, InRole
  <2> QED BY <1>1, <2>2, <2>3, <2>4
<1>7. LagBounded'
  BY <1>2 DEF LagBounded
<1> QED BY <1>1, <1>3, <1>4, <1>5, <1>6, <1>7 DEF LagInv

\* A text that is read is late by the reads that came up short.  What follows
\* it, unless the next answer, was left by one more of these.
LEMMA ReadLag ==
  ASSUME TypeInv, PaceInv, client = "wait", NEW k \in 2..3, k <= Len(down),
         down[2].part = "text"
  PROVE  /\ down[2].of \in 1..Len(answers)
         /\ Len(requests) <= answers[down[2].of].to + shorts
         /\ k = 3 => Whole(Rest(down, k))
         /\ k = 2 => Short(down, k)
<1> DEFINE q == down[2].of
           R == Len(requests)
           D == Len(down)
<1>0. /\ R \in Nat /\ Len(answers) \in Nat /\ D \in Nat /\ down \in Seq(Segment)
      /\ \A i \in 1..Len(answers) : answers[i].to \in Nat
      /\ shorts \in Nat
  <2>1. shorts \in 0..MaxShorts
    BY DEF TypeInv, TypeOK
  <2> QED BY <2>1, Lengths, BoundsAssumption
<1>1. PICK su \in Nat, sd \in Nat, m \in Nat : /\ su + sd <= shorts
                                               /\ UpPace(su) /\ DownPace(sd, m)
  BY DEF PaceInv
<1>2. 2 \in 1..D /\ down # << >>
  BY <1>0
<1>3. q \in 1..Len(answers)
  BY <1>2 DEF TypeInv, Flow, OnWire
<1>4. 3 * q - 3 + 2 = 3 * m - D + 2
  <2>1. Place(down[2]) = 3 * m - D + 2
    BY <1>1, <1>2 DEF DownPace, Carried
  <2>2. Place(down[2]) = 3 * q - 3 + 2
    BY DEF Place
  <2> QED BY <2>1, <2>2
<1>5. 3 * (R - 1) + D <= 3 * (m + sd)
  BY <1>1, <1>2 DEF DownPace, One
<1>6. q <= answers[q].to + su /\ answers[q].to \in Nat
  BY <1>0, <1>1, <1>3 DEF UpPace
<1>7. \A i \in 1..D : /\ down[i] \in Segment /\ down[i].part # "none"
                      /\ Place(down[i]) = 3 * m - D + i
  <2> SUFFICES ASSUME NEW i \in 1..D
               PROVE  /\ down[i] \in Segment /\ down[i].part # "none"
                      /\ Place(down[i]) = 3 * m - D + i
    OBVIOUS
  <2>1. down[i] \in Segment
    BY <1>0, SeqAt
  <2> QED BY <1>1, <2>1 DEF TypeInv, Flow, OnWire, DownPace, Carried
<1> HIDE DEF q, R, D
<1>8. R <= answers[q].to + shorts
  <2>1. R <= q + sd
    BY <1>0, <1>3, <1>4, <1>5
  <2> QED BY <1>0, <1>1, <1>3, <1>6, <2>1
<1>9. D >= 3
  BY <1>0, <1>2, <1>3, <1>4
<1>10. k = 2 => Short(down, k)
  BY <1>9 DEF Short, D
<1>11. ASSUME k = 3, Rest(down, k) # << >> PROVE Rest(down, k)[1].part = "head"
  <2>1. /\ Rest(down, k) \in Seq(Segment) /\ Len(Rest(down, k)) = D - 3
        /\ \A i \in 1..(D - 3) : Rest(down, k)[i] = down[i + 3]
    <3>1. 3 \in 1..3 /\ 3 <= Len(down)
      BY <1>9 DEF D
    <3> QED BY <1>0, <1>11, <3>1, RestIs DEF D
  <2>2. 1 \in 1..(D - 3) /\ 4 \in 1..D
    BY <1>0, <1>11, <2>1
  <2>3. Rest(down, k)[1] = down[4]
    BY <2>1, <2>2
  <2>4. Place(down[4]) = 3 * q + 1 /\ q \in Nat
    <3>1. Place(down[4]) = 3 * m - D + 4
      BY <1>7, <2>2
    <3>2. q \in Nat /\ 3 * m - D + 4 = 3 * q + 1
      BY <1>0, <1>3, <1>4
    <3> QED BY <3>1, <3>2
  <2>5. down[4] = [of |-> q + 1, part |-> "head"]
    BY <1>7, <2>2, <2>4, PlaceTells
  <2> QED BY <2>3, <2>5
<1> QED BY <1>3, <1>8, <1>10, <1>11 DEF q, R, Whole

\* A read() keeps the lag.
LEMMA ReceiveLag ==
  ASSUME TypeInv, UpInv, PaceInv, LagInv, [Next]_vars, Receive
  PROVE  LagInv'
<1> DEFINE last == requests[Len(requests)]
           R == Len(requests)
<1>0. /\ R \in Nat /\ Len(answers) \in Nat /\ Len(down) \in Nat /\ down \in Seq(Segment)
      /\ \A i \in 1..Len(answers) : answers[i].to \in Nat
      /\ resp \in [main : 0..Len(answers), menu : 0..Len(answers)]
      /\ resp.menu \in 0..Len(answers)
      /\ shorts \in Nat /\ shorts' \in Nat /\ shorts <= shorts'
  BY Lengths, ClientTypes, ShortsGrow
<1>1. PICK k \in ReadsOf(down) :
        /\ Shortened(down, k)
        /\ down' = Rest(down, k)
        /\ resp' = [resp EXCEPT ![IF menu = "none" THEN "main" ELSE "menu"] = TextRead(k)]
        /\ shown' = TextRead(k)
        /\ GoOn(StatusIn(down[1]), TextRead(k))
  BY ReceiveIs
<1>2. client = "wait" /\ requests' = requests /\ answers' = answers /\ told' = told
  BY ReceiveIs
<1>3. /\ k \in 1..3 /\ k <= Len(down) /\ down # << >>
      /\ shorts' = IF Short(down, k) THEN shorts + 1 ELSE shorts
  <2>1. /\ k \in 1..3 /\ k <= Len(down)
        /\ shorts' = IF Short(down, k) THEN shorts + 1 ELSE shorts
    BY <1>0, <1>1, ReadsAre
  <2> QED BY <1>0, <2>1
<1>4. TextRead(k) \in 0..Len(answers)
  BY TextTyped
<1>5. client' \in {"prompt", "menu", "role"} /\ (client' = "role" => last = "LIST_USERS")
  BY <1>1, <1>2, <1>4, GoOnTyped
<1>6. last = "LOGIN" <=> menu = "none"
  BY <1>2 DEF TypeInv, Flow
<1>7. ASSUME shorts' = 0
      PROVE  k = 3 /\ Whole(down') /\ TextRead(k) # 0
  <2>1. shorts = 0 /\ ~Short(down, k)
    BY <1>0, <1>3, <1>7
  <2>2. PICK m \in Nat : Carried(down, m)
    BY DEF PaceInv, DownPace
  <2>3. Whole(down) /\ OnWire(down, Len(answers))
    BY <2>1 DEF LagInv, TypeInv, Flow
  <2>4. /\ k = 3 /\ Whole(Rest(down, k))
        /\ down[2] = [of |-> down[1].of, part |-> "text"]
    BY <1>0, <1>3, <2>1, <2>2, <2>3, WholeRead
  <2>5. down[2].of \in 1..Len(answers)
    <3>1. 2 \in 1..Len(down)
      BY <1>0, <1>3, <2>4
    <3> QED BY <2>3, <3>1 DEF OnWire
  <2>6. TextRead(k) = down[2].of
    BY <2>4 DEF TextRead, TextAfter
  <2> QED BY <1>0, <1>1, <2>4, <2>5, <2>6
<1>8. ASSUME k # 1, TextRead(k) # 0
      PROVE  /\ R <= answers[TextRead(k)].to + shorts
             /\ ~Whole(down') => shorts' = shorts + 1
  <2>1. down[2].part = "text" /\ TextRead(k) = down[2].of /\ k \in 2..3
    BY <1>3, <1>8 DEF TextRead, TextAfter
  <2>2. /\ R <= answers[down[2].of].to + shorts
        /\ k = 3 => Whole(Rest(down, k))
        /\ k = 2 => Short(down, k)
    BY <1>2, <1>3, <2>1, ReadLag
  <2> QED BY <1>1, <1>3, <2>1, <2>2
<1>9. ASSUME k = 1, last # "LOGIN", TextRead(k) # 0, ~told
      PROVE  R <= answers[TextRead(k)].to + shorts'
  <2>1. TextRead(k) = resp.menu
    BY <1>6, <1>9 DEF TextRead, TextAfter
  <2>2. InRole
    BY <1>2, <1>9, <2>1 DEF LagInv, InRole
  <2>3. Reads = R - 1
    BY <1>2 DEF Reads, One
  <2>4. /\ R - 1 <= answers[resp.menu].to + shorts
        /\ ~Whole(down) => (R - 1) + 1 <= answers[resp.menu].to + shorts
    BY <1>9, <2>1, <2>2, <2>3 DEF LagInv
  <2>5. answers[resp.menu].to \in Nat
    BY <1>9, <2>1, ClientTypes
  <2>6. CASE Short(down, k)
    <3>1. shorts' = shorts + 1
      BY <1>3, <2>6
    <3> QED BY <1>0, <2>1, <2>4, <2>5, <3>1
  <2>7. CASE ~Short(down, k)
    <3>1. Len(down) = 1 /\ shorts' = shorts
      <4>1. ~(1 < Len(down)) /\ 1 <= Len(down)
        BY <1>3, <1>9, <2>7 DEF Short
      <4>2. Len(down) = 1
        <5>1. Len(down) \in Nat
          BY <1>0
        <5>2. \A a \in Nat : ~(1 < a) /\ 1 <= a => a = 1
          OBVIOUS
        <5> QED BY <4>1, <5>1, <5>2
      <4>3. shorts' = shorts
        BY <1>3, <2>7
      <4> QED BY <4>2, <4>3
    <3>2. PICK m \in Nat : Carried(down, m)
      BY DEF PaceInv, DownPace
    <3>3. /\ down[1].of \in Nat
          /\ down[1].part = "head" => 3 * down[1].of = 3 * m - 1 + 3
      BY <1>0, <1>3, <3>1, <3>2, FrontIs
    <3>4. ~Whole(down)
      <4>1. 3 * down[1].of # 3 * m - 1 + 3
        BY <3>2, <3>3
      <4> QED BY <1>3, <3>3, <4>1 DEF Whole
    <3> QED BY <1>0, <2>1, <2>4, <2>5, <3>1, <3>4
  <2> QED BY <2>6, <2>7
<1>10. ASSUME InRole', resp'.menu # 0, ~told'
       PROVE  /\ Reads' <= answers'[resp'.menu].to + shorts'
              /\ ~Whole(down') => Reads' + 1 <= answers'[resp'.menu].to + shorts'
  <2>1. client' = "role" /\ last = "LIST_USERS"
    BY <1>5, <1>10 DEF InRole
  <2>2. resp'.menu = TextRead(k)
    BY <1>0, <1>1, <1>6, <2>1
  <2>3. resp.menu = 0
    BY <1>2, <2>1 DEF LagInv
  <2>4. k # 1
    BY <1>6, <1>10, <2>1, <2>2, <2>3 DEF TextRead, TextAfter
  <2>5. /\ R <= answers[TextRead(k)].to + shorts
        /\ ~Whole(down') => shorts' = shorts + 1
    BY <1>8, <1>10, <2>2, <2>4
  <2>6. Reads' = R
    <3>1. One(client' = "wait") = 0
      BY <2>1 DEF One
    <3> QED BY <1>0, <1>2, <3>1 DEF Reads
  <2>7. answers[TextRead(k)].to \in Nat
    BY <1>0, <1>4, <1>10, <2>2
  <2> HIDE DEF R
  <2>8. /\ R <= answers[TextRead(k)].to + shorts'
        /\ ~Whole(down') => R + 1 <= answers[TextRead(k)].to + shorts'
    BY <1>0, <2>5, <2>7
  <2> QED BY <1>2, <2>2, <2>6, <2>8
<1>11. LagBounded'
  <2> SUFFICES ASSUME client' \in {"menu", "role"}, ~told'
               PROVE  /\ shorts' = 0 => shown' # 0
                      /\ shown' # 0 /\ (shorts' > 0 => requests'[Len(requests')] # "LOGIN") =>
                           Len(requests') - answers'[shown'].to <= shorts'
    BY DEF LagBounded
  <2>1. ASSUME TextRead(k) # 0, shorts' > 0 => last # "LOGIN"
        PROVE  R - answers[TextRead(k)].to <= shorts'
    <3>1. answers[TextRead(k)].to \in Nat
      BY <1>0, <1>4, <2>1
    <3>2. R <= answers[TextRead(k)].to + shorts'
      <4>1. CASE k # 1
        <5>1. R <= answers[TextRead(k)].to + shorts
          BY <1>8, <2>1, <4>1
        <5> HIDE DEF R
        <5> QED BY <1>0, <3>1, <5>1
      <4>2. CASE k = 1
        <5>1. shorts' > 0
          BY <1>0, <1>7, <4>2
        <5>2. last # "LOGIN" /\ ~told
          BY <1>2, <2>1, <5>1
        <5> QED BY <1>9, <2>1, <4>2, <5>2
      <4> QED BY <4>1, <4>2
    <3> HIDE DEF R
    <3> QED BY <1>0, <3>1, <3>2
  <2> QED BY <1>1, <1>2, <1>7, <2>1
<1>12. shorts' = 0 => Whole(down')
  BY <1>7
<1>13. client' # "wait"
  BY <1>5
<1> QED BY <1>10, <1>11, <1>12, <1>13 DEF LagInv

\* Every step keeps the lag.
LEMMA NextLag ==
  ASSUME TypeInv, UpInv, PaceInv, LagInv, [Next]_vars
  PROVE  LagInv'
<1>1. CASE ConnectionLost
  <2>1. /\ told' /\ down' = down /\ shorts' = shorts /\ client = "wait" /\ GoOn(-1, 0)
    BY <1>1 DEF ConnectionLost
  <2>2. 0 \in 0..Len(answers)
    BY Lengths
  <2>3. client' # "wait"
    BY <2>1, <2>2, GoOnTyped
  <2> QED BY <2>1, <2>3 DEF LagInv, LagBounded
<1> QED BY <1>1, QuietLag, SendsLag, ReceiveLag, ClientQuietSteps

\* However many requests are made, the answer shown is that to the request
\* just made while every read() got what was sent, and each read() that came
\* up short, on either side, puts the client behind by one request at most.
THEOREM AnswersAreInStep == Spec => []LagBounded
<1> DEFINE Inv == TypeInv /\ UpInv /\ PaceInv /\ LagInv
<1>1. Init => Inv
  <2>1. Init => LagInv
    BY DEF Init, LagInv, LagBounded, InRole, Whole
  <2> QED BY <2>1, InitTyped, InitUp, InitPace
<1>2. Inv /\ [Next]_vars => Inv'
  BY NextTyped, NextUp, NextPace, NextLag
<1>3. Inv => LagBounded
  BY DEF LagInv
<1> HIDE DEF Inv
<1> QED BY <1>1, <1>2, <1>3, SpecSteps, PTL

-----------------------------------------------------------------------------
(* Which choices reach no handler.                                         *)

\* Only two entries, both of the admin's menu.
TwoRefused == shorts = 0 => refused \subseteq {"MODIFY_USER", "ADD_EMPLOYEE"}

\* Every step refuses these only, while requests arrive whole.
LEMMA NextRefused ==
  ASSUME TypeInv, UpInv, AlignInv, TwoRefused, [Next]_vars
  PROVE  TwoRefused'
<1> USE DEF clientVars, serverVars
<1>0. shorts' = 0 => shorts = 0
  BY ShortsGrow
<1>1. CASE UNCHANGED vars
  BY <1>1 DEF vars, TwoRefused
<1>2. CASE RefuseEmployee
  BY <1>2 DEF RefuseEmployee, TwoRefused
<1>3. CASE Leave \/ ClientReads \/ Recv \/ RecvFails \/ SendResponse \/ Exit
  <2>1. refused' = refused
    BY <1>3 DEF Leave, ClientReads, Receive, ConnectionLost, Recv, RecvFails, SendResponse, Exit
  <2> QED BY <1>0, <2>1 DEF TwoRefused
<1>4. ASSUME NEW op \in DOMAIN Conversions, Sends(op) PROVE TwoRefused'
  BY <1>4 DEF Sends, TwoRefused
<1>5. CASE Route
  <2> SUFFICES ASSUME shorts' = 0 PROVE refused' \subseteq {"MODIFY_USER", "ADD_EMPLOYEE"}
    BY DEF TwoRefused
  <2>1. server = "route" /\ shorts = 0 /\ requests \in Seq(DOMAIN Conversions)
    BY <1>0, <1>5, RouteIs DEF TypeInv, TypeOK
  <2>2. buf[1].part = "head" /\ buf[2] = [of |-> buf[1].of, part |-> "text"]
    BY <2>1 DEF AlignInv
  <2> DEFINE op == requests[buf[1].of]
  <2>3. op \in DOMAIN Conversions
    <3>1. buf[1].of \in 1..Len(requests)
      BY <2>1, <2>2 DEF TypeInv, Flow
    <3> QED BY <2>1, <3>1, SeqAt
  <2>4. WordsIn(buf[2]) = {Words(op)}
    BY <2>2 DEF WordsIn
  <2> HIDE DEF op
  <2>5. refused' = refused \/ (~Parses(op, Words(op)) /\ refused' = refused \cup {op})
    BY <1>5, <2>2, <2>4, RouteIs DEF op
  <2>6. Parses(op, Words(op)) \/ op = "MODIFY_USER"
    BY <2>3, PayloadParses
  <2>7. refused \subseteq {"MODIFY_USER", "ADD_EMPLOYEE"}
    BY <2>1 DEF TwoRefused
  <2> QED BY <2>5, <2>6, <2>7
<1> QED BY <1>1, <1>2, <1>3, <1>4, <1>5, ClientSteps DEF Next, ServerStep

\* While every read() gets what was sent, the only menu entries that reach no
\* handler when given the input they ask for are MODIFY_USER, for whose route
\* a payload has one word too many, and ADD_EMPLOYEE, whose menu refuses the
\* roles it asks for: every other payload of the menus is what its route takes.
THEOREM OnlyTwoRefused == Spec => []TwoRefused
<1> DEFINE Inv == TypeInv /\ UpInv /\ AlignInv /\ TwoRefused
<1>1. Init => Inv
  <2>1. Init => AlignInv
    BY DEF Init, AlignInv, Whole
  <2>2. Init => TwoRefused
    BY DEF Init, TwoRefused
  <2> QED BY <2>1, <2>2, InitTyped, InitUp
<1>2. Inv /\ [Next]_vars => Inv'
  BY NextTyped, NextUp, NextAlign, NextRefused
<1> HIDE DEF Inv
<1>3. Inv => TwoRefused
  BY DEF Inv
<1> QED BY <1>1, <1>2, <1>3, SpecSteps, PTL
=============================================================================
