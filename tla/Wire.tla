-------------------------------- MODULE Wire --------------------------------
(***************************************************************************)
(* One connection: the menus and send_request_and_get_response() of the    *)
(* client (client.c), and recv_request(), the routes and send_response()   *)
(* of the thread that serves it (server.c).                                *)
(*                                                                         *)
(* Request and response are fixed-size structures, sent with one write()   *)
(* and read with one read() that may return less.  Each structure travels  *)
(* as three segments: its head (op or status_code), the text, and the      *)
(* padding behind the text.  A text is abstracted to its number of words,  *)
(* which is what the routes' sscanf() returns depend on.  Neither side     *)
(* clears its buffer of what an earlier read() left there, but for the     *)
(* menus.                                                                  *)
(***************************************************************************)
EXTENDS Integers, Sequences, FiniteSetsExt

CONSTANTS Roles,        \* the roles of the users who log in
          MaxRequests,  \* bound: requests the client sends
          MaxShorts     \* bound: read()s that get less than was sent

ASSUME RolesAssumption  == Roles \subseteq {"customer", "employee", "manager", "admin"}
ASSUME BoundsAssumption == MaxRequests \in Nat /\ MaxShorts \in Nat

VARIABLES
  requests,  \* op of each request sent
  answers,   \* each response: the request whose bytes it answers, and contents
  up, down,  \* segments on their way to the server and to the client
  client,    \* "prompt", "menu", "role" (in CHANGE_ROLE), "wait", or "gone"
  menu,      \* the role whose menu is shown, "none" at the login prompt
  resp,      \* the text in the response buffer of main() and of the menus
  shown,     \* the answer shown last, 0 if its text was not there
  told,      \* "Connection to server lost." has been shown
  server,    \* "recv", "route", "send", or "ended"; "killed" by SIGPIPE
  buf,       \* the request buffer of client_thread_main()
  reset,     \* the side that is left has written to a closed connection
  shorts,    \* read()s so far that got less than was sent
  runs,      \* history: the handler calls
  refused    \* history: choices with proper input that reached no handler

clientVars == <<client, menu, resp, shown, told>>
serverVars == <<server, buf, runs>>
vars == <<requests, answers, up, down, clientVars, serverVars, reset, shorts, refused>>

-----------------------------------------------------------------------------
(* What the menus send, and what the routes take.                          *)

CustomerMenu == {"VIEW_BALANCE", "DEPOSIT", "WITHDRAW", "TRANSFER", "APPLY_LOAN",
                 "VIEW_LOAN", "ADD_FEEDBACK", "VIEW_FEEDBACK", "VIEW_TRANSACTIONS",
                 "VIEW_DETAILS", "CHANGE_PASSWORD", "LOGOUT"}

EmployeeMenu == {"ADD_CUSTOMER", "MODIFY_CUSTOMER", "PROCESS_LOANS",
                 "APPROVE_REJECT_LOAN", "VIEW_ASSIGNED_LOANS",
                 "VIEW_CUST_TRANSACTIONS", "CHANGE_PASSWORD", "LOGOUT"}

ManagerMenu == {"SET_ACCOUNT_STATUS", "VIEW_NON_ASSIGNED_LOANS", "ASSIGN_LOAN",
                "REVIEW_FEEDBACK", "CHANGE_PASSWORD", "LOGOUT"}

\* LIST_USERS is the first half of "Manage User Roles".
AdminMenu == {"ADD_EMPLOYEE", "MODIFY_USER", "LIST_USERS", "CHANGE_PASSWORD", "LOGOUT"}

\* The dispatch of main().
MenuOf == [customer |-> CustomerMenu, employee |-> EmployeeMenu,
           manager |-> ManagerMenu, admin |-> AdminMenu]

\* Words in the payload the client sends.
Words(op) ==
  CASE op = "ADD_EMPLOYEE" -> 9
    [] op = "ADD_CUSTOMER" -> 8
    [] op \in {"MODIFY_CUSTOMER", "MODIFY_USER"} -> 7
    [] op \in {"TRANSFER", "APPROVE_REJECT_LOAN"} -> 3
    [] op \in {"LOGIN", "DEPOSIT", "WITHDRAW", "APPLY_LOAN", "ADD_FEEDBACK",
               "CHANGE_PASSWORD", "SET_ACCOUNT_STATUS", "ASSIGN_LOAN",
               "CHANGE_ROLE"} -> 2
    [] op \in {"LOGOUT", "PROCESS_LOANS", "VIEW_NON_ASSIGNED_LOANS",
               "REVIEW_FEEDBACK", "LIST_USERS"} -> 0
    [] OTHER -> 1

\* Conversions in the sscanf() of the route.
Conversions ==
  [LOGIN |-> 2, LOGOUT |-> 0, CHANGE_PASSWORD |-> 2,
   VIEW_BALANCE |-> 1, DEPOSIT |-> 2, WITHDRAW |-> 2, TRANSFER |-> 3,
   APPLY_LOAN |-> 2, VIEW_LOAN |-> 1, ADD_FEEDBACK |-> 1, VIEW_FEEDBACK |-> 1,
   VIEW_TRANSACTIONS |-> 1, VIEW_DETAILS |-> 1,
   ADD_CUSTOMER |-> 8, MODIFY_CUSTOMER |-> 7, PROCESS_LOANS |-> 0,
   APPROVE_REJECT_LOAN |-> 3, VIEW_ASSIGNED_LOANS |-> 1,
   VIEW_CUST_TRANSACTIONS |-> 1,
   SET_ACCOUNT_STATUS |-> 2, VIEW_NON_ASSIGNED_LOANS |-> 0, ASSIGN_LOAN |-> 2,
   REVIEW_FEEDBACK |-> 0,
   ADD_EMPLOYEE |-> 9, MODIFY_USER |-> 7, LIST_USERS |-> 0, CHANGE_ROLE |-> 2]

\* Mutant: a field was added to the format only.
WantedSixAlways == [TRANSFER |-> 3, ADD_FEEDBACK |-> 1, ADD_CUSTOMER |-> 8,
                    MODIFY_CUSTOMER |-> 6, ADD_EMPLOYEE |-> 9, MODIFY_USER |-> 6]

\* The result of sscanf() that the route insists on, where it looks at it.
Wanted == [TRANSFER |-> 3, ADD_FEEDBACK |-> 1, ADD_CUSTOMER |-> 8,
           MODIFY_CUSTOMER |-> 7, ADD_EMPLOYEE |-> 9, MODIFY_USER |-> 6]

Parses(op, words) ==
  op \in DOMAIN Wanted => Min({words, Conversions[op]}) = Wanted[op]

-----------------------------------------------------------------------------
(* Segments.                                                               *)

Segments(n) == <<[of |-> n, part |-> "head"], [of |-> n, part |-> "text"],
                 [of |-> n, part |-> "padding"]>>
NoSegment == [of |-> 0, part |-> "none"]

\* What read() returns: the first k segments, fewer than asked for and sent
\* if the rest has not arrived yet.
ReadsOf(stream) == {k \in 1..Min({3, Len(stream)}) :
                      k < Min({3, Len(stream)}) => shorts < MaxShorts}
Shortened(stream, k) == shorts' = IF k < Min({3, Len(stream)}) THEN shorts + 1 ELSE shorts
Rest(stream, k) == SubSeq(stream, k + 1, Len(stream))

Init ==
  /\ requests = << >> /\ answers = << >>
  /\ up = << >> /\ down = << >>
  /\ client = "prompt" /\ menu = "none"
  /\ resp = [main |-> 0, menu |-> 0]
  /\ shown = 0 /\ told = FALSE
  /\ server = "recv"
  /\ buf = <<NoSegment, NoSegment, NoSegment>>
  /\ reset = FALSE
  /\ shorts = 0
  /\ runs = << >> /\ refused = {}

ServerThere == server \notin {"ended", "killed"}

-----------------------------------------------------------------------------
(* The client.                                                             *)

\* write() of send_request_and_get_response().  The first one to a server
\* that is gone does no harm; after that, SIGPIPE ends the client.
Send(op) ==
  \/ /\ ServerThere
     /\ Len(requests) < MaxRequests
     /\ requests' = Append(requests, op)
     /\ up' = up \o Segments(Len(requests) + 1)
     /\ client' = "wait"
     /\ UNCHANGED reset
  \/ /\ ~ServerThere /\ ~reset
     /\ Len(requests) < MaxRequests
     /\ requests' = Append(requests, op)
     /\ reset' = TRUE
     /\ client' = "wait"
     /\ UNCHANGED up
  \/ /\ ~ServerThere /\ reset
     /\ client' = "gone"
     /\ UNCHANGED <<requests, up, reset>>

\* The login prompt of main(), which does not clear its buffer.
Login ==
  /\ client = "prompt"
  /\ Send("LOGIN")
  /\ UNCHANGED <<answers, down, menu, resp, shown, told, serverVars, shorts, refused>>

\* A menu entry.  The menu of an admin goes on with a new employee only if
\* the role typed is "customer".
Choose(op) ==
  /\ client = "menu" /\ op \in MenuOf[menu]
  /\ Send(op)
  /\ resp' = [resp EXCEPT !.menu = 0]
  /\ UNCHANGED <<answers, down, menu, shown, told, serverVars, shorts, refused>>

\* The same entry with one of the roles the prompt asks for.
RefuseEmployee ==
  /\ client = "menu" /\ menu = "admin"
  /\ refused' = refused \cup {"ADD_EMPLOYEE"}
  /\ UNCHANGED <<requests, answers, up, down, clientVars, serverVars, reset, shorts>>

\* The second half of "Manage User Roles": only the request is cleared.
SendChangeRole ==
  /\ client = "role"
  /\ Send("CHANGE_ROLE")
  /\ UNCHANGED <<answers, down, menu, resp, shown, told, serverVars, shorts, refused>>

\* The client goes on after an answer with status code st and text a, an
\* element of answers or 0.
GoOn(st, a) ==
  LET op == requests[Len(requests)]
  IN  \/ /\ op = "LOGIN" /\ a # 0 /\ answers[a].role # "none"
         /\ client' = "menu" /\ menu' = answers[a].role
      \/ /\ op = "LOGIN"   \* no success, or not the role chosen
         /\ client' = "prompt" /\ menu' = "none"
      \/ /\ op = "LOGOUT" \/ (st = -1 /\ op \notin {"LOGIN", "LIST_USERS"})
         /\ client' = "prompt" /\ menu' = "none"
      \/ /\ op = "LIST_USERS"
         /\ client' = IF st = 0 THEN "role" ELSE "menu"
         /\ UNCHANGED menu
      \/ /\ st # -1 /\ op \notin {"LOGIN", "LOGOUT", "LIST_USERS"}
         /\ client' = "menu"
         /\ UNCHANGED menu

\* status_code, when a segment other than the head was read into it.
StatusIn(segment) ==
  CASE segment.part = "head" -> answers[segment.of].status
    [] segment.part = "text" -> 1
    [] OTHER -> 0

\* The text in the buffer after k segments were read.  What is left of an
\* earlier response is longer than status_code, and lands on the text too.
TextAfter(old, k) ==
  IF k = 1 THEN IF down[1].part = "head" THEN old ELSE 0
           ELSE IF down[2].part = "text" THEN down[2].of ELSE 0

\* Mutant: the list of users is asked for and not read.
ReadResponseSkips(k) ==
  LET mine == IF menu = "none" THEN "main" ELSE "menu"
      text == TextAfter(resp[mine], k)
  IN  /\ Shortened(down, k)
      /\ down' = IF requests[Len(requests)] = "LIST_USERS" THEN down ELSE Rest(down, k)
      /\ resp' = [resp EXCEPT ![mine] = text]
      /\ shown' = text
      /\ GoOn(StatusIn(down[1]), text)

\* read() returned k segments.
ReadResponse(k) ==
  LET mine == IF menu = "none" THEN "main" ELSE "menu"
      text == TextAfter(resp[mine], k)
  IN  /\ Shortened(down, k)
      /\ down' = Rest(down, k)
      /\ resp' = [resp EXCEPT ![mine] = text]
      /\ shown' = text
      /\ GoOn(StatusIn(down[1]), text)

Receive ==
  /\ client = "wait"
  /\ \E k \in ReadsOf(down) : ReadResponse(k)
  /\ UNCHANGED <<requests, answers, up, told, serverVars, reset, refused>>

\* read() fails, as nothing more will come.
ConnectionLost ==
  /\ client = "wait" /\ down = << >> /\ ~ServerThere
  /\ told' = TRUE
  /\ resp' = [resp EXCEPT ![IF menu = "none" THEN "main" ELSE "menu"] = 0]
  /\ shown' = 0
  /\ GoOn(-1, 0)
  /\ UNCHANGED <<requests, answers, up, down, serverVars, reset, shorts, refused>>

\* "Exit Client", or Ctrl+C anywhere.
Leave ==
  /\ client # "gone"
  /\ client' = "gone"
  /\ down' = << >>
  /\ UNCHANGED <<requests, answers, up, menu, resp, shown, told, serverVars, reset,
                 shorts, refused>>

-----------------------------------------------------------------------------
(* The server.                                                             *)

\* recv_request().  What is left of an earlier request is longer than op, and
\* lands on the payload too.
Recv ==
  /\ server = "recv"
  /\ \E k \in ReadsOf(up) :
       /\ Shortened(up, k)
       /\ up' = Rest(up, k)
       /\ buf' = [i \in 1..3 |-> IF i <= k THEN up[i]
                                 ELSE IF up[1].part = "head" THEN buf[i] ELSE NoSegment]
  /\ server' = "route"
  /\ UNCHANGED <<requests, answers, down, clientVars, reset, runs, refused>>

\* Mutant: `>= 0` for `> 0`, so that the end of the stream is a request.
RecvFailsRuns ==
  /\ server = "recv" /\ client = "gone" /\ up = << >> /\ requests # << >>
  /\ server' = "route"
  /\ UNCHANGED <<requests, answers, up, down, clientVars, buf, runs, reset, shorts,
                 refused>>

\* recv_request() returns 0 or -1: the thread ends.
RecvFails ==
  /\ server = "recv" /\ client = "gone" /\ up = << >>
  /\ server' = "ended"
  /\ UNCHANGED <<requests, answers, up, down, clientVars, buf, runs, reset, shorts,
                 refused>>

\* Words sscanf() finds in a segment; anything may be in memory not written.
WordsIn(segment) ==
  CASE segment.part = "text" -> {Words(requests[segment.of])}
    [] segment.part = "head" -> {1}
    [] segment.part = "padding" -> {0}
    [] OTHER -> 0..9

\* Mutant: -1 for an error, which the client takes for a lost connection.
ResponseMinusOne(n, status, role) ==
  Append(answers, [to |-> n, status |-> -status, role |-> role])

Response(n, status, role) == Append(answers, [to |-> n, status |-> status, role |-> role])

\* The routes: the handler is called, or "Invalid payload format.", or
\* "Unknown command".  Only LOGIN may be answered SUCCESS and a role.
Route ==
  LET n  == buf[1].of
      op == requests[n]
  IN  /\ server = "route"
      /\ server' = "send"
      /\ \/ /\ buf[1].part = "head"
            /\ \E words \in WordsIn(buf[2]) :
                 \/ /\ Parses(op, words)
                    /\ runs' = Append(runs, [of |-> n, text |-> buf[2],
                                             complete |-> words >= Conversions[op]])
                    /\ \E role \in IF op = "LOGIN" THEN Roles \cup {"none"} ELSE {"none"} :
                         answers' = Response(n, 0, role)
                    /\ UNCHANGED refused
                 \/ /\ ~Parses(op, words)
                    /\ answers' = Response(n, 1, "none")
                    /\ refused' = refused \cup {op}
                    /\ UNCHANGED runs
         \/ /\ buf[1].part # "head"
            /\ answers' = Response(n, 0, "none")
            /\ UNCHANGED <<runs, refused>>
      /\ UNCHANGED <<requests, up, down, clientVars, buf, reset, shorts>>

\* Mutant: what was not understood is not answered.
SendResponseIfRun ==
  /\ server = "send"
  /\ server' = "recv"
  /\ down' = IF answers[Len(answers)].status = 0 THEN down \o Segments(Len(answers))
                                                 ELSE down
  /\ UNCHANGED <<requests, answers, up, clientVars, buf, runs, reset, shorts, refused>>

\* Mutant: status_code and message are written one after the other.
SendResponseInTwo ==
  /\ server = "send"
  /\ \/ /\ client # "gone"
        /\ down' = down \o Segments(Len(answers))
        /\ server' = "recv"
        /\ UNCHANGED reset
     \/ /\ client = "gone"
        /\ server' = "killed"
        /\ reset' = TRUE
        /\ UNCHANGED down
  /\ UNCHANGED <<requests, answers, up, clientVars, buf, runs, shorts, refused>>

\* send_response().  The first write() to a client that is gone does no
\* harm; after that, SIGPIPE ends the whole server.
SendResponse ==
  /\ server = "send"
  /\ \/ /\ client # "gone"
        /\ down' = down \o Segments(Len(answers))
        /\ server' = "recv"
        /\ UNCHANGED reset
     \/ /\ client = "gone"
        /\ server' = IF reset THEN "killed" ELSE "recv"
        /\ reset' = TRUE
        /\ UNCHANGED down
  /\ UNCHANGED <<requests, answers, up, clientVars, buf, runs, shorts, refused>>

\* The server exits.  What it has sent may arrive, or be lost with a reset.
Exit ==
  /\ ServerThere
  /\ server' = "ended"
  /\ up' = << >>
  /\ down' \in {down, IF up = << >> THEN down ELSE << >>}
  /\ UNCHANGED <<requests, answers, clientVars, buf, runs, reset, shorts, refused>>

-----------------------------------------------------------------------------
ClientStep ==
  \/ Login \/ RefuseEmployee \/ SendChangeRole \/ Leave
  \/ \E op \in UNION {MenuOf[r] : r \in Roles} : Choose(op)
ClientReads == Receive \/ ConnectionLost
ServerStep  == Recv \/ RecvFails \/ Route \/ SendResponse

Next == ClientStep \/ ClientReads \/ ServerStep \/ Exit

\* The kernel delivers what was sent and schedules both sides; nobody has to
\* type anything, and nothing has to fail.
Spec == Init /\ [][Next]_vars /\ WF_vars(ClientReads) /\ WF_vars(ServerStep)

-----------------------------------------------------------------------------
(* Properties.                                                             *)

Segment == [of : Nat, part : {"head", "text", "padding", "none"}]

TypeOK ==
  /\ requests \in Seq(DOMAIN Conversions) /\ Len(requests) <= MaxRequests
  /\ answers \in Seq([to : Nat, status : {0, 1}, role : Roles \cup {"none"}])
  /\ up \in Seq(Segment) /\ down \in Seq(Segment)
  /\ client \in {"prompt", "menu", "role", "wait", "gone"}
  /\ menu \in Roles \cup {"none"}
  /\ resp \in [main : 0..Len(answers), menu : 0..Len(answers)]
  /\ shown \in 0..Len(answers) /\ told \in BOOLEAN
  /\ server \in {"recv", "route", "send", "ended", "killed"}
  /\ buf \in [1..3 -> Segment]
  /\ reset \in BOOLEAN
  /\ shorts \in 0..MaxShorts
  /\ runs \in Seq([of : Nat, text : Segment, complete : BOOLEAN])
  /\ refused \subseteq DOMAIN Conversions

\* However the bytes are split, no request is carried out twice: not when the
\* rest of it is read, and not when the connection ends.
AtMostOnce == \A i, j \in DOMAIN runs : runs[i].of = runs[j].of => i = j

\* While every read() gets what was sent, a request that is answered has been
\* carried out with its own payload, all of it; MODIFY_USER alone has not.
AnsweredIsRun ==
  shorts = 0 =>
    \A k \in DOMAIN answers :
      \/ requests[answers[k].to] = "MODIFY_USER"
      \/ \E i \in DOMAIN runs : /\ runs[i].of = answers[k].to
                                /\ runs[i].text = [of |-> answers[k].to, part |-> "text"]
                                /\ runs[i].complete

\* While every read() gets what was sent, the answer shown is that to the
\* request just made.  Each read() that came up short delays the answers by
\* one request at most, for good; only the buffer of the login prompt, which
\* is not cleared, may show an older one.
LagBounded ==
  client \in {"menu", "role"} /\ ~told =>
    /\ shorts = 0 => shown # 0
    /\ shown # 0 /\ (shorts > 0 => requests[Len(requests)] # "LOGIN") =>
         Len(requests) - answers[shown].to <= shorts

\* A client that vanishes does not take the server with it, unless parts of
\* its request had not been read.
ServerSurvives == server = "killed" => shorts > 0

\* A client that waits is answered, or told that the connection is lost,
\* however the bytes are split and wherever the server exits.
EveryWaitEnds == client = "wait" ~> client # "wait"

\* Every menu entry, given the input it asks for, reaches its handler.
ChoiceReachesHandler == shorts = 0 => refused = {}
=============================================================================
