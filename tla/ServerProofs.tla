---------------------------- MODULE ServerProofs ----------------------------
(***************************************************************************)
(* Proofs about Server, for any testers, addresses and numbers of frames.  *)
(***************************************************************************)
EXTENDS Server, TLAPS

(* Where the accept loop is says whether a connection is being handled,    *)
(* and with it that the handler is given a message.                        *)
Located ==
    /\ serving = None <=> at \in {"Accept", "Backoff"}
    /\ at = "Handle" => request \in Messages

(* The address a is what the answers of l before the i-th make it.         *)
Grants(l, i) == {j \in 1..(i - 1) : l[j].is = "Granted"}
Named(a, l, i) ==
    IF Grants(l, i) = {} THEN a = 0
    ELSE \E j \in Grants(l, i) : /\ \A k \in Grants(l, i) : k <= j
                                 /\ a = l[j].source

(* The address of the connection is that of the latest grant at any time,  *)
(* not only when an alive check asks.                                      *)
Remembered == Named(tester_logical_address, log, Len(log) + 1)

(* An alive check is told exactly that address, denials or not.            *)
AliveKept ==
    \A i \in 1..Len(log) : log[i].is = "Alive" => Named(log[i].address, log, i)

Placed == TypeOK /\ Located /\ ConnectionsCounted
IInv == Placed /\ Remembered /\ AliveKept

----------------------------------------------------------------------------
(* The accept loop and the count.                                          *)

(* The server starts at accept, with no connection.                        *)
LEMMA PlacedInit == Init => Placed
  BY ServerAssumption DEF Init, Placed, TypeOK, Located, ConnectionsCounted

(* handle_client_connection returns on one of its ways out: the guard      *)
(* takes back the one connection that was counted.                         *)
LEMMA PlacedReturn ==
    ASSUME Placed, at \in {"Read", "Handle", "Write"}, Hangup, Returns
    PROVE  Placed'
<1> USE ServerAssumption DEF Placed, TypeOK
<1>1. serving \in Testers /\ active_connections = 1
  BY DEF Located, ConnectionsCounted
<1>2. /\ link' \in [Testers -> {"New", "Up", "Closed"}]
      /\ inbox' \in [Testers -> Seq(Messages)]
      /\ UNCHANGED <<backlog, sent>>
  BY <1>1 DEF Hangup
<1>3. TypeOK'
  BY <1>1, <1>2 DEF Returns
<1>4. Located' /\ ConnectionsCounted'
  BY <1>1 DEF Returns, Located, ConnectionsCounted
<1> QED BY <1>3, <1>4

(* Testers change nothing the server keeps.                                *)
LEMMA PlacedTester ==
    ASSUME Placed, NEW t \in Testers,
           \/ TesterConnects(t) \/ TesterCloses(t)
           \/ \E message \in Messages : TesterSends(t, message)
    PROVE  Placed'
<1> USE ServerAssumption DEF Placed, TypeOK
<1>1. CASE TesterConnects(t)
  <2>1. TypeOK'
    BY <1>1 DEF TesterConnects, connectionVars
  <2> QED BY <2>1, <1>1 DEF TesterConnects, connectionVars, Located, ConnectionsCounted
<1>2. CASE TesterCloses(t)
  <2>1. TypeOK'
    BY <1>2 DEF TesterCloses, connectionVars
  <2> QED BY <2>1, <1>2 DEF TesterCloses, connectionVars, Located, ConnectionsCounted
<1>3. CASE \E message \in Messages : TesterSends(t, message)
  <2>1. PICK message \in Messages : TesterSends(t, message)
    BY <1>3
  <2>2. inbox' \in [Testers -> Seq(Messages)] /\ sent' \in 0..MaxFrames
    BY <2>1 DEF TesterSends
  <2>3. TypeOK'
    BY <2>1, <2>2 DEF TesterSends, connectionVars
  <2> QED BY <2>1, <2>3 DEF TesterSends, connectionVars, Located, ConnectionsCounted
<1> QED BY <1>1, <1>2, <1>3

(* An answer of the handler is logged and leaves the connection as it is.  *)
LEMMA PlacedAnswer ==
    ASSUME Placed, at = "Handle", NEW answer \in Answers, Answered(answer),
           tester_logical_address' \in Sources \cup {0}
    PROVE  Placed'
<1> USE ServerAssumption DEF Placed
<1>1. log' \in Seq(Answers)
  BY DEF Answered, TypeOK
<1>2. TypeOK'
  BY <1>1 DEF Answered, TypeOK, testerVars
<1> QED BY <1>2 DEF Answered, Located, ConnectionsCounted

(* The messages an answer is made from.                                    *)
LEMMA RequestTyped ==
    ASSUME Placed, at = "Handle", request.kind = "Activation"
    PROVE  request.source \in Sources
  BY DEF Placed, Located, Messages

(* Every step keeps the loop, the connection and the count together.       *)
LEMMA PlacedStep == Placed /\ [Next]_vars => Placed'
<1> SUFFICES ASSUME Placed, [Next]_vars PROVE Placed'
    OBVIOUS
<1> USE ServerAssumption
<1>1. CASE \E t \in Testers : TesterConnects(t) \/ TesterCloses(t)
  BY <1>1, PlacedTester
<1>2. CASE \E t \in Testers, message \in Messages : TesterSends(t, message)
  BY <1>2, PlacedTester
<1>3. CASE AcceptFails \/ BackoffOver \/ ResponseWritten
  BY <1>3 DEF AcceptFails, BackoffOver, ResponseWritten, Placed, TypeOK,
     Located, ConnectionsCounted, testerVars, connectionVars
<1>4. CASE DiagnosticWrites \/ DiagnosticDone
  BY <1>4 DEF DiagnosticWrites, DiagnosticDone, Placed, TypeOK, Located,
     ConnectionsCounted, testerVars
<1>5. CASE Accept
  <2>1. Head(backlog) \in Testers /\ Tail(backlog) \in Seq(Testers)
    BY <1>5 DEF Accept, Placed, TypeOK
  <2>2. serving = None /\ active_connections = 0
    BY <1>5 DEF Accept, Placed, Located, ConnectionsCounted
  <2>3. TypeOK'
    BY <1>5, <2>1, <2>2 DEF Accept, Placed, TypeOK
  <2> QED BY <1>5, <2>1, <2>2, <2>3 DEF Accept, Placed, Located, ConnectionsCounted
<1>6. CASE ReadMessage \/ ReadIgnored
  <2>1. serving \in Testers /\ at = "Read"
    BY <1>6 DEF ReadMessage, ReadIgnored, Placed, TypeOK, Located
  <2>2. inbox[serving] \in Seq(Messages) /\ inbox[serving] # <<>>
    BY <1>6, <2>1 DEF ReadMessage, ReadIgnored, Placed, TypeOK
  <2>3. Head(inbox[serving]) \in Messages /\ Tail(inbox[serving]) \in Seq(Messages)
    BY <2>2
  <2>4. inbox' = [inbox EXCEPT ![serving] = Tail(inbox[serving])]
    BY <1>6 DEF ReadMessage, ReadIgnored
  <2>5. inbox' \in [Testers -> Seq(Messages)]
    BY <2>3, <2>4, Zenon DEF Placed, TypeOK
  <2>6. CASE ReadMessage
    BY <2>6, <2>1, <2>3, <2>5 DEF ReadMessage, Placed, TypeOK, Located, ConnectionsCounted
  <2>7. CASE ReadIgnored
    BY <2>7, <2>1, <2>5 DEF ReadIgnored, Placed, TypeOK, Located, ConnectionsCounted, connectionVars
  <2> QED BY <1>6, <2>6, <2>7
<1>7. CASE ReadRefused \/ StreamEnds \/ HandlerFails \/ WriteFails
  BY <1>7, PlacedReturn DEF ReadRefused, StreamEnds, HandlerFails, WriteFails
<1>8. CASE AliveAnswered
  <2> DEFINE answer == [is |-> "Alive", address |-> tester_logical_address]
  <2>1. answer \in Answers
    BY DEF Answers, Placed, TypeOK
  <2> QED BY <1>8, <2>1, PlacedAnswer DEF AliveAnswered, Placed, TypeOK
<1>9. CASE ActivationGranted
  <2> DEFINE answer == [is |-> "Granted", source |-> request.source]
  <2>1. answer \in Answers /\ request.source \in Sources
    BY <1>9, RequestTyped DEF Answers, ActivationGranted
  <2> QED BY <1>9, <2>1, PlacedAnswer DEF ActivationGranted
<1>10. CASE ActivationDenied
  <2> DEFINE answer == [is |-> "Denied", source |-> request.source]
  <2>1. answer \in Answers
    BY <1>10, RequestTyped DEF Answers, ActivationDenied
  <2> QED BY <1>10, <2>1, PlacedAnswer DEF ActivationDenied, Placed, TypeOK
<1>11. CASE UNCHANGED vars
  BY <1>11 DEF vars, testerVars, connectionVars, Placed, TypeOK, Located,
     ConnectionsCounted
<1> QED BY <1>1, <1>2, <1>3, <1>4, <1>5, <1>6, <1>7, <1>8, <1>9, <1>10, <1>11
        DEF Next, ServerStep

(* Placed holds in every state the server reaches.                         *)
LEMMA PlacedInvariant == Spec => []Placed
  BY PlacedInit, PlacedStep, PTL DEF Spec

----------------------------------------------------------------------------
(* The address of the tester.                                              *)

(* A new answer changes nothing about the ones before it.                  *)
LEMMA LogGrows ==
    ASSUME NEW l \in Seq(Answers), NEW answer \in Answers
    PROVE  LET m == Append(l, answer)
           IN  /\ Len(m) = Len(l) + 1 /\ Len(l) \in Nat /\ m[Len(l) + 1] = answer
               /\ \A i \in 1..Len(l) : m[i] = l[i]
               /\ \A i \in 1..(Len(l) + 1) :
                      /\ Grants(m, i) = Grants(l, i)
                      /\ \A a : Named(a, l, i) => Named(a, m, i)
<1> DEFINE m == Append(l, answer)
<1>1. /\ Len(m) = Len(l) + 1 /\ Len(l) \in Nat /\ m[Len(l) + 1] = answer
      /\ \A i \in 1..Len(l) : m[i] = l[i]
  OBVIOUS
<1> HIDE DEF m
<1>2. ASSUME NEW i \in 1..(Len(l) + 1)
      PROVE  Grants(m, i) = Grants(l, i)
  <2>1. \A j \in 1..(i - 1) : m[j] = l[j]
    BY <1>1
  <2> QED BY <2>1 DEF Grants
<1>3. ASSUME NEW a, NEW i \in 1..(Len(l) + 1), Named(a, l, i)
      PROVE  Named(a, m, i)
  <2>1. \A j \in Grants(l, i) : m[j] = l[j]
    BY <1>1 DEF Grants
  <2> QED BY <1>2, <1>3, <2>1 DEF Named
<1> QED BY <1>1, <1>2, <1>3 DEF m

(* The alive checks logged so far stay right when the log grows, and the   *)
(* new one is right if it gives the address of the connection.             *)
LEMMA AliveStaysNamed ==
    ASSUME NEW l \in Seq(Answers), NEW address, Named(address, l, Len(l) + 1),
           \A i \in 1..Len(l) : l[i].is = "Alive" => Named(l[i].address, l, i),
           NEW answer \in Answers,
           answer.is = "Alive" => answer.address = address
    PROVE  LET m == Append(l, answer)
           IN  \A i \in 1..Len(m) : m[i].is = "Alive" => Named(m[i].address, m, i)
<1> DEFINE m == Append(l, answer)
<1>1. /\ Len(m) = Len(l) + 1 /\ Len(l) \in Nat /\ m[Len(l) + 1] = answer
      /\ \A i \in 1..Len(l) : m[i] = l[i]
      /\ \A i \in 1..(Len(l) + 1) : \A a : Named(a, l, i) => Named(a, m, i)
  BY LogGrows
<1> HIDE DEF m
<1>2. SUFFICES ASSUME NEW i \in 1..Len(m), m[i].is = "Alive"
               PROVE  Named(m[i].address, m, i)
  BY DEF m
<1>3. CASE i \in 1..Len(l)
  BY <1>1, <1>2, <1>3
<1>4. CASE i = Len(l) + 1
  BY <1>1, <1>2, <1>4
<1> QED BY <1>1, <1>2, <1>3, <1>4

(* A grant becomes the latest one.                                         *)
LEMMA GrantIsLatest ==
    ASSUME NEW l \in Seq(Answers), NEW source \in Sources
    PROVE  LET m == Append(l, [is |-> "Granted", source |-> source])
           IN  Named(source, m, Len(m) + 1)
<1> DEFINE answer == [is |-> "Granted", source |-> source]
           m == Append(l, answer)
<1>1. answer \in Answers
  BY DEF Answers
<1>2. /\ Len(m) = Len(l) + 1 /\ Len(l) \in Nat /\ m[Len(l) + 1] = answer
  BY <1>1
<1> HIDE DEF m
<1>3. /\ Len(m) \in Grants(m, Len(m) + 1)
      /\ \A k \in Grants(m, Len(m) + 1) : k <= Len(m)
  BY <1>2 DEF Grants
<1>4. m[Len(m)].source = source
  BY <1>2
<1>5. Named(source, m, Len(m) + 1)
  BY <1>3, <1>4 DEF Named
<1> QED BY <1>5 DEF m

(* Any other answer leaves the latest grant what it is.                    *)
LEMMA OthersAreNoGrant ==
    ASSUME NEW l \in Seq(Answers), NEW address, Named(address, l, Len(l) + 1),
           NEW answer \in Answers, answer.is # "Granted"
    PROVE  LET m == Append(l, answer) IN Named(address, m, Len(m) + 1)
<1> DEFINE m == Append(l, answer)
<1>1. /\ Len(m) = Len(l) + 1 /\ Len(l) \in Nat /\ m[Len(l) + 1] = answer
      /\ \A i \in 1..Len(l) : m[i] = l[i]
  BY LogGrows
<1> HIDE DEF m
<1>2. Grants(m, Len(m) + 1) = Grants(l, Len(l) + 1)
  BY <1>1 DEF Grants
<1>3. \A j \in Grants(l, Len(l) + 1) : m[j] = l[j]
  BY <1>1 DEF Grants
<1>4. Named(address, m, Len(m) + 1)
  BY <1>2, <1>3 DEF Named
<1> QED BY <1>4 DEF m

(* No connection, no answers.                                              *)
LEMMA AddressInit == Init => Remembered /\ AliveKept
  BY DEF Init, Remembered, AliveKept, Named, Grants

(* The address follows the latest grant of the connection: only the steps  *)
(* that log an answer, and the one that begins a connection, touch either. *)
LEMMA AddressStep == IInv /\ [Next]_vars => Remembered' /\ AliveKept'
<1> SUFFICES ASSUME IInv, [Next]_vars PROVE Remembered' /\ AliveKept'
    OBVIOUS
<1>1. ASSUME UNCHANGED <<log, tester_logical_address>>
      PROVE  Remembered' /\ AliveKept'
  BY <1>1 DEF IInv, Remembered, AliveKept
<1>2. CASE Accept
  BY <1>2 DEF Accept, Remembered, AliveKept, Named, Grants
<1>3. log \in Seq(Answers) /\ Named(tester_logical_address, log, Len(log) + 1)
  BY DEF IInv, Placed, TypeOK, Remembered
<1>4. \A i \in 1..Len(log) : log[i].is = "Alive" => Named(log[i].address, log, i)
  BY DEF IInv, AliveKept
<1>5. ASSUME NEW answer \in Answers, log' = Append(log, answer),
             answer.is = "Alive" => answer.address = tester_logical_address
      PROVE  AliveKept'
  <2>1. \A i \in 1..Len(log') : log'[i].is = "Alive" => Named(log'[i].address, log', i)
    BY <1>3, <1>4, <1>5, AliveStaysNamed
  <2> QED BY <2>1 DEF AliveKept, Named, Grants
<1>6. CASE AliveAnswered
  <2> DEFINE answer == [is |-> "Alive", address |-> tester_logical_address]
  <2>1. answer \in Answers /\ answer.is # "Granted"
    BY DEF Answers, IInv, Placed, TypeOK
  <2>2. log' = Append(log, answer) /\ tester_logical_address' = tester_logical_address
    BY <1>6 DEF AliveAnswered, Answered
  <2>3. AliveKept'
    BY <2>1, <2>2, <1>5
  <2>4. Remembered'
    BY <2>1, <2>2, <1>3, OthersAreNoGrant DEF Remembered
  <2> QED BY <2>3, <2>4
<1>7. CASE ActivationGranted
  <2> DEFINE answer == [is |-> "Granted", source |-> request.source]
  <2>1. answer \in Answers /\ request.source \in Sources
    BY <1>7, RequestTyped DEF Answers, ActivationGranted, IInv
  <2>2. log' = Append(log, answer) /\ tester_logical_address' = request.source
    BY <1>7 DEF ActivationGranted, Answered
  <2>3. AliveKept'
    BY <2>1, <2>2, <1>5
  <2>4. Remembered'
    BY <2>1, <2>2, <1>3, GrantIsLatest DEF Remembered
  <2> QED BY <2>3, <2>4
<1>8. CASE ActivationDenied
  <2> DEFINE answer == [is |-> "Denied", source |-> request.source]
  <2>1. answer \in Answers /\ answer.is # "Granted"
    BY <1>8, RequestTyped DEF Answers, ActivationDenied, IInv
  <2>2. log' = Append(log, answer) /\ tester_logical_address' = tester_logical_address
    BY <1>8 DEF ActivationDenied, Answered
  <2>3. AliveKept'
    BY <2>1, <2>2, <1>5
  <2>4. Remembered'
    BY <2>1, <2>2, <1>3, OthersAreNoGrant DEF Remembered
  <2> QED BY <2>3, <2>4
<1>9. CASE \/ \E t \in Testers : TesterConnects(t) \/ TesterCloses(t)
           \/ \E t \in Testers, message \in Messages : TesterSends(t, message)
  BY <1>1, <1>9 DEF TesterConnects, TesterCloses, TesterSends, connectionVars
<1>10. CASE \/ AcceptFails \/ BackoffOver \/ ReadMessage \/ ReadIgnored
            \/ DiagnosticWrites \/ DiagnosticDone \/ ResponseWritten
  BY <1>1, <1>10 DEF AcceptFails, BackoffOver, ReadMessage, ReadIgnored,
     DiagnosticWrites, DiagnosticDone, ResponseWritten, connectionVars
<1>11. CASE ReadRefused \/ StreamEnds \/ HandlerFails \/ WriteFails
  BY <1>1, <1>11 DEF ReadRefused, StreamEnds, HandlerFails, WriteFails, Returns
<1>12. CASE UNCHANGED vars
  BY <1>1, <1>12 DEF vars, connectionVars
<1> QED BY <1>2, <1>6, <1>7, <1>8, <1>9, <1>10, <1>11, <1>12 DEF Next, ServerStep

(* The whole invariant holds in every state the server reaches.            *)
LEMMA ServerInvariant == Spec => []IInv
<1>1. Init => IInv
  BY PlacedInit, AddressInit DEF IInv
<1>2. IInv /\ [Next]_vars => IInv'
  BY PlacedStep, AddressStep DEF IInv
<1> QED BY <1>1, <1>2, PTL DEF Spec

(* Every variable keeps its type; the count of connections, which is taken *)
(* back with a subtraction, never falls below zero.                        *)
THEOREM ServerTypeCorrect == Spec => []TypeOK
<1>1. IInv => TypeOK
  BY DEF IInv, Placed
<1> QED BY <1>1, ServerInvariant, PTL

(* active_connections is one while a connection is handled and zero        *)
(* otherwise, whichever way handle_client_connection returns.              *)
THEOREM GuardBalances == Spec => []ConnectionsCounted
<1>1. IInv => ConnectionsCounted
  BY DEF IInv, Placed
<1> QED BY <1>1, ServerInvariant, PTL

(* An alive check names the source of the latest grant on its connection,  *)
(* or 0 before there is one or after a denial: never an address that was   *)
(* denied, nor that of another connection.                                 *)
THEOREM AliveIsTruthful == Spec => []AliveNamesLatestGrant
<1>1. \A i \in 1..Len(log) : GrantsBefore(i) = Grants(log, i)
  BY DEF GrantsBefore, Grants
<1>2. AliveKept => AliveNamesLatestGrant
  BY <1>1, Zenon DEF AliveKept, AliveNamesLatestGrant, Named
<1>3. IInv => AliveNamesLatestGrant
  BY <1>2 DEF IInv
<1> QED BY <1>3, ServerInvariant, PTL

(* A denied activation takes nothing back: an alive check names the source *)
(* of the latest grant whatever was denied since, where                    *)
(* ClientConnectionInfo documents 0x0000 after a denial.                   *)
THEOREM GrantOutlivesDenial == Spec => []AliveKept
<1>1. IInv => AliveKept
  BY DEF IInv
<1> QED BY <1>1, ServerInvariant, PTL
=============================================================================
