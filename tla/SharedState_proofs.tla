------------------------- MODULE SharedState_proofs -------------------------
(***************************************************************************)
(* State that several threads of the client share, or that the client and  *)
(* a member share: the cluster view, a PN counter's clock and a            *)
(* transaction. OneViewSource needs what the steps that threads have still *)
(* to make know of their connections: one whose closing is being handled   *)
(* is dead (Closing), and one that a registration is about to be sent for  *)
(* is, if it lives, the one the listener names (Registering).              *)
(* SessionKept is carried by the clock that is observed being that of an   *)
(* answer (CounterObserved): of two answers that can be compared the later *)
(* one stays. With one calling thread all can be, because a request        *)
(* carries the observed clock and its answer covers it (CounterCarried).   *)
(* StateIsTrue needs what the member makes of the requests under way,      *)
(* which are all of the present transaction, and that of the earlier ones  *)
(* only those that a call failed on are open.                              *)
(***************************************************************************)
EXTENDS ClusterView, FiniteSets, TLAPS

\* The connections are numbered, and a member list holds members only.
Setting ==
    /\ MaxConn \in Nat /\ None \notin Members
    /\ \A k \in Clusters, v \in Nat : ViewOf(k, v) \in SUBSET Members

\* A view of the cluster that a member sends, or that it wrote into an
\* answer.
View == [kind : {"members", "partitions"}, conn : Conns, version : Nat,
         members : SUBSET Members]

\* The steps a thread has still to make.
Steps ==
         [do : {"put", "register", "check", "closed", "reregister", "invoke"}, conn : Conns]
    \cup [do : {"clear", "unlock state"}]
    \cup [do : {"initial", "apply"}, view : View]
    \cup [do : {"leave"}, members : SUBSET Members]
    \cup [do : {"fire"}, left : SUBSET Members, joined : SUBSET Members]

\* The types of the state, with the conditions on the constants.
Types ==
    /\ Setting
    /\ alive \subseteq Conns /\ active \subseteq Conns
    /\ peer \in [Conns -> Members \cup {None}]
    /\ listener \in Conns \cup {NoConn}
    /\ asked \subseteq Conns /\ accepted \subseteq Conns
    /\ world \in [Clusters -> Nat]
    /\ inbox \subseteq View
    /\ snapshot \in [version : Nat \cup {-1}, members : SUBSET Members]
    /\ table \in [conn : Conns \cup {NoConn}, version : Nat \cup {-1}]
    /\ todo \in [Workers -> Seq(Steps)]

\* x is a step that worker v has still to do.
Has(v, x) == \E i \in DOMAIN todo[v] : x = todo[v][i]

\* A connection whose closing is being handled is dead.
Closing ==
    \A v \in Workers : \A x \in Steps :
        Has(v, x) /\ x.do \in {"closed", "reregister"} => x.conn \notin alive

\* A registration is about to be sent for the connection the listener names.
Registering ==
    \A v \in Workers : \A x \in Steps :
        Has(v, x) /\ x.do = "invoke" /\ x.conn \in alive => listener = x.conn

\* The inductive invariant: types, what the steps under way know of their
\* connections, and the property.
IInv == Types /\ Closing /\ Registering /\ OneViewSource

-----------------------------------------------------------------------------
\* A worker's steps, after one of them was done and replaced by the steps it calls
\* for, or after an idle worker began: a step is an old one or a new one.
LEMMA Pushing ==
    ASSUME Types, NEW w \in Workers, todo[w] # <<>>, NEW S \in SUBSET Steps, NEW steps \in Seq(S),
           Then(w, steps)
    PROVE  /\ todo' \in [Workers -> Seq(Steps)]
           /\ \A v \in Workers, x \in Steps : Has(v, x)' => Has(v, x) \/ x \in S
  <1>1. todo \in [Workers -> Seq(Steps)] /\ todo[w] \in Seq(Steps) /\ steps \in Seq(Steps)
    BY DEF Types
  <1>2. Tail(todo[w]) \in Seq(Steps) /\ steps \o Tail(todo[w]) \in Seq(Steps)
    BY <1>1
  <1>3. /\ todo' \in [Workers -> Seq(Steps)] /\ todo'[w] = steps \o Tail(todo[w])
        /\ \A v \in Workers \ {w} : todo'[v] = todo[v]
    BY <1>1, <1>2 DEF Then
  <1>4. \A i \in DOMAIN todo'[w] :
           todo'[w][i] \in S \/ \E j \in DOMAIN todo[w] : todo'[w][i] = todo[w][j]
    <2>1. TAKE i \in DOMAIN todo'[w]
    <2>2. i \in 1..(Len(steps) + Len(Tail(todo[w]))) /\ Len(Tail(todo[w])) = Len(todo[w]) - 1
      BY <1>1, <1>2, <1>3
    <2>3. CASE i =< Len(steps)
      BY <1>2, <1>3, <2>2, <2>3
    <2>4. CASE i > Len(steps)
      <3>1. todo'[w][i] = Tail(todo[w])[i - Len(steps)]
        BY <1>1, <1>2, <1>3, <2>2, <2>4
      <3>2. Tail(todo[w])[i - Len(steps)] = todo[w][i - Len(steps) + 1]
        BY <1>1, <2>2, <2>4
      <3>3. i - Len(steps) + 1 \in DOMAIN todo[w]
        BY <1>1, <2>2, <2>4
      <3> QED
        BY <3>1, <3>2, <3>3, Zenon
    <2> QED
      BY <1>1, <2>2, <2>3, <2>4
  <1>5. ASSUME NEW v \in Workers, NEW x \in Steps, Has(v, x)'
        PROVE  Has(v, x) \/ x \in S
    <2>1. PICK i \in DOMAIN todo'[v] : x = todo'[v][i]
      BY <1>5 DEF Has
    <2> QED
      BY <1>3, <1>4, <2>1, Zenon DEF Has
  <1> QED
    BY <1>3, <1>5, Zenon

\* An idle thread that begins with steps of a set S has no other steps.
LEMMA Beginning ==
    ASSUME Types, NEW w \in Workers, NEW S \in SUBSET Steps, NEW steps \in Seq(S), Begin(w, steps)
    PROVE  /\ todo' \in [Workers -> Seq(Steps)]
           /\ \A v \in Workers, x \in Steps : Has(v, x)' => Has(v, x) \/ x \in S
  <1>1. steps \in Seq(Steps) /\ \A i \in DOMAIN steps : steps[i] \in S
    OBVIOUS
  <1>2. /\ todo' \in [Workers -> Seq(Steps)] /\ todo'[w] = steps
        /\ \A v \in Workers \ {w} : todo'[v] = todo[v]
    BY <1>1 DEF Types, Begin
  <1> QED
    BY <1>1, <1>2 DEF Has

\* What a step with the new steps S has to satisfy: it only kills connections, it
\* calls for the closing of dead connections and for the registration the listener
\* names, it takes the listener only from a connection that is dead or from none,
\* and only a connection the listener names comes to send views.
LEMMA Keeping ==
    ASSUME Types, Closing, Registering, OneViewSource, NEW S,
           \A v \in Workers, x \in Steps : Has(v, x)' => Has(v, x) \/ x \in S,
           alive' \subseteq alive,
           \A x \in S : x.do \in {"closed", "reregister"} => x.conn \notin alive',
           \A x \in S : x.do = "invoke" /\ x.conn \in alive' => listener' = x.conn,
           listener' = listener \/ listener \notin alive',
           \A c \in (asked' \cup accepted') \cap alive' : c \in asked \cup accepted \/ listener' = c
    PROVE  Closing' /\ Registering' /\ OneViewSource'
  <1>1. Closing'
    <2>1. SUFFICES ASSUME NEW v \in Workers, NEW x \in Steps, Has(v, x)',
                          x.do \in {"closed", "reregister"}
                   PROVE  x.conn \notin alive'
      BY Zenon DEF Closing
    <2> QED
      BY <2>1, Zenon DEF Closing
  <1>2. Registering'
    <2>1. SUFFICES ASSUME NEW v \in Workers, NEW x \in Steps, Has(v, x)', x.do = "invoke",
                          x.conn \in alive'
                   PROVE  listener' = x.conn
      BY Zenon DEF Registering
    <2>2. CASE x \in S
      BY <2>1, <2>2, Zenon
    <2>3. CASE Has(v, x)
      <3>1. x.conn \in alive
        BY <2>1
      <3>2. listener = x.conn
        BY <2>1, <2>3, <3>1, Zenon DEF Registering
      <3> QED
        BY <2>1, <3>2, Zenon
    <2> QED
      BY <2>1, <2>2, <2>3, Zenon
  <1>3. OneViewSource'
    BY DEF OneViewSource
  <1> QED
    BY <1>1, <1>2, <1>3

\* A step that leaves the listener and its registrations alone.
LEMMA Bystanding ==
    ASSUME Types, Closing, Registering, OneViewSource, NEW S,
           \A v \in Workers, x \in Steps : Has(v, x)' => Has(v, x) \/ x \in S,
           alive' \subseteq alive,
           \A x \in S : x.do \in {"closed", "reregister"} => x.conn \notin alive',
           \A x \in S : x.do # "invoke",
           listener' = listener, asked' \cup accepted' \subseteq asked \cup accepted
    PROVE  Closing' /\ Registering' /\ OneViewSource'
  BY Keeping, Zenon

\* A step of no worker that leaves them alone.
LEMMA Outside ==
    ASSUME Types, Closing, Registering, OneViewSource, todo' = todo, alive' \subseteq alive,
           listener' = listener, asked' \cup accepted' \subseteq asked \cup accepted
    PROVE  Closing' /\ Registering' /\ OneViewSource'
  <1> DEFINE S == {x \in Steps : FALSE}
  <1>1. \A v \in Workers, x \in Steps : Has(v, x)' => Has(v, x) \/ x \in S
    BY DEF Has
  <1>2. \A x \in S : FALSE
    OBVIOUS
  <1> HIDE DEF S
  <1> QED
    BY <1>1, <1>2, Bystanding, Zenon

\* Sequences of steps.
LEMMA Sequences ==
    ASSUME NEW S
    PROVE  /\ <<>> \in Seq(S)
           /\ \A a \in S : <<a>> \in Seq(S)
           /\ \A a, b \in S : <<a, b>> \in Seq(S)
           /\ \A a, b, c, d \in S : <<a, b, c, d>> \in Seq(S)
  OBVIOUS

\* A worker's step that calls for no other and leaves the listener alone.
LEMMA Popping ==
    ASSUME Types, Closing, Registering, OneViewSource, NEW w \in Workers, todo[w] # <<>>,
           Then(w, <<>>), alive' = alive, listener' = listener,
           asked' \cup accepted' \subseteq asked \cup accepted
    PROVE  todo' \in [Workers -> Seq(Steps)] /\ Closing' /\ Registering' /\ OneViewSource'
  <1> DEFINE S == {x \in Steps : FALSE}
  <1>1. S \in SUBSET Steps /\ \A x \in S : FALSE
    OBVIOUS
  <1>2. <<>> \in Seq(S)
    BY Sequences
  <1> HIDE DEF S
  <1>3. /\ todo' \in [Workers -> Seq(Steps)]
        /\ \A v \in Workers, x \in Steps : Has(v, x)' => Has(v, x) \/ x \in S
    BY <1>1, <1>2, Pushing, Zenon
  <1>4. alive' \subseteq alive
    OBVIOUS
  <1> QED
    BY <1>1, <1>3, <1>4, Bystanding, Zenon

\* A worker's step that calls for the steps S, none of them a registration, and
\* leaves the listener alone.
LEMMA Replacing ==
    ASSUME Types, Closing, Registering, OneViewSource, NEW w \in Workers, todo[w] # <<>>,
           NEW S \in SUBSET Steps, NEW steps \in Seq(S), Then(w, steps), alive' \subseteq alive,
           \A x \in S : x.do \in {"closed", "reregister"} => x.conn \notin alive',
           \A x \in S : x.do # "invoke",
           listener' = listener, asked' = asked, accepted' = accepted
    PROVE  todo' \in [Workers -> Seq(Steps)] /\ Closing' /\ Registering' /\ OneViewSource'
  <1>1. /\ todo' \in [Workers -> Seq(Steps)]
        /\ \A v \in Workers, x \in Steps : Has(v, x)' => Has(v, x) \/ x \in S
    BY Pushing, Zenon
  <1>2. asked' \cup accepted' \subseteq asked \cup accepted
    OBVIOUS
  <1> QED
    BY <1>1, <1>2, Bystanding, Zenon

\* A step that a worker is at, by kind.
LEMMA TopStep ==
    ASSUME Types, NEW w \in Workers, NEW d, At(w, d)
    PROVE  /\ todo[w] # <<>> /\ Top(w) \in Steps /\ Has(w, Top(w)) /\ Top(w).do = d
           /\ d \in {"put", "register", "check", "closed", "reregister", "invoke"} =>
                 Top(w).conn \in Conns
           /\ d \in {"initial", "apply"} => Top(w).view \in View
           /\ d = "leave" => Top(w).members \in SUBSET Members
  <1>1. todo[w] \in Seq(Steps) /\ todo[w] # <<>> /\ Top(w).do = d
    BY DEF Types, At, Idle
  <1>2. Top(w) = todo[w][1] /\ 1 \in DOMAIN todo[w] /\ Top(w) \in Steps
    BY <1>1 DEF Top
  <1> QED
    BY <1>1, <1>2, Zenon DEF Has, Steps

-----------------------------------------------------------------------------
(* The steps                                                               *)

\* The invariant holds before the first connection.
LEMMA InitOk ==
    ASSUME Setting, Init
    PROVE  IInv
  <1>1. /\ EMPTY_SNAPSHOT \in [version : Nat \cup {-1}, members : SUBSET Members]
        /\ NoConn \in Conns \cup {NoConn} /\ <<>> \in Seq(Steps)
    BY DEF EMPTY_SNAPSHOT
  <1>2. Types
    BY <1>1 DEF Init, Types
  <1>3. \A v \in Workers, x \in Steps : ~Has(v, x)
    BY DEF Init, Has
  <1>4. Closing /\ Registering
    BY <1>3, Zenon DEF Closing, Registering
  <1>5. OneViewSource
    BY DEF Init, OneViewSource
  <1> QED
    BY <1>2, <1>4, <1>5 DEF IInv

\* on_authenticated: a second connection to a member dies, any other one will
\* be put into the maps and then offered to the listener.
LEMMA OnAuthenticatedOk ==
    ASSUME IInv, NEW w \in Workers, NEW c \in Conns, NEW m \in Members, OnAuthenticated(w, c, m)
    PROVE  IInv'
  <1>1. Types /\ Closing /\ Registering /\ OneViewSource
    BY DEF IInv
  <1>2. /\ active' = active /\ listener' = listener /\ asked' = asked /\ accepted' = accepted
        /\ world' = world /\ inbox' = inbox /\ snapshot' = snapshot /\ table' = table
        /\ peer' = [peer EXCEPT ![c] = m] /\ alive' \subseteq alive
    BY <1>1, Zenon DEF OnAuthenticated, serverVars, listVars, Types
  <1>3. peer' \in [Conns -> Members \cup {None}] /\ alive' \subseteq Conns
    BY <1>1, <1>2 DEF Types
  <1>4. CASE todo' = todo
    <2>1. Types'
      BY <1>1, <1>2, <1>3, <1>4 DEF Types
    <2>2. asked' \cup accepted' \subseteq asked \cup accepted
      BY <1>2
    <2>3. Closing' /\ Registering' /\ OneViewSource'
      BY <1>1, <1>2, <1>4, <2>2, Outside, Zenon
    <2> QED
      BY <2>1, <2>3 DEF IInv
  <1>5. CASE todo' # todo
    <2> DEFINE S == {x \in Steps : x.do \in {"clear", "put", "register", "unlock state", "check"}}
               first == IF cluster_id \notin {None, ClusterOf(m)} THEN <<[do |-> "clear"]>> ELSE <<>>
               rest == <<[do |-> "put", conn |-> c], [do |-> "register", conn |-> c],
                         [do |-> "unlock state"], [do |-> "check", conn |-> c]>>
    <2>1. /\ [do |-> "clear"] \in S /\ [do |-> "put", conn |-> c] \in S
          /\ [do |-> "register", conn |-> c] \in S /\ [do |-> "unlock state"] \in S
          /\ [do |-> "check", conn |-> c] \in S
      BY Zenon DEF Steps
    <2>2. \A x \in S : x.do \notin {"closed", "reregister", "invoke"}
      BY Zenon
    <2>3. S \in SUBSET Steps
      BY Zenon
    <2> HIDE DEF S
    <2>4. first \in Seq(S) /\ rest \in Seq(S)
      BY <2>1, Sequences, Zenon
    <2>5. Begin(w, first \o rest)
      BY <1>5, Zenon DEF OnAuthenticated
    <2> HIDE DEF first, rest
    <2>6. first \o rest \in Seq(S)
      BY <2>4
    <2>7. /\ todo' \in [Workers -> Seq(Steps)]
          /\ \A v \in Workers, x \in Steps : Has(v, x)' => Has(v, x) \/ x \in S
      BY <1>1, <2>3, <2>5, <2>6, Beginning, Zenon
    <2>8. Types'
      BY <1>1, <1>2, <1>3, <2>7 DEF Types
    <2>9. Closing' /\ Registering' /\ OneViewSource'
      BY <1>1, <1>2, <2>2, <2>7, Bystanding, Zenon
    <2> QED
      BY <2>8, <2>9 DEF IInv
  <1> QED
    BY <1>4, <1>5

\* on_connection_established registers the connection: it becomes active.
LEMMA PutConnectionOk ==
    ASSUME IInv, NEW w \in Workers, PutConnection(w)
    PROVE  IInv'
  <1>1. Types /\ Closing /\ Registering /\ OneViewSource
    BY DEF IInv
  <1>2. todo[w] # <<>> /\ Top(w).conn \in Conns
    BY <1>1, TopStep DEF PutConnection
  <1>3. /\ listener' = listener /\ asked' = asked /\ accepted' = accepted /\ alive' = alive
        /\ world' = world /\ inbox' = inbox /\ snapshot' = snapshot /\ table' = table
        /\ peer' = peer /\ active' = active \cup {Top(w).conn} /\ Then(w, <<>>)
        /\ asked' \cup accepted' \subseteq asked \cup accepted
    BY DEF PutConnection, serverVars, listVars
  <1>4. todo' \in [Workers -> Seq(Steps)] /\ Closing' /\ Registering' /\ OneViewSource'
    BY <1>1, <1>2, <1>3, Popping, Zenon
  <1> QED
    BY <1>1, <1>2, <1>3, <1>4 DEF IInv, Types

\* The check of alive_ after the connection was registered.
LEMMA CheckAliveOk ==
    ASSUME IInv, NEW w \in Workers, CheckAlive(w)
    PROVE  IInv'
  <1>1. Types /\ Closing /\ Registering /\ OneViewSource
    BY DEF IInv
  <1>2. todo[w] # <<>> /\ Top(w).conn \in Conns
    BY <1>1, TopStep DEF CheckAlive
  <1>3. /\ listener' = listener /\ asked' = asked /\ accepted' = accepted /\ alive' = alive
        /\ world' = world /\ inbox' = inbox /\ snapshot' = snapshot /\ table' = table
        /\ peer' = peer /\ active' = active
        /\ asked' \cup accepted' \subseteq asked \cup accepted
    BY DEF CheckAlive, serverVars, listVars, connVars
  <1>4. todo' \in [Workers -> Seq(Steps)] /\ Closing' /\ Registering' /\ OneViewSource'
    <2>1. CASE Top(w).conn \in alive
      <3>1. Then(w, <<>>)
        BY <2>1 DEF CheckAlive
      <3> QED
        BY <1>1, <1>2, <1>3, <3>1, Popping, Zenon
    <2>2. CASE Top(w).conn \notin alive
      <3> DEFINE x == [do |-> "closed", conn |-> Top(w).conn]
      <3>1. x \in Steps /\ x.do = "closed" /\ x.conn \notin alive'
        BY <1>2, <1>3, <2>2, Zenon DEF Steps
      <3>2. Then(w, <<x>>)
        BY <2>2 DEF CheckAlive
      <3> HIDE DEF x
      <3>3. {x} \in SUBSET Steps /\ <<x>> \in Seq({x}) /\ alive' \subseteq alive
        BY <1>3, <3>1
      <3>4. \A y \in {x} : (y.do \in {"closed", "reregister"} => y.conn \notin alive') /\ y.do # "invoke"
        BY <3>1, Zenon
      <3> QED
        BY <1>1, <1>2, <1>3, <3>2, <3>3, <3>4, Replacing, Zenon
    <2> QED
      BY <2>1, <2>2
  <1> QED
    BY <1>1, <1>3, <1>4 DEF IInv, Types

\* Connection::close: the connection is dead before its closing is processed.
LEMMA SocketFailsOk ==
    ASSUME IInv, NEW w \in Workers, NEW c \in Conns, SocketFails(w, c)
    PROVE  IInv'
  <1>1. Types /\ Closing /\ Registering /\ OneViewSource
    BY DEF IInv
  <1> DEFINE x == [do |-> "closed", conn |-> c]
  <1>2. /\ listener' = listener /\ asked' = asked /\ accepted' = accepted /\ alive' = alive \ {c}
        /\ world' = world /\ inbox' = inbox /\ snapshot' = snapshot /\ table' = table
        /\ peer' = peer /\ active' = active /\ Begin(w, <<x>>)
        /\ asked' \cup accepted' \subseteq asked \cup accepted
    BY DEF SocketFails, serverVars, listVars
  <1>3. x \in Steps /\ x.do = "closed" /\ x.conn \notin alive'
    BY <1>2, Zenon DEF Steps
  <1> HIDE DEF x
  <1>4. {x} \in SUBSET Steps /\ <<x>> \in Seq({x}) /\ alive' \subseteq alive
    BY <1>2, <1>3, Sequences
  <1>5. \A y \in {x} : (y.do \in {"closed", "reregister"} => y.conn \notin alive') /\ y.do # "invoke"
    BY <1>3
  <1>6. /\ todo' \in [Workers -> Seq(Steps)]
        /\ \A v \in Workers, y \in Steps : Has(v, y)' => Has(v, y) \/ y \in {x}
    BY <1>1, <1>2, <1>4, Beginning, Zenon
  <1>7. Closing' /\ Registering' /\ OneViewSource'
    <2> DEFINE S == {x}
    <2>1. /\ \A v \in Workers, y \in Steps : Has(v, y)' => Has(v, y) \/ y \in S
          /\ \A y \in S : y.do \in {"closed", "reregister"} => y.conn \notin alive'
          /\ \A y \in S : y.do # "invoke"
      BY <1>5, <1>6
    <2> HIDE DEF S
    <2> QED
      BY <1>1, <1>2, <1>4, <2>1, Bystanding, Zenon
  <1> QED
    BY <1>1, <1>2, <1>4, <1>6, <1>7 DEF IInv, Types

\* on_connection_close takes the connection out of the active ones.
LEMMA OnConnectionCloseOk ==
    ASSUME IInv, NEW w \in Workers, OnConnectionClose(w)
    PROVE  IInv'
  <1>1. Types /\ Closing /\ Registering /\ OneViewSource
    BY DEF IInv
  <1>2. /\ todo[w] # <<>> /\ Top(w).conn \in Conns /\ Top(w) \in Steps /\ Has(w, Top(w))
        /\ Top(w).do = "closed"
    BY <1>1, TopStep, Zenon DEF OnConnectionClose
  <1>3. Top(w).conn \notin alive
    BY <1>1, <1>2 DEF Closing
  <1>4. /\ listener' = listener /\ asked' = asked /\ accepted' = accepted /\ alive' = alive
        /\ world' = world /\ inbox' = inbox /\ snapshot' = snapshot /\ table' = table
        /\ peer' = peer /\ active' \subseteq active
        /\ asked' \cup accepted' \subseteq asked \cup accepted
    BY Zenon DEF OnConnectionClose, serverVars, listVars
  <1>5. todo' \in [Workers -> Seq(Steps)] /\ Closing' /\ Registering' /\ OneViewSource'
    <2>1. CASE Top(w).conn \notin active
      <3>1. Then(w, <<>>)
        BY <2>1 DEF OnConnectionClose
      <3> QED
        BY <1>1, <1>2, <1>4, <3>1, Popping, Zenon
    <2>2. CASE Top(w).conn \in active
      <3> DEFINE x == [do |-> "reregister", conn |-> Top(w).conn]
                 y == [do |-> "unlock state"]
      <3>1. x \in Steps /\ x.do = "reregister" /\ x.conn \notin alive' /\ y \in Steps /\ y.do = "unlock state"
        BY <1>2, <1>3, <1>4, Zenon DEF Steps
      <3>2. Then(w, <<x, y>>)
        BY <2>2, Zenon DEF OnConnectionClose
      <3> HIDE DEF x, y
      <3>3. {x, y} \in SUBSET Steps /\ <<x, y>> \in Seq({x, y}) /\ alive' \subseteq alive
        <4>1. {x, y} \in SUBSET Steps /\ alive' \subseteq alive
          BY <1>4, <3>1, Zenon
        <4>2. x \in {x, y} /\ y \in {x, y}
          OBVIOUS
        <4> QED
          BY <4>1, <4>2, Sequences, Zenon
      <3>4. \A z \in {x, y} : (z.do \in {"closed", "reregister"} => z.conn \notin alive') /\ z.do # "invoke"
        BY <3>1, Zenon
      <3> QED
        BY <1>1, <1>2, <1>4, <3>2, <3>3, <3>4, Replacing, Zenon
    <2> QED
      BY <2>1, <2>2
  <1> QED
    BY <1>1, <1>4, <1>5 DEF IInv, Types

\* The lock on the client state is given up.
LEMMA UnlockStateOk ==
    ASSUME IInv, NEW w \in Workers, UnlockState(w)
    PROVE  IInv'
  <1>1. Types /\ Closing /\ Registering /\ OneViewSource
    BY DEF IInv
  <1>2. todo[w] # <<>>
    BY <1>1, TopStep, Zenon DEF UnlockState
  <1>3. /\ listener' = listener /\ asked' = asked /\ accepted' = accepted /\ alive' = alive
        /\ world' = world /\ inbox' = inbox /\ snapshot' = snapshot /\ table' = table
        /\ peer' = peer /\ active' = active /\ Then(w, <<>>)
        /\ asked' \cup accepted' \subseteq asked \cup accepted
    BY Zenon DEF UnlockState, serverVars, listVars, connVars
  <1>4. todo' \in [Workers -> Seq(Steps)] /\ Closing' /\ Registering' /\ OneViewSource'
    BY <1>1, <1>2, <1>3, Popping, Zenon
  <1> QED
    BY <1>1, <1>3, <1>4 DEF IInv, Types

\* fire_events: the listeners of membership events are called.
LEMMA FireEventsOk ==
    ASSUME IInv, NEW w \in Workers, fire_events(w)
    PROVE  IInv'
  <1>1. Types /\ Closing /\ Registering /\ OneViewSource
    BY Zenon DEF IInv
  <1>2. todo[w] # <<>>
    BY <1>1, TopStep, Zenon DEF fire_events
  <1>3. /\ listener' = listener /\ asked' = asked /\ accepted' = accepted /\ alive' = alive
        /\ world' = world /\ inbox' = inbox /\ snapshot' = snapshot /\ table' = table
        /\ peer' = peer /\ active' = active /\ Then(w, <<>>)
        /\ asked' \cup accepted' \subseteq asked \cup accepted
    BY DEF fire_events, serverVars, connVars
  <1>4. todo' \in [Workers -> Seq(Steps)] /\ Closing' /\ Registering' /\ OneViewSource'
    BY <1>1, <1>2, <1>3, Popping, Zenon
  <1> QED
    BY <1>1, <1>3, <1>4 DEF IInv, Types

\* try_register: the listener is free, so no live connection sends views, and the
\* connection it takes is the one the registration is for.
LEMMA TryRegisterOk ==
    ASSUME IInv, NEW w \in Workers, try_register(w)
    PROVE  IInv'
  <1>1. Types /\ Closing /\ Registering /\ OneViewSource
    BY Zenon DEF IInv
  <1>2. todo[w] # <<>> /\ Top(w).conn \in Conns
    BY <1>1, TopStep DEF try_register
  <1>3. /\ asked' = asked /\ accepted' = accepted /\ alive' = alive
        /\ world' = world /\ inbox' = inbox /\ snapshot' = snapshot /\ table' = table
        /\ peer' = peer /\ active' = active
        /\ asked' \cup accepted' \subseteq asked \cup accepted
    BY Zenon DEF try_register, serverVars, listVars, connVars
  <1>4. CASE listener # NoConn
    <2>1. listener' = listener /\ Then(w, <<>>)
      BY <1>4 DEF try_register
    <2>2. todo' \in [Workers -> Seq(Steps)] /\ Closing' /\ Registering' /\ OneViewSource'
      BY <1>1, <1>2, <1>3, <2>1, Popping, Zenon
    <2> QED
      BY <1>1, <1>3, <2>1, <2>2, Zenon DEF IInv, Types
  <1>5. CASE listener = NoConn
    <2> DEFINE x == [do |-> "invoke", conn |-> Top(w).conn]
               S == {x}
    <2>1. listener' = Top(w).conn /\ Then(w, <<x>>) /\ listener \notin alive'
      BY <1>1, <1>3, <1>5 DEF try_register, Types, Conns, NoConn, Setting
    <2>2. x \in Steps /\ x.do = "invoke" /\ x.conn = listener'
      BY <1>2, <2>1, Zenon DEF Steps
    <2> HIDE DEF x
    <2>3. S \in SUBSET Steps /\ x \in S /\ alive' \subseteq alive
      BY <1>3, <2>2
    <2>4. /\ \A y \in S : y.do \in {"closed", "reregister"} => y.conn \notin alive'
          /\ \A y \in S : y.do = "invoke" /\ y.conn \in alive' => listener' = y.conn
      BY <2>2
    <2>5. \A c \in (asked' \cup accepted') \cap alive' : c \in asked \cup accepted \/ listener' = c
      BY <1>3
    <2> HIDE DEF S
    <2>6. <<x>> \in Seq(S)
      BY <2>3, Sequences, Zenon
    <2>7. /\ todo' \in [Workers -> Seq(Steps)]
          /\ \A v \in Workers, y \in Steps : Has(v, y)' => Has(v, y) \/ y \in S
      BY <1>1, <1>2, <2>1, <2>3, <2>6, Pushing, Zenon
    <2>8. Closing' /\ Registering' /\ OneViewSource'
      BY <1>1, <2>1, <2>3, <2>4, <2>5, <2>7, Keeping, Zenon
    <2> QED
      BY <1>1, <1>2, <1>3, <2>1, <2>7, <2>8, Zenon DEF IInv, Types
  <1> QED
    BY <1>4, <1>5

\* The registration is sent for the connection the listener names, or for a dead
\* one.
LEMMA ClearVersionOk ==
    ASSUME IInv, NEW w \in Workers, clear_member_list_version(w)
    PROVE  IInv'
  <1>1. Types /\ Closing /\ Registering /\ OneViewSource
    BY DEF IInv
  <1>2. /\ todo[w] # <<>> /\ Top(w).conn \in Conns /\ Top(w) \in Steps /\ Has(w, Top(w))
        /\ Top(w).do = "invoke"
    BY <1>1, TopStep DEF clear_member_list_version
  <1>3. Top(w).conn \in alive => listener = Top(w).conn
    BY <1>1, <1>2 DEF Registering
  <1>4. /\ listener' = listener /\ asked' = asked \cup {Top(w).conn} /\ accepted' = accepted
        /\ alive' = alive /\ world' = world /\ inbox' = inbox /\ table' = table
        /\ peer' = peer /\ active' = active /\ Then(w, <<>>)
        /\ snapshot' \in {snapshot, [snapshot EXCEPT !.version = 0]}
    BY DEF clear_member_list_version, connVars
  <1>5. snapshot' \in [version : Nat \cup {-1}, members : SUBSET Members]
    BY <1>1, <1>4 DEF Types
  <1> DEFINE S == {x \in Steps : FALSE}
  <1>6. S \in SUBSET Steps /\ (\A x \in S : FALSE) /\ alive' \subseteq alive
    BY <1>4
  <1>7. \A c \in (asked' \cup accepted') \cap alive' : c \in asked \cup accepted \/ listener' = c
    BY <1>3, <1>4
  <1> HIDE DEF S
  <1>8. <<>> \in Seq(S)
    BY Sequences, Zenon
  <1>9. /\ todo' \in [Workers -> Seq(Steps)]
        /\ \A v \in Workers, y \in Steps : Has(v, y)' => Has(v, y) \/ y \in S
    BY <1>1, <1>2, <1>4, <1>6, <1>8, Pushing, Zenon
  <1>10. Closing' /\ Registering' /\ OneViewSource'
    BY <1>1, <1>4, <1>6, <1>7, <1>9, Keeping, Zenon
  <1> QED
    BY <1>1, <1>2, <1>4, <1>5, <1>9, <1>10 DEF IInv, Types

\* try_reregister_to_random_connection: the listener is taken from a connection
\* that is dead.
LEMMA ReregisterOk ==
    ASSUME IInv, NEW w \in Workers, try_reregister_to_random_connection(w)
    PROVE  IInv'
  <1>1. Types /\ Closing /\ Registering /\ OneViewSource
    BY Zenon DEF IInv
  <1>2. /\ todo[w] # <<>> /\ Top(w).conn \in Conns /\ Top(w) \in Steps /\ Has(w, Top(w))
        /\ Top(w).do = "reregister"
    BY <1>1, TopStep DEF try_reregister_to_random_connection
  <1>3. Top(w).conn \notin alive
    BY <1>1, <1>2 DEF Closing
  <1>4. /\ asked' = asked /\ accepted' = accepted /\ alive' = alive
        /\ world' = world /\ inbox' = inbox /\ snapshot' = snapshot /\ table' = table
        /\ peer' = peer /\ active' = active
        /\ listener' = listener \/ (listener' = NoConn /\ listener \notin alive')
    <2>1. listener' = listener \/ (listener' = NoConn /\ listener = Top(w).conn)
      BY DEF try_reregister_to_random_connection
    <2>2. /\ asked' = asked /\ accepted' = accepted /\ alive' = alive
          /\ world' = world /\ inbox' = inbox /\ snapshot' = snapshot /\ table' = table
          /\ peer' = peer /\ active' = active
      BY DEF try_reregister_to_random_connection, serverVars, listVars, connVars
    <2> QED
      BY <1>3, <2>1, <2>2, Zenon
  <1> DEFINE S == {x \in Steps : x.do = "register"}
  <1>5. /\ S \in SUBSET Steps /\ alive' \subseteq alive
        /\ \A x \in S : x.do = "register"
        /\ \A d \in Conns : [do |-> "register", conn |-> d] \in S
    BY <1>4, Zenon DEF Steps
  <1>6. \A c \in (asked' \cup accepted') \cap alive' : c \in asked \cup accepted \/ listener' = c
    BY <1>4
  <1> HIDE DEF S
  <1>7. \E steps \in Seq(S) : Then(w, steps)
    <2>1. CASE Then(w, <<>>)
      BY <2>1, Sequences, Zenon
    <2>2. CASE \E d \in get_random_connection : Then(w, <<[do |-> "register", conn |-> d]>>)
      <3>1. get_random_connection \subseteq active
        BY Zenon DEF get_random_connection
      <3>2. PICK d \in Conns : Then(w, <<[do |-> "register", conn |-> d]>>)
        BY <1>1, <2>2, <3>1 DEF Types
      <3> QED
        BY <1>5, <3>2, Sequences, Zenon
    <2> QED
      BY <2>1, <2>2, Zenon DEF try_reregister_to_random_connection
  <1>8. PICK steps \in Seq(S) : Then(w, steps)
    BY <1>7
  <1>9. /\ todo' \in [Workers -> Seq(Steps)]
        /\ \A v \in Workers, y \in Steps : Has(v, y)' => Has(v, y) \/ y \in S
    BY <1>1, <1>2, <1>5, <1>8, Pushing, Zenon
  <1>10. /\ \A y \in S : y.do \in {"closed", "reregister"} => y.conn \notin alive'
         /\ \A y \in S : y.do = "invoke" /\ y.conn \in alive' => listener' = y.conn
    BY <1>5
  <1>11. listener' = listener \/ listener \notin alive'
    BY <1>4
  <1>12. Closing' /\ Registering' /\ OneViewSource'
    BY <1>1, <1>5, <1>6, <1>9, <1>10, <1>11, Keeping, Zenon
  <1> QED
    BY <1>1, <1>4, <1>9, <1>12 DEF IInv, Types

\* A members view that a member sent is taken up by a thread.
LEMMA HandleMembersViewOk ==
    ASSUME IInv, NEW w \in Workers, NEW e \in inbox, HandleMembersView(w, e)
    PROVE  IInv'
  <1>1. Types /\ Closing /\ Registering /\ OneViewSource /\ e \in View
    BY DEF IInv, Types
  <1>2. /\ listener' = listener /\ asked' = asked /\ accepted' = accepted /\ alive' = alive
        /\ world' = world /\ inbox' \subseteq inbox /\ snapshot' = snapshot /\ table' = table
        /\ peer' = peer /\ active' = active
        /\ asked' \cup accepted' \subseteq asked \cup accepted /\ alive' \subseteq alive
    BY DEF HandleMembersView, listVars, connVars
  <1> DEFINE S == {x \in Steps : x.do \in {"initial", "apply"}}
  <1>3. /\ S \in SUBSET Steps /\ \A x \in S : x.do \in {"initial", "apply"}
        /\ [do |-> "initial", view |-> e] \in S /\ [do |-> "apply", view |-> e] \in S
    BY <1>1, Zenon DEF Steps
  <1> HIDE DEF S
  <1>4. \E steps \in Seq(S) : Begin(w, steps)
    <2>1. \/ Begin(w, <<[do |-> "initial", view |-> e]>>) \/ Begin(w, <<[do |-> "apply", view |-> e]>>)
          \/ Begin(w, <<>>)
      BY DEF HandleMembersView
    <2> QED
      BY <1>3, <2>1, Sequences, Zenon
  <1>5. PICK steps \in Seq(S) : Begin(w, steps)
    BY <1>4
  <1>6. /\ todo' \in [Workers -> Seq(Steps)]
        /\ \A v \in Workers, y \in Steps : Has(v, y)' => Has(v, y) \/ y \in S
    BY <1>1, <1>3, <1>5, Beginning, Zenon
  <1>7. /\ \A y \in S : y.do \in {"closed", "reregister"} => y.conn \notin alive'
        /\ \A y \in S : y.do # "invoke"
    BY <1>3
  <1>8. Closing' /\ Registering' /\ OneViewSource'
    BY <1>1, <1>2, <1>6, <1>7, Bystanding, Zenon
  <1> QED
    BY <1>1, <1>2, <1>6, <1>8, Zenon DEF IInv, Types

\* apply_initial_state: the first view after a connect.
LEMMA InitialOk ==
    ASSUME IInv, NEW w \in Workers, apply_initial_state(w)
    PROVE  IInv'
  <1>1. Types /\ Closing /\ Registering /\ OneViewSource
    BY Zenon DEF IInv
  <1>2. todo[w] # <<>> /\ Top(w).view \in View
    BY <1>1, TopStep, Zenon DEF apply_initial_state
  <1>3. /\ listener' = listener /\ asked' = asked /\ accepted' = accepted /\ alive' = alive
        /\ world' = world /\ inbox' = inbox /\ table' = table
        /\ peer' = peer /\ active' = active
        /\ asked' \cup accepted' \subseteq asked \cup accepted /\ alive' \subseteq alive
    BY Zenon DEF apply_initial_state, serverVars, connVars
  <1>4. \/ snapshot' = snapshot
        \/ snapshot' = [version |-> Top(w).view.version, members |-> Top(w).view.members]
    BY Zenon DEF apply_initial_state
  <1>5. snapshot' \in [version : Nat \cup {-1}, members : SUBSET Members]
    BY <1>1, <1>2, <1>4 DEF Types, View
  <1>6. todo' \in [Workers -> Seq(Steps)] /\ Closing' /\ Registering' /\ OneViewSource'
    <2>1. CASE Then(w, <<>>)
      BY <1>1, <1>2, <1>3, <2>1, Popping, Zenon
    <2>2. CASE Then(w, <<[do |-> "apply", view |-> Top(w).view]>>)
      <3> DEFINE S == {x \in Steps : x.do = "apply"}
      <3>1. /\ S \in SUBSET Steps /\ \A x \in S : x.do = "apply"
            /\ [do |-> "apply", view |-> Top(w).view] \in S
        BY <1>2, Zenon DEF Steps
      <3> HIDE DEF S
      <3>2. <<[do |-> "apply", view |-> Top(w).view]>> \in Seq(S)
        BY <3>1, Sequences, Zenon
      <3>3. /\ \A y \in S : y.do \in {"closed", "reregister"} => y.conn \notin alive'
            /\ \A y \in S : y.do # "invoke"
        BY <3>1
      <3> QED
        BY <1>1, <1>2, <1>3, <2>2, <3>1, <3>2, <3>3, Replacing, Zenon
    <2> QED
      BY <2>1, <2>2 DEF apply_initial_state
  <1> QED
    BY <1>1, <1>3, <1>5, <1>6 DEF IInv, Types

\* The steps that follow a list in its place.
LEMMA Detecting ==
    ASSUME NEW old \in SUBSET Members, NEW new \in SUBSET Members
    PROVE  \E S \in SUBSET Steps :
              /\ \A x \in S : x.do \in {"leave", "fire"}
              /\ detect_membership_events(old, new) \in Seq(S)
  <1> DEFINE S == {x \in Steps : x.do \in {"leave", "fire"}}
             a == [do |-> "leave", members |-> old \ new]
             b == Fire(old, new)
  <1>1. a \in S /\ b \in S /\ S \in SUBSET Steps /\ \A x \in S : x.do \in {"leave", "fire"}
    BY Zenon DEF Steps, Fire
  <1>2. detect_membership_events(old, new) = <<a, b>>
    BY DEF detect_membership_events
  <1> HIDE DEF S, a, b
  <1>3. <<a, b>> \in Seq(S)
    BY <1>1, Sequences, Zenon
  <1> QED
    BY <1>1, <1>2, <1>3

\* handle_event: a newer view replaces the snapshot, and its events follow.
LEMMA ApplyViewOk ==
    ASSUME IInv, NEW w \in Workers, ApplyView(w)
    PROVE  IInv'
  <1>1. Types /\ Closing /\ Registering /\ OneViewSource
    BY Zenon DEF IInv
  <1>2. todo[w] # <<>> /\ Top(w).view \in View
    BY <1>1, TopStep, Zenon DEF ApplyView
  <1>3. /\ listener' = listener /\ asked' = asked /\ accepted' = accepted /\ alive' = alive
        /\ world' = world /\ inbox' = inbox /\ table' = table
        /\ peer' = peer /\ active' = active
        /\ asked' \cup accepted' \subseteq asked \cup accepted /\ alive' \subseteq alive
    BY Zenon DEF ApplyView, serverVars, connVars
  <1>4. \/ snapshot' = snapshot
        \/ snapshot' = [version |-> Top(w).view.version, members |-> Top(w).view.members]
    BY Zenon DEF ApplyView
  <1>5. snapshot' \in [version : Nat \cup {-1}, members : SUBSET Members]
    BY <1>1, <1>2, <1>4, SMTT(20) DEF Types, View
  <1>6. todo' \in [Workers -> Seq(Steps)] /\ Closing' /\ Registering' /\ OneViewSource'
    <2>1. CASE Then(w, <<>>)
      BY <1>1, <1>2, <1>3, <2>1, Popping, Zenon
    <2>2. CASE Then(w, detect_membership_events(snapshot.members, Top(w).view.members))
      <3>1. snapshot.members \in SUBSET Members /\ Top(w).view.members \in SUBSET Members
        BY <1>1, <1>2 DEF Types, View
      <3>2. PICK S \in SUBSET Steps :
               /\ \A x \in S : x.do \in {"leave", "fire"}
               /\ detect_membership_events(snapshot.members, Top(w).view.members) \in Seq(S)
        BY <3>1, Detecting, Zenon
      <3>3. /\ \A y \in S : y.do \in {"closed", "reregister"} => y.conn \notin alive'
            /\ \A y \in S : y.do # "invoke"
        BY <3>2, Zenon
      <3> QED
        BY <1>1, <1>2, <1>3, <2>2, <3>2, <3>3, Replacing, Zenon
    <2> QED
      BY <2>1, <2>2 DEF ApplyView
  <1> QED
    BY <1>1, <1>3, <1>5, <1>6 DEF IInv, Types

\* clear_member_list: the snapshot is emptied when the cluster changed.
LEMMA ClearListOk ==
    ASSUME IInv, NEW w \in Workers, clear_member_list(w)
    PROVE  IInv'
  <1>1. Types /\ Closing /\ Registering /\ OneViewSource
    BY Zenon DEF IInv
  <1>2. todo[w] # <<>>
    BY <1>1, TopStep, Zenon DEF clear_member_list
  <1>3. /\ listener' = listener /\ asked' = asked /\ accepted' = accepted /\ alive' = alive
        /\ world' = world /\ inbox' = inbox /\ table' = table
        /\ peer' = peer /\ active' = active /\ alive' \subseteq alive
        /\ snapshot' = [version |-> 0, members |-> {}]
        /\ Then(w, detect_membership_events(snapshot.members, {}))
    BY Zenon DEF clear_member_list, serverVars, connVars
  <1>4. snapshot' \in [version : Nat \cup {-1}, members : SUBSET Members]
    BY <1>3
  <1>5. snapshot.members \in SUBSET Members /\ {} \in SUBSET Members
    BY <1>1, Zenon DEF Types
  <1>6. PICK S \in SUBSET Steps :
           /\ \A x \in S : x.do \in {"leave", "fire"}
           /\ detect_membership_events(snapshot.members, {}) \in Seq(S)
    BY <1>5, Detecting, Zenon
  <1>7. /\ \A y \in S : y.do \in {"closed", "reregister"} => y.conn \notin alive'
        /\ \A y \in S : y.do # "invoke"
    BY <1>6
  <1>8. todo' \in [Workers -> Seq(Steps)] /\ Closing' /\ Registering' /\ OneViewSource'
    BY <1>1, <1>2, <1>3, <1>6, <1>7, Replacing, Zenon
  <1> QED
    BY <1>1, <1>3, <1>4, <1>8, Zenon DEF IInv, Types

\* The connections of a member that left are closed, and only dead connections
\* are handed to on_connection_close.
LEMMA CloseLeftOk ==
    ASSUME IInv, NEW w \in Workers, CloseConnectionOfLeft(w)
    PROVE  IInv'
  <1>1. Types /\ Closing /\ Registering /\ OneViewSource
    BY Zenon DEF IInv
  <1>2. todo[w] # <<>> /\ Top(w).members \in SUBSET Members
    BY <1>1, TopStep, Zenon DEF CloseConnectionOfLeft
  <1>3. /\ listener' = listener /\ asked' = asked /\ accepted' = accepted
        /\ world' = world /\ inbox' = inbox /\ table' = table /\ snapshot' = snapshot
        /\ peer' = peer /\ active' = active
        /\ asked' \cup accepted' \subseteq asked \cup accepted
    BY Zenon DEF CloseConnectionOfLeft, serverVars, listVars
  <1>4. CASE Top(w).members = {}
    <2>1. Then(w, <<>>) /\ alive' = alive
      BY <1>4 DEF CloseConnectionOfLeft
    <2>2. todo' \in [Workers -> Seq(Steps)] /\ Closing' /\ Registering' /\ OneViewSource'
      BY <1>1, <1>2, <1>3, <2>1, Popping, Zenon
    <2> QED
      BY <1>1, <1>3, <2>1, <2>2, Zenon DEF IInv, Types
  <1>5. CASE Top(w).members # {}
    <2>1. PICK m \in Top(w).members :
             LET c == {d \in active : peer[d] = m}
                 rest == <<[do |-> "leave", members |-> Top(w).members \ {m}]>>
             IN  /\ alive' = alive \ c
                 /\ Then(w, IF c \cap alive = {} THEN rest
                            ELSE <<[do |-> "closed",
                                    conn |-> CHOOSE d \in c : TRUE]>> \o rest)
      BY <1>5, Zenon DEF CloseConnectionOfLeft
    <2> DEFINE c == {d \in active : peer[d] = m}
               a == [do |-> "leave", members |-> Top(w).members \ {m}]
               k == CHOOSE d \in c : TRUE
               b == [do |-> "closed", conn |-> k]
               S == {x \in Steps : \/ x.do = "leave"
                                   \/ x.do = "closed" /\ x.conn \notin alive'}
    <2>2. c \subseteq Conns /\ alive' = alive \ c /\ alive' \subseteq alive
      BY <1>1, <2>1, Zenon DEF Types
    <2>3. c \cap alive # {} => k \in c
      BY Zenon
    <2>4. a \in S /\ (c \cap alive # {} => b \in S)
      <3> HIDE DEF c, k
      <3>1. a \in Steps /\ a.do = "leave"
        BY <1>2, Zenon DEF Steps
      <3>2. c \cap alive # {} => b \in Steps /\ b.do = "closed" /\ b.conn \notin alive'
        BY <2>2, <2>3, Zenon DEF Steps
      <3> QED
        BY <3>1, <3>2
    <2>5. IF c \cap alive = {} THEN Then(w, <<a>>) ELSE Then(w, <<b>> \o <<a>>)
      BY <2>1
    <2>6. S \in SUBSET Steps
      OBVIOUS
    <2>7. /\ \A y \in S : y.do \in {"closed", "reregister"} => y.conn \notin alive'
          /\ \A y \in S : y.do # "invoke"
      OBVIOUS
    <2>8. \E steps \in Seq(S) : Then(w, steps)
      <3> HIDE DEF S, a, b, c
      <3>1. <<a>> \in Seq(S) /\ (c \cap alive # {} => <<b>> \in Seq(S))
        BY <2>4, Sequences, Zenon
      <3>2. c \cap alive # {} => <<b>> \o <<a>> \in Seq(S)
        BY <3>1
      <3> QED
        BY <2>5, <3>1, <3>2, Zenon
    <2> HIDE DEF S
    <2>9. PICK steps \in Seq(S) : Then(w, steps)
      BY <2>8
    <2>10. todo' \in [Workers -> Seq(Steps)] /\ Closing' /\ Registering' /\ OneViewSource'
      <3> HIDE DEF c
      <3> QED
        BY <1>1, <1>2, <1>3, <2>2, <2>6, <2>7, <2>9, Replacing, Zenon
    <2> QED
      BY <1>1, <1>3, <2>2, <2>10 DEF IInv, Types
  <1> QED
    BY <1>4, <1>5

\* What is sent on a connection is a view of the members of its cluster.
LEMMA ViewsAreViews ==
    ASSUME Types, NEW c \in Conns, peer[c] \in Members, NEW v \in Nat
    PROVE  Views(c, v) \subseteq View
  <1>1. ClusterOf(peer[c]) \in Clusters
    BY DEF Clusters
  <1>2. ViewOf(ClusterOf(peer[c]), v) \in SUBSET Members
    BY <1>1, Zenon DEF Types, Setting
  <1> QED
    BY <1>2 DEF Views, View

\* The member accepts the registration it was asked for.
LEMMA AcceptOk ==
    ASSUME IInv, NEW c \in Conns, Accept(c)
    PROVE  IInv'
  <1>1. Types /\ Closing /\ Registering /\ OneViewSource
    BY Zenon DEF IInv
  <1>2. /\ listener' = listener /\ asked' = asked \ {c} /\ accepted' = accepted \cup {c}
        /\ c \in asked /\ c \in Serving
        /\ alive' = alive /\ world' = world /\ table' = table /\ snapshot' = snapshot
        /\ peer' = peer /\ active' = active /\ todo' = todo
        /\ inbox' = inbox \cup Views(c, world[ClusterOf(peer[c])])
    BY DEF Accept, connVars, listVars
  <1>3. asked' \cup accepted' \subseteq asked \cup accepted /\ alive' \subseteq alive
    BY <1>2
  <1>4. peer[c] \in Members
    BY <1>1, <1>2 DEF Serving, Types
  <1>5. world[ClusterOf(peer[c])] \in Nat
    BY <1>1, <1>4 DEF Types, Clusters
  <1>6. Views(c, world[ClusterOf(peer[c])]) \subseteq View
    BY <1>1, <1>4, <1>5, ViewsAreViews
  <1>7. Closing' /\ Registering' /\ OneViewSource'
    BY <1>1, <1>2, <1>3, Outside, Zenon
  <1> QED
    BY <1>1, <1>2, <1>6, <1>7 DEF IInv, Types

\* The members or the partitions of a cluster change.
LEMMA ChangesOk ==
    ASSUME IInv, NEW k \in Clusters, ClusterChanges(k)
    PROVE  IInv'
  <1>1. Types /\ Closing /\ Registering /\ OneViewSource
    BY Zenon DEF IInv
  <1>2. /\ listener' = listener /\ asked' = asked /\ accepted' = accepted
        /\ alive' = alive /\ table' = table /\ snapshot' = snapshot
        /\ peer' = peer /\ active' = active /\ todo' = todo
        /\ world' = [world EXCEPT ![k] = @ + 1]
        /\ inbox' = inbox \cup UNION {Views(c, world'[k]) : c \in
                        {d \in accepted \cap alive : peer[d] \in ViewOf(k, world'[k])}}
    BY DEF ClusterChanges, connVars, listVars
  <1>3. asked' \cup accepted' \subseteq asked \cup accepted /\ alive' \subseteq alive
    BY <1>2, Zenon
  <1>4. world' \in [Clusters -> Nat] /\ world'[k] \in Nat
    BY <1>1, <1>2 DEF Types
  <1>5. ViewOf(k, world'[k]) \in SUBSET Members
    BY <1>1, <1>4, Zenon DEF Types, Setting
  <1>6. \A c \in accepted \cap alive : peer[c] \in ViewOf(k, world'[k]) => Views(c, world'[k]) \subseteq View
    BY <1>1, <1>4, <1>5, ViewsAreViews, Zenon DEF Types
  <1>7. inbox' \subseteq View
    BY <1>1, <1>2, <1>6 DEF Types
  <1>8. Closing' /\ Registering' /\ OneViewSource'
    BY <1>1, <1>2, <1>3, Outside, Zenon
  <1> QED
    BY <1>1, <1>2, <1>4, <1>7, <1>8 DEF IInv, Types

\* Views that are handled or lost, and registrations that fail.
LEMMA OthersOk ==
    ASSUME IInv,
           \/ \E e \in inbox : HandlePartitionsView(e) \/ ViewLost(e)
           \/ \E c \in Conns : RegistrationFails(c)
    PROVE  IInv'
  <1>1. Types /\ Closing /\ Registering /\ OneViewSource
    BY Zenon DEF IInv
  <1>2. /\ listener' = listener /\ asked' \subseteq asked /\ accepted' = accepted
        /\ alive' = alive /\ snapshot' = snapshot /\ inbox' \subseteq inbox /\ world' = world
        /\ peer' = peer /\ active' = active /\ todo' = todo
    BY DEF HandlePartitionsView, ViewLost, RegistrationFails, connVars, listVars
  <1>3. asked' \cup accepted' \subseteq asked \cup accepted /\ alive' \subseteq alive
    BY <1>2, Zenon
  <1>4. table' \in [conn : Conns \cup {NoConn}, version : Nat \cup {-1}]
    <2>1. table' = table \/ \E e \in View : table' = [conn |-> e.conn, version |-> e.version]
      BY <1>1 DEF HandlePartitionsView, ViewLost, RegistrationFails, listVars, Types
    <2> QED
      BY <1>1, <2>1 DEF Types, View
  <1>5. Closing' /\ Registering' /\ OneViewSource'
    BY <1>1, <1>2, <1>3, Outside, Zenon
  <1> QED
    BY <1>1, <1>2, <1>4, <1>5 DEF IInv, Types

\* Every step of the cluster view preserves the invariant.
LEMMA NextOk ==
    ASSUME IInv, [Next]_vars
    PROVE  IInv'
  <1>1. ASSUME NEW w \in Workers, WorkerStep(w)
        PROVE  IInv'
    BY <1>1, PutConnectionOk, CheckAliveOk, OnConnectionCloseOk, UnlockStateOk, TryRegisterOk,
       ClearVersionOk, ReregisterOk, InitialOk, ApplyViewOk, ClearListOk, CloseLeftOk,
       FireEventsOk, Zenon DEF WorkerStep
  <1>2. CASE UNCHANGED vars
    <2>1. /\ alive' = alive /\ peer' = peer /\ active' = active /\ listener' = listener
          /\ asked' = asked /\ accepted' = accepted /\ world' = world /\ inbox' = inbox
          /\ snapshot' = snapshot /\ table' = table /\ todo' = todo
      BY <1>2 DEF vars, connVars, serverVars, listVars
    <2>2. asked' \cup accepted' \subseteq asked \cup accepted /\ alive' \subseteq alive
      BY <2>1
    <2>3. Closing' /\ Registering' /\ OneViewSource'
      BY <2>1, <2>2, Outside, Zenon DEF IInv
    <2> QED
      BY <2>1, <2>3 DEF IInv, Types
  <1> QED
    BY <1>1, <1>2, OnAuthenticatedOk, SocketFailsOk, HandleMembersViewOk, OthersOk, AcceptOk,
       ChangesOk, Zenon DEF Next

-----------------------------------------------------------------------------
\* Whatever connections open and close, and in whatever order the threads of
\* the client get to on_connection_close and to the registration of the view
\* listener, at most the connection the cluster_view_listener names as its
\* source feeds the client with views.
THEOREM OneSourceOfViews ==
    ASSUME Setting
    PROVE  Spec => []OneViewSource
  <1>1. Init => IInv
    BY InitOk
  <1>2. IInv /\ [Next]_vars => IInv'
    BY NextOk
  <1>3. IInv => OneViewSource
    BY Zenon DEF IInv
  <1> QED
    BY <1>1, <1>2, <1>3, PTL DEF Spec

\* A step changes a version only upwards, or starts again.
LEMMA VersionsStep ==
    ASSUME Types, Next
    PROVE  /\ snapshot'.version >= snapshot.version \/ snapshot'.version = 0
           /\ table'.conn = table.conn => table'.version >= table.version
  <1>1. snapshot.version \in Int /\ table.version \in Int /\ snapshot.version >= -1
    BY DEF Types
  <1>2. ASSUME snapshot' = snapshot, table' = table
        PROVE  /\ snapshot'.version >= snapshot.version \/ snapshot'.version = 0
               /\ table'.conn = table.conn => table'.version >= table.version
    BY <1>1, <1>2
  <1>3. ASSUME NEW w \in Workers, WorkerStep(w)
        PROVE  /\ snapshot'.version >= snapshot.version \/ snapshot'.version = 0
               /\ table'.conn = table.conn => table'.version >= table.version
    <2>1. table' = table
      BY <1>3, Zenon DEF WorkerStep, PutConnection, CheckAlive, OnConnectionClose, UnlockState,
         try_register, clear_member_list_version, try_reregister_to_random_connection,
         apply_initial_state, ApplyView, clear_member_list, CloseConnectionOfLeft, fire_events,
         listVars
    <2>2. CASE clear_member_list_version(w)
      <3>1. snapshot' = snapshot \/ snapshot' = [snapshot EXCEPT !.version = 0]
        BY <2>2 DEF clear_member_list_version
      <3>2. snapshot'.version >= snapshot.version \/ snapshot'.version = 0
        BY <1>1, <3>1 DEF Types
      <3> QED
        BY <1>1, <2>1, <3>2
    <2>3. CASE apply_initial_state(w)
      <3>1. \/ snapshot' = snapshot
            \/ /\ snapshot = EMPTY_SNAPSHOT
               /\ snapshot' = [version |-> Top(w).view.version, members |-> Top(w).view.members]
        BY <2>3, Zenon DEF apply_initial_state
      <3>2. Top(w).view.version \in Nat
        BY <2>3, TopStep, Zenon DEF apply_initial_state, View
      <3>3. snapshot'.version >= snapshot.version
        BY <1>1, <3>1, <3>2 DEF EMPTY_SNAPSHOT
      <3> QED
        BY <1>1, <2>1, <3>3
    <2>4. CASE ApplyView(w)
      <3>1. \/ snapshot' = snapshot
            \/ /\ Top(w).view.version >= snapshot.version
               /\ snapshot' = [version |-> Top(w).view.version, members |-> Top(w).view.members]
        BY <2>4, Zenon DEF ApplyView
      <3>2. snapshot'.version >= snapshot.version
        BY <1>1, <3>1
      <3> QED
        BY <1>1, <2>1, <3>2
    <2>5. CASE clear_member_list(w)
      <3>1. snapshot'.version = 0
        BY <2>5 DEF clear_member_list
      <3> QED
        BY <1>1, <2>1, <3>1
    <2>6. CASE \/ PutConnection(w) \/ CheckAlive(w) \/ OnConnectionClose(w) \/ UnlockState(w)
               \/ try_register(w) \/ try_reregister_to_random_connection(w)
               \/ CloseConnectionOfLeft(w) \/ fire_events(w)
      <3>1. snapshot' = snapshot
        BY <2>6, Zenon DEF PutConnection, CheckAlive, OnConnectionClose, UnlockState, try_register,
           try_reregister_to_random_connection, CloseConnectionOfLeft, fire_events, listVars
      <3> QED
        BY <1>2, <2>1, <3>1
    <2> QED
      BY <1>3, <2>2, <2>3, <2>4, <2>5, <2>6, Zenon DEF WorkerStep
  <1>4. ASSUME NEW e \in inbox, HandlePartitionsView(e)
        PROVE  /\ snapshot'.version >= snapshot.version \/ snapshot'.version = 0
               /\ table'.conn = table.conn => table'.version >= table.version
    <2>1. e.version \in Nat
      BY Zenon DEF Types, View
    <2>2. /\ snapshot' = snapshot
          /\ \/ table' = table
             \/ /\ table.conn # e.conn \/ e.version > table.version
                /\ table' = [conn |-> e.conn, version |-> e.version]
      BY <1>4 DEF HandlePartitionsView, should_be_applied
    <2> QED
      BY <1>1, <2>1, <2>2
  <1>5. CASE \/ \E w \in Workers, c \in Conns, m \in Members : OnAuthenticated(w, c, m)
             \/ \E w \in Workers, c \in Conns : SocketFails(w, c)
             \/ \E w \in Workers, e \in inbox : HandleMembersView(w, e)
             \/ \E e \in inbox : ViewLost(e)
             \/ \E c \in Conns : Accept(c) \/ RegistrationFails(c)
             \/ \E k \in Clusters : ClusterChanges(k)
    <2>1. snapshot' = snapshot /\ table' = table
      BY <1>5, Zenon DEF OnAuthenticated, SocketFails, HandleMembersView, ViewLost, Accept,
         RegistrationFails, ClusterChanges, listVars
    <2> QED
      BY <1>2, <2>1
  <1> QED
    BY <1>3, <1>4, <1>5, Zenon DEF Next

\* The version of the member list falls only by a reset to zero, and that of
\* the partition table does not fall while the views come from one connection:
\* check_and_apply and handle_event do not replace a view by an older one.
THEOREM VersionsKept ==
    ASSUME Setting
    PROVE  Spec => VersionsNeverFall
  <1>1. Init => IInv
    BY InitOk
  <1>2. IInv /\ [Next]_vars => IInv'
    BY NextOk
  <1>3. IInv /\ [Next]_vars =>
           [/\ snapshot'.version >= snapshot.version \/ snapshot'.version = 0
            /\ table'.conn = table.conn => table'.version >= table.version]_vars
    BY VersionsStep DEF IInv
  <1> QED
    BY <1>1, <1>2, <1>3, PTL DEF Spec, VersionsNeverFall

-----------------------------------------------------------------------------
(***************************************************************************)
(* The PN counter.                                                         *)
(***************************************************************************)
CONSTANTS Callers, Replicas, MaxAdds, MaxCalls, MaxFaults

VARIABLES state, up, target, observed, c, received, calls, faults

\* The PN counter's client side.
Counter == INSTANCE PNCounter

INSTANCE FiniteSetTheorems

\* A vector clock counts the updates of each replica.
CounterVClocks == [Replicas -> Nat]

\* What a call knows of its target and of the clocks, by how far it is: the
\* clock that was loaded and compared is not after the answer's.
CounterCall(x) ==
    /\ x.pc = "chosen" => x.target \in Replicas \cup {Counter!NoReplica}
    /\ x.pc \in {"sent", "answered", "failed"} => x.target \in Replicas
    /\ x.pc \in {"sent", "answered", "again", "compared"} => x.clock \in CounterVClocks
    /\ x.pc = "compared" => x.current \in CounterVClocks /\ ~Counter!is_after(x.current, x.clock)

\* The types of the state.
CounterTypes ==
    /\ state \in [Replicas -> CounterVClocks] /\ up \subseteq Replicas
    /\ target \in Replicas \cup {Counter!NoReplica}
    /\ observed \in CounterVClocks /\ received \subseteq CounterVClocks
    /\ DOMAIN c = Callers
    /\ \A i \in Callers : CounterCall(c[i])

\* The observed clock is that of an answer.
CounterObserved == observed \in received \cup {Counter!NewClock}

\* The inductive invariant.
CounterIInv == CounterTypes /\ CounterObserved /\ Counter!SessionKept

\* For calls one after the other: the request under way carries the observed
\* clock, its answer is ahead of it, and nothing stored since it was compared.
CounterCarried ==
    \A i \in Callers :
        /\ c[i].pc = "sent" => c[i].clock = observed
        /\ c[i].pc \in {"answered", "again", "compared"} => Counter!Covers(c[i].clock, observed)

-----------------------------------------------------------------------------
\* Clocks

\* The count of an instance of FiniteSets is that of the library's theorems.
LEMMA CounterCounting ==
    ASSUME NEW S
    PROVE  Counter!Cardinality(S) = Cardinality(S)
  BY Zenon DEF Counter!Cardinality, Cardinality

\* The clock of a proxy that has seen nothing, which every clock covers.
LEMMA CounterNew ==
    /\ Counter!NewClock \in CounterVClocks
    /\ \A v \in CounterVClocks : Counter!Covers(v, Counter!NewClock)
  BY DEF Counter!NewClock, CounterVClocks, Counter!Covers

\* The join of two clocks is a clock.
LEMMA CounterJoined ==
    ASSUME NEW v \in CounterVClocks, NEW w \in CounterVClocks
    PROVE  Counter!Join(v, w) \in CounterVClocks
  BY DEF Counter!Join, CounterVClocks

\* Covering is transitive, and a clock covers itself.
LEMMA CounterCoversTransitive ==
    ASSUME NEW u \in CounterVClocks, NEW v \in CounterVClocks, NEW w \in CounterVClocks,
           Counter!Covers(u, v), Counter!Covers(v, w)
    PROVE  Counter!Covers(u, w) /\ Counter!Covers(u, u)
  BY DEF Counter!Covers, CounterVClocks

\* vector_clock::is_after looks at the entries the other clock has; those it has
\* not are zero.
LEMMA CounterAfterCovers ==
    ASSUME NEW v \in CounterVClocks, NEW w \in CounterVClocks, Counter!is_after(v, w)
    PROVE  Counter!Covers(v, w)
  BY DEF Counter!is_after, Counter!Covers, CounterVClocks, Counter!Entries

\* It misses no clock that is after the other: one with a greater entry that
\* the other lacks has more entries.
LEMMA CounterNotAfter ==
    ASSUME IsFiniteSet(Replicas), NEW v \in CounterVClocks, NEW w \in CounterVClocks,
           Counter!Covers(v, w), ~Counter!is_after(v, w)
    PROVE  Counter!Covers(w, v)
  <1>1. SUFFICES ASSUME NEW r \in Replicas, v[r] > w[r] PROVE FALSE
    BY DEF Counter!Covers, CounterVClocks
  <1>2. \A s \in Counter!Entries(w) : v[s] >= w[s]
    BY DEF Counter!Covers, Counter!Entries
  <1>3. r \notin Counter!Entries(w)
    BY <1>1, <1>2, Zenon DEF Counter!is_after
  <1>4. Counter!Entries(w) \subseteq Counter!Entries(v) /\ r \in Counter!Entries(v)
    BY <1>1 DEF Counter!Covers, Counter!Entries, CounterVClocks
  <1>5. IsFiniteSet(Counter!Entries(v))
    BY FS_Subset, Counter!Entries(v) \subseteq Replicas DEF Counter!Entries
  <1>6. /\ Cardinality(Counter!Entries(w)) \in Nat /\ Cardinality(Counter!Entries(v)) \in Nat
        /\ Cardinality(Counter!Entries(w)) =< Cardinality(Counter!Entries(v))
        /\ Cardinality(Counter!Entries(w)) # Cardinality(Counter!Entries(v))
    <2>1. IsFiniteSet(Counter!Entries(w))
      BY <1>4, <1>5, FS_Subset, Zenon
    <2> QED
      BY <1>3, <1>4, <1>5, <2>1, FS_Subset, FS_CardinalityType, Zenon
  <1>7. Cardinality(Counter!Entries(w)) < Cardinality(Counter!Entries(v))
    BY <1>6
  <1> QED
    BY <1>2, <1>7, CounterCounting, Zenon DEF Counter!is_after

-----------------------------------------------------------------------------
\* The steps, for any calls under way

\* The invariant holds before the first call.
LEMMA CounterInitOk == Counter!Init => CounterIInv
  <1> SUFFICES ASSUME Counter!Init PROVE CounterIInv
    OBVIOUS
  <1>1. \A i \in Callers : c[i].pc = "idle"
    BY DEF Counter!Init, Counter!Idle
  <1>2. \A i \in Callers : CounterCall(c[i])
    BY <1>1 DEF CounterCall
  <1>3. state \in [Replicas -> CounterVClocks] /\ DOMAIN c = Callers
    BY CounterNew DEF Counter!Init
  <1>4. CounterTypes
    BY <1>2, <1>3, CounterNew, Zenon DEF Counter!Init, CounterTypes
  <1> QED
    BY <1>4, Zenon DEF CounterIInv, CounterObserved, Counter!Init, Counter!SessionKept, Counter!SessionGuarantee

\* What a caller turns into is all that changes of c.
LEMMA CounterBecoming ==
    ASSUME CounterTypes, NEW i \in Callers, NEW x, Counter!Become(i, x), CounterCall(x),
           state' \in [Replicas -> CounterVClocks], up' \subseteq Replicas,
           target' \in Replicas \cup {Counter!NoReplica},
           observed' \in CounterVClocks, received' \subseteq CounterVClocks
    PROVE  CounterTypes' /\ c'[i] = x
  <1>1. DOMAIN c' = Callers /\ c'[i] = x /\ \A j \in Callers \ {i} : c'[j] = c[j]
    BY DEF Counter!Become, CounterTypes
  <1>2. ASSUME NEW j \in Callers PROVE CounterCall(c'[j])
    BY <1>1, Zenon DEF CounterTypes
  <1> QED
    BY <1>1, <1>2, Zenon DEF CounterTypes, CounterCall

\* A step that leaves the observed clock and the answers alone.
LEMMA CounterAside ==
    ASSUME CounterIInv, CounterTypes', observed' = observed, received' = received
    PROVE  CounterIInv'
  BY Zenon DEF CounterIInv, CounterObserved, Counter!SessionKept, Counter!SessionGuarantee

\* A replica takes over the updates of another.
LEMMA CounterReplicateOk ==
    ASSUME CounterIInv, NEW r \in Replicas, NEW s \in Replicas, Counter!Replicate(r, s)
    PROVE  CounterIInv'
  <1>1. CounterTypes
    BY DEF CounterIInv
  <1>2. /\ up' = up /\ target' = target /\ observed' = observed /\ c' = c /\ received' = received
        /\ state' = [state EXCEPT ![s] = Counter!Join(state[r], state[s])]
    BY DEF Counter!Replicate
  <1>3. state[r] \in CounterVClocks /\ state[s] \in CounterVClocks
    BY <1>1 DEF CounterTypes
  <1>4. state' \in [Replicas -> CounterVClocks]
    BY <1>1, <1>2, <1>3, CounterJoined, Zenon DEF CounterTypes
  <1>5. CounterTypes'
    BY <1>1, <1>2, <1>4, Zenon DEF CounterTypes, CounterCall
  <1> QED
    BY <1>2, <1>5, CounterAside

\* A replica that crashes leaves the observed clock alone.
LEMMA CounterCrashOk ==
    ASSUME CounterIInv, NEW r \in Replicas, Counter!Crash(r)
    PROVE  CounterIInv'
  <1>1. CounterTypes'
    BY DEF CounterIInv, CounterTypes, CounterCall, Counter!Crash
  <1> QED
    BY <1>1, CounterAside DEF Counter!Crash

\* A replica that serves a request answers with a clock that covers the
\* request's; one that is behind refuses.
LEMMA CounterServeOk ==
    ASSUME CounterIInv, NEW i \in Callers, Counter!Serve(i)
    PROVE  /\ CounterIInv' /\ c[i].pc = "sent" /\ c'[i].pc \in {"answered", "failed"}
           /\ c'[i].pc = "answered" => Counter!Covers(c'[i].clock, c[i].clock)
  <1> DEFINE r == c[i].target
  <1>1. CounterTypes
    BY Zenon DEF CounterIInv
  <1>2. /\ up' = up /\ target' = target /\ observed' = observed /\ received' = received
        /\ c[i].pc = "sent" /\ r \in Replicas /\ c[i].clock \in CounterVClocks
    BY <1>1 DEF Counter!Serve, Counter!At, CounterTypes, CounterCall
  <1>3. state[r] \in CounterVClocks /\ state[r][r] \in Nat
    BY <1>1, <1>2 DEF CounterTypes, CounterVClocks
  <1>4. CASE Counter!Covers(state[r], c[i].clock)
    <2>1. PICK add \in {0, 1} :
             /\ state' = [state EXCEPT ![r][r] = @ + add]
             /\ Counter!Become(i, [pc |-> "answered", target |-> r, clock |-> state'[r]])
      BY <1>4, Zenon DEF Counter!Serve
    <2>2. /\ state' \in [Replicas -> CounterVClocks] /\ state'[r] \in CounterVClocks
          /\ Counter!Covers(state'[r], state[r])
      <3>1. /\ state'[r] = [state[r] EXCEPT ![r] = state[r][r] + add]
            /\ \A s \in Replicas \ {r} : state'[s] = state[s]
            /\ DOMAIN state' = Replicas /\ state' = [s \in Replicas |-> state'[s]]
        BY <1>1, <1>2, <2>1, Zenon DEF CounterTypes
      <3>2. state'[r] \in CounterVClocks /\ Counter!Covers(state'[r], state[r])
        BY <1>2, <1>3, <3>1 DEF CounterVClocks, Counter!Covers
      <3>3. \A s \in Replicas : state'[s] \in CounterVClocks
        BY <1>1, <3>1, <3>2 DEF CounterTypes
      <3> QED
        BY <3>1, <3>2, <3>3
    <2>3. Counter!Covers(state'[r], c[i].clock)
      BY <1>2, <1>3, <1>4, <2>2, CounterCoversTransitive, Zenon
    <2> DEFINE x == [pc |-> "answered", target |-> r, clock |-> state'[r]]
    <2>4. CounterCall(x) /\ x.pc = "answered" /\ x.clock = state'[r]
      BY <1>2, <2>2 DEF CounterCall
    <2> HIDE DEF x
    <2>5. Counter!Become(i, x)
      BY <2>1 DEF x
    <2>6. CounterTypes' /\ c'[i] = x
      BY <1>1, <1>2, <2>2, <2>4, <2>5, CounterBecoming, Zenon DEF CounterTypes
    <2> QED
      BY <1>2, <2>3, <2>4, <2>6, CounterAside
  <1>5. CASE ~Counter!Covers(state[r], c[i].clock)
    <2> DEFINE x == [pc |-> "failed", target |-> r]
    <2>1. state' = state /\ Counter!Become(i, x)
      BY <1>5, Zenon DEF Counter!Serve
    <2>2. CounterCall(x) /\ x.pc = "failed"
      BY <1>2 DEF CounterCall
    <2> HIDE DEF x
    <2>3. CounterTypes' /\ c'[i] = x
      BY <1>1, <1>2, <2>1, <2>2, CounterBecoming, Zenon DEF CounterTypes
    <2> QED
      BY <1>2, <2>2, <2>3, CounterAside
  <1> QED
    BY <1>4, <1>5

\* A call that failed leaves the observed clock alone.
LEMMA CounterFailedOk ==
    ASSUME CounterIInv, NEW i \in Callers, Counter!Lost(i) \/ Counter!Unreachable(i)
    PROVE  CounterIInv' /\ c'[i].pc = "failed" /\ observed' = observed /\ received' = received
  <1> DEFINE x == [pc |-> "failed", target |-> c[i].target]
  <1>1. CounterTypes
    BY Zenon DEF CounterIInv
  <1>2. /\ state' = state /\ up' = up /\ target' = target /\ observed' = observed
        /\ received' = received /\ Counter!Become(i, x) /\ c[i].pc \in {"sent", "answered"}
    BY Zenon DEF Counter!Lost, Counter!Unreachable, Counter!At
  <1>3. CounterCall(x) /\ x.pc = "failed"
    BY <1>1, <1>2 DEF CounterTypes, CounterCall
  <1> HIDE DEF x
  <1>4. CounterTypes' /\ c'[i] = x
    BY <1>1, <1>2, <1>3, CounterBecoming, Zenon DEF CounterTypes
  <1> QED
    BY <1>2, <1>3, <1>4, CounterAside, Zenon

\* A call looks for a target: it is a replica or none.
LEMMA CounterChosenOk ==
    ASSUME CounterIInv, NEW i \in Callers,
           \/ Counter!Call(i) \/ Counter!TryChooseANewTarget(i)
           \/ Counter!SelectTarget(i) \/ Counter!ReturnTarget(i)
    PROVE  /\ CounterIInv' /\ c'[i].pc \in {"choosing", "selected", "chosen"}
           /\ observed' = observed /\ received' = received
  <1> DEFINE choosing(E) == [pc |-> "choosing", excluded |-> E]
             selected == [pc |-> "selected"]
             chosen == [pc |-> "chosen", target |-> target]
  <1>1. CounterTypes
    BY DEF CounterIInv
  <1>2. state' = state /\ up' = up /\ observed' = observed /\ received' = received
    BY Zenon DEF Counter!Call, Counter!TryChooseANewTarget, Counter!SelectTarget, Counter!ReturnTarget
  <1>3. target' \in Replicas \cup {Counter!NoReplica}
    BY <1>1 DEF CounterTypes, Counter!Call, Counter!TryChooseANewTarget, Counter!SelectTarget,
                Counter!ReturnTarget, Counter!get_crdt_operation_target, Counter!ChooseTargetReplica
  <1>4. PICK x : Counter!Become(i, x) /\ CounterCall(x) /\ x.pc \in {"choosing", "selected", "chosen"}
    <2>1. ASSUME NEW E PROVE CounterCall(choosing(E)) /\ choosing(E).pc = "choosing"
      BY DEF CounterCall
    <2>2. CounterCall(selected) /\ selected.pc = "selected" /\ CounterCall(chosen) /\ chosen.pc = "chosen"
      BY <1>1 DEF CounterCall, CounterTypes
    <2> HIDE DEF choosing, selected, chosen
    <2>3. ASSUME NEW E, Counter!get_crdt_operation_target(i, E)
          PROVE  Counter!Become(i, choosing(E)) \/ Counter!Become(i, chosen)
      BY <2>3, Zenon DEF Counter!get_crdt_operation_target, choosing, chosen
    <2>4. \/ \E E : Counter!get_crdt_operation_target(i, E)
          \/ Counter!Become(i, selected) \/ Counter!Become(i, chosen)
      BY Zenon DEF Counter!Call, Counter!TryChooseANewTarget, Counter!SelectTarget, Counter!ReturnTarget,
                   selected, chosen
    <2> QED
      BY <2>1, <2>2, <2>3, <2>4
  <1>5. CounterTypes' /\ c'[i] = x
    BY <1>1, <1>2, <1>3, <1>4, CounterBecoming, Zenon DEF CounterTypes
  <1> QED
    BY <1>2, <1>4, <1>5, CounterAside, Zenon

\* The request goes out with the clock observed last.
LEMMA CounterInvokeOk ==
    ASSUME CounterIInv, NEW i \in Callers, Counter!Invoke(i)
    PROVE  /\ CounterIInv' /\ c'[i].pc \in {"idle", "sent"}
           /\ c'[i].pc = "sent" => c'[i].clock = observed
           /\ observed' = observed /\ received' = received
  <1>1. CounterTypes
    BY DEF CounterIInv
  <1>2. /\ state' = state /\ up' = up /\ target' = target /\ observed' = observed /\ received' = received
    BY Zenon DEF Counter!Invoke
  <1>3. PICK x : /\ Counter!Become(i, x) /\ CounterCall(x) /\ x.pc \in {"idle", "sent"}
                 /\ x.pc = "sent" => x.clock = observed
    <2> DEFINE sent == [pc |-> "sent", target |-> c[i].target, clock |-> observed]
    <2>1. CounterCall(Counter!Idle) /\ Counter!Idle.pc = "idle"
      BY DEF CounterCall, Counter!Idle
    <2>2. c[i].target # Counter!NoReplica => CounterCall(sent)
      BY <1>1 DEF CounterCall, CounterTypes, Counter!Invoke, Counter!At
    <2>3. sent.pc = "sent" /\ sent.clock = observed
      OBVIOUS
    <2>4. Counter!Become(i, IF c[i].target = Counter!NoReplica THEN Counter!Idle ELSE sent)
      BY Zenon DEF Counter!Invoke
    <2> HIDE DEF sent
    <2>5. CASE c[i].target = Counter!NoReplica
      BY <2>1, <2>4, <2>5
    <2>6. CASE c[i].target # Counter!NoReplica
      BY <2>2, <2>3, <2>4, <2>6
    <2> QED
      BY <2>5, <2>6, Zenon
  <1>4. CounterTypes' /\ c'[i] = x
    BY <1>1, <1>2, <1>3, CounterBecoming, Zenon DEF CounterTypes
  <1> QED
    BY <1>2, <1>3, <1>4, CounterAside, Zenon

\* A turn of the loop of update_observed_replica_timestamps: an answer that the
\* observed clock is after is covered, the others are to be stored.
LEMMA CounterUpdateOk ==
    ASSUME CounterIInv, NEW i \in Callers, Counter!update_observed_replica_timestamps(i)
    PROVE  /\ CounterIInv' /\ c[i].pc \in {"answered", "again"} /\ observed' = observed
           /\ \/ /\ received' = received \cup {c[i].clock} /\ c'[i].pc = "idle"
                 /\ Counter!Covers(observed, c[i].clock)
              \/ received' = received /\ c'[i].pc = "compared" /\ c'[i].clock = c[i].clock
  <1>1. CounterTypes /\ CounterObserved /\ Counter!SessionKept
    BY Zenon DEF CounterIInv
  <1>2. /\ state' = state /\ up' = up /\ target' = target /\ observed' = observed
        /\ c[i].pc \in {"answered", "again"}
    BY Zenon DEF Counter!update_observed_replica_timestamps
  <1>3. observed \in CounterVClocks /\ c[i].clock \in CounterVClocks
    BY <1>1, <1>2 DEF CounterTypes, CounterCall
  <1>4. CASE Counter!is_after(observed, c[i].clock)
    <2>1. received' = received \cup {c[i].clock} /\ Counter!Become(i, Counter!Idle)
      BY <1>4, Zenon DEF Counter!update_observed_replica_timestamps, Counter!Updated
    <2>2. CounterCall(Counter!Idle) /\ Counter!Idle.pc = "idle"
      BY DEF CounterCall, Counter!Idle
    <2>3. received' \subseteq CounterVClocks
      BY <1>1, <1>3, <2>1 DEF CounterTypes
    <2>4. CounterTypes' /\ c'[i] = Counter!Idle
      BY <1>1, <1>2, <2>1, <2>2, <2>3, CounterBecoming, Zenon DEF CounterTypes
    <2>5. Counter!Covers(observed, c[i].clock)
      BY <1>3, <1>4, CounterAfterCovers
    <2>6. CounterObserved'
      BY <1>1, <1>2, <2>1, Zenon DEF CounterObserved
    <2>7. Counter!SessionKept'
      BY <1>1, <1>2, <2>1, <2>5, Zenon DEF Counter!SessionKept, Counter!SessionGuarantee
    <2> QED
      BY <1>2, <2>1, <2>2, <2>4, <2>5, <2>6, <2>7, Zenon DEF CounterIInv
  <1>5. CASE ~Counter!is_after(observed, c[i].clock)
    <2> DEFINE x == [pc |-> "compared", clock |-> c[i].clock, current |-> observed]
    <2>1. received' = received /\ Counter!Become(i, x)
      BY <1>5, Zenon DEF Counter!update_observed_replica_timestamps
    <2>2. x.pc = "compared" /\ x.clock = c[i].clock /\ x.current = observed
      OBVIOUS
    <2> HIDE DEF x
    <2>3. CounterCall(x)
      BY <1>3, <1>5, <2>2 DEF CounterCall
    <2>4. CounterTypes' /\ c'[i] = x
      BY <1>1, <1>2, <2>1, <2>3, CounterBecoming, Zenon DEF CounterTypes
    <2> QED
      BY <1>2, <2>1, <2>2, <2>4, CounterAside, Zenon
  <1> QED
    BY <1>4, <1>5

\* compare_and_set stores an answer that the clock it replaces is not after:
\* unless the two are concurrent, the answer covers that clock.
LEMMA CounterSetOk ==
    ASSUME IsFiniteSet(Replicas), CounterIInv, NEW i \in Callers, Counter!CompareAndSet(i)
    PROVE  /\ CounterIInv' /\ c[i].pc = "compared"
           /\ \/ /\ received' = received \cup {c[i].clock} /\ c'[i].pc = "idle"
                 /\ observed' = c[i].clock
              \/ /\ received' = received /\ c'[i].pc = "again" /\ c'[i].clock = c[i].clock
                 /\ observed' = observed
  <1>1. CounterTypes /\ CounterObserved /\ Counter!SessionKept
    BY Zenon DEF CounterIInv
  <1>2. state' = state /\ up' = up /\ target' = target /\ c[i].pc = "compared"
    BY Zenon DEF Counter!CompareAndSet, Counter!At
  <1>3. PICK clock \in CounterVClocks :
           clock = c[i].clock /\ ~Counter!is_after(c[i].current, clock)
    BY <1>1, <1>2 DEF CounterTypes, CounterCall
  <1>4. CASE observed = c[i].current
    <2>1. /\ observed' = clock /\ received' = received \cup {clock}
          /\ Counter!Become(i, Counter!Idle)
      BY <1>3, <1>4, Zenon DEF Counter!CompareAndSet, Counter!Updated
    <2>2. CounterCall(Counter!Idle) /\ Counter!Idle.pc = "idle"
      BY DEF CounterCall, Counter!Idle
    <2>3. received' \subseteq CounterVClocks
      BY <1>1, <1>3, <2>1 DEF CounterTypes
    <2>4. CounterTypes' /\ c'[i] = Counter!Idle
      BY <1>1, <1>2, <2>1, <2>2, <2>3, CounterBecoming, Zenon DEF CounterTypes
    <2>5. CounterObserved'
      BY <2>1, Zenon DEF CounterObserved
    <2>6. Counter!SessionKept'
      <3>1. SUFFICES ASSUME \A v, w \in received' : Counter!Covers(v, w) \/ Counter!Covers(w, v)
                     PROVE  \A w \in received' : Counter!Covers(clock, w)
        BY <2>1, Zenon DEF Counter!SessionKept, Counter!SessionGuarantee
      <3>2. \A w \in received : Counter!Covers(observed, w)
        BY <1>1, <2>1, <3>1, Zenon DEF Counter!SessionKept, Counter!SessionGuarantee
      <3>3. observed \in CounterVClocks
        BY <1>1 DEF CounterTypes
      <3>4. Counter!Covers(clock, observed) \/ Counter!Covers(observed, clock)
        BY <1>1, <1>3, <2>1, <3>1, CounterNew, Zenon DEF CounterObserved
      <3>5. Counter!Covers(clock, observed)
        BY <1>3, <1>4, <3>3, <3>4, CounterNotAfter, Zenon
      <3>6. ASSUME NEW w \in received PROVE Counter!Covers(clock, w)
        BY <1>1, <3>2, <3>3, <3>5, CounterCoversTransitive DEF CounterTypes
      <3>7. Counter!Covers(clock, clock)
        BY DEF Counter!Covers, CounterVClocks
      <3> QED
        BY <2>1, <3>6, <3>7, Zenon
    <2> QED
      BY <1>2, <1>3, <2>1, <2>2, <2>4, <2>5, <2>6, Zenon DEF CounterIInv
  <1>5. CASE observed # c[i].current
    <2> DEFINE x == [pc |-> "again", clock |-> clock]
    <2>1. observed' = observed /\ received' = received /\ Counter!Become(i, x)
      BY <1>3, <1>5, Zenon DEF Counter!CompareAndSet
    <2>2. x.pc = "again" /\ x.clock = clock /\ CounterCall(x)
      BY DEF CounterCall
    <2> HIDE DEF x
    <2>3. CounterTypes' /\ c'[i] = x
      BY <1>1, <1>2, <2>1, <2>2, CounterBecoming, Zenon DEF CounterTypes
    <2> QED
      BY <1>2, <1>3, <2>1, <2>2, <2>3, CounterAside, Zenon
  <1> QED
    BY <1>4, <1>5

\* reset() forgets the observed clock, and the session with it.
LEMMA CounterResetOk ==
    ASSUME CounterIInv, NEW i \in Callers, Counter!Reset(i)
    PROVE  CounterIInv' /\ c' = c /\ c[i].pc = "idle" /\ received' = {}
  <1>1. CounterTypes
    BY Zenon DEF CounterIInv
  <1>2. /\ state' = state /\ up' = up /\ target' = target /\ c' = c
        /\ observed' = Counter!NewClock /\ received' = {} /\ c[i].pc = "idle"
    BY Zenon DEF Counter!Reset, Counter!At
  <1>3. CounterTypes'
    BY <1>1, <1>2, CounterNew DEF CounterTypes, CounterCall
  <1>4. CounterObserved' /\ Counter!SessionKept'
    BY <1>2, Zenon DEF CounterObserved, Counter!SessionKept, Counter!SessionGuarantee
  <1> QED
    BY <1>2, <1>3, <1>4 DEF CounterIInv

\* A step that changes nothing.
LEMMA CounterStutterOk ==
    ASSUME CounterIInv, UNCHANGED Counter!vars
    PROVE  CounterIInv'
  <1>1. CounterTypes'
    BY DEF CounterIInv, CounterTypes, CounterCall, Counter!vars
  <1> QED
    BY <1>1, CounterAside DEF Counter!vars

\* Every step keeps the invariant.
LEMMA CounterNextOk ==
    ASSUME IsFiniteSet(Replicas), CounterIInv, [Counter!Next]_(Counter!vars)
    PROVE  CounterIInv'
  BY CounterReplicateOk, CounterCrashOk, CounterServeOk, CounterFailedOk, CounterChosenOk,
     CounterInvokeOk, CounterUpdateOk, CounterSetOk, CounterResetOk, CounterStutterOk, Zenon
     DEF Counter!Next, Counter!Step

\* For any replicas and any calls under way at once: unless two of the answers
\* since the last reset() are concurrent, the clock of the next request covers
\* them all, in whatever order update_observed_replica_timestamps takes them and
\* whatever its compare_and_set meets.
THEOREM CounterSessionIsKept ==
    ASSUME IsFiniteSet(Replicas)
    PROVE  Counter!Spec => []Counter!SessionKept
  <1>1. Counter!Init => CounterIInv
    BY CounterInitOk
  <1>2. CounterIInv /\ [Counter!Next]_(Counter!vars) => CounterIInv'
    BY CounterNextOk
  <1>3. CounterIInv => Counter!SessionKept
    BY DEF CounterIInv
  <1> QED
    BY <1>1, <1>2, <1>3, PTL DEF Counter!Spec

-----------------------------------------------------------------------------
\* Calls one after the other

\* Every step of the one caller keeps the session guarantee: nothing is stored
\* between its request and its answer.
LEMMA CounterOneOk ==
    ASSUME IsFiniteSet(Replicas), NEW i, Callers = {i}, CounterIInv, CounterCarried,
           Counter!SessionGuarantee, [Counter!Next]_(Counter!vars)
    PROVE  CounterCarried' /\ Counter!SessionGuarantee'
  <1>1. i \in Callers /\ CounterTypes
    BY DEF CounterIInv
  <1>2. /\ c[i].pc = "sent" => c[i].clock = observed
        /\ c[i].pc \in {"answered", "again", "compared"} => Counter!Covers(c[i].clock, observed)
    BY <1>1, Zenon DEF CounterCarried
  <1>3. observed \in CounterVClocks /\ received \subseteq CounterVClocks
    BY <1>1 DEF CounterTypes
  <1>4. SUFFICES /\ c'[i].pc = "sent" => c'[i].clock = observed'
                 /\ c'[i].pc \in {"answered", "again", "compared"} => Counter!Covers(c'[i].clock, observed')
                 /\ \A w \in received' : Counter!Covers(observed', w)
    BY Zenon DEF CounterCarried, Counter!SessionGuarantee
  <1>5. \A w \in received : Counter!Covers(observed, w)
    BY DEF Counter!SessionGuarantee
  <1>6. ASSUME c' = c, observed' = observed, received' = received
        PROVE  /\ c'[i].pc = "sent" => c'[i].clock = observed'
               /\ c'[i].pc \in {"answered", "again", "compared"} => Counter!Covers(c'[i].clock, observed')
               /\ \A w \in received' : Counter!Covers(observed', w)
    BY <1>2, <1>5, <1>6, Zenon
  <1>7. CASE \/ UNCHANGED Counter!vars
             \/ \E r, s \in Replicas : Counter!Replicate(r, s)
             \/ \E r \in Replicas : Counter!Crash(r)
    BY <1>6, <1>7, Zenon DEF Counter!vars, Counter!Replicate, Counter!Crash
  <1>8. CASE \/ Counter!Call(i) \/ Counter!TryChooseANewTarget(i)
             \/ Counter!SelectTarget(i) \/ Counter!ReturnTarget(i)
             \/ Counter!Lost(i) \/ Counter!Unreachable(i)
    <2>1. c'[i].pc \in {"choosing", "selected", "chosen", "failed"} /\ observed' = observed /\ received' = received
      BY <1>1, <1>8, CounterChosenOk, CounterFailedOk, Zenon
    <2> QED
      BY <1>5, <2>1
  <1>9. CASE Counter!Serve(i)
    <2>1. /\ c[i].pc = "sent" /\ c'[i].pc \in {"answered", "failed"}
          /\ c'[i].pc = "answered" => Counter!Covers(c'[i].clock, c[i].clock)
      BY <1>1, <1>9, CounterServeOk, Zenon
    <2>2. observed' = observed /\ received' = received
      BY <1>9, Zenon DEF Counter!Serve
    <2> QED
      BY <1>2, <1>5, <2>1, <2>2
  <1>10. CASE Counter!Invoke(i)
    <2>1. /\ c'[i].pc \in {"idle", "sent"} /\ observed' = observed /\ received' = received
          /\ c'[i].pc = "sent" => c'[i].clock = observed
      BY <1>1, <1>10, CounterInvokeOk, Zenon
    <2> QED
      BY <1>5, <2>1
  <1>11. CASE Counter!update_observed_replica_timestamps(i)
    <2>1. /\ c[i].pc \in {"answered", "again"} /\ observed' = observed
          /\ \/ /\ received' = received \cup {c[i].clock} /\ c'[i].pc = "idle"
                /\ Counter!Covers(observed, c[i].clock)
             \/ received' = received /\ c'[i].pc = "compared" /\ c'[i].clock = c[i].clock
      BY <1>1, <1>11, CounterUpdateOk, Zenon
    <2> QED
      BY <1>2, <1>5, <2>1
  <1>12. CASE Counter!CompareAndSet(i)
    <2>1. /\ c[i].pc = "compared"
          /\ \/ /\ received' = received \cup {c[i].clock} /\ c'[i].pc = "idle"
                /\ observed' = c[i].clock
             \/ /\ received' = received /\ c'[i].pc = "again" /\ c'[i].clock = c[i].clock
                /\ observed' = observed
      BY <1>1, <1>12, CounterSetOk, Zenon
    <2>2. c[i].clock \in CounterVClocks /\ Counter!Covers(c[i].clock, observed)
      BY <1>1, <1>2, <2>1 DEF CounterTypes, CounterCall
    <2>3. \A w \in received \cup {c[i].clock} : Counter!Covers(c[i].clock, w)
      <3>1. Counter!Covers(c[i].clock, c[i].clock)
        BY <2>2 DEF Counter!Covers, CounterVClocks
      <3> QED
        BY <1>3, <1>5, <2>2, <3>1, CounterCoversTransitive, SMTT(20)
    <2> QED
      BY <1>2, <1>5, <2>1, <2>3
  <1>13. CASE Counter!Reset(i)
    <2>1. c'[i].pc = "idle" /\ received' = {}
      BY <1>1, <1>13, CounterResetOk, Zenon
    <2> QED
      BY <2>1
  <1> QED
    BY <1>1, <1>7, <1>8, <1>9, <1>10, <1>11, <1>12, <1>13, Zenon DEF Counter!Next, Counter!Step

\* "The read and write methods provide monotonic read and RYW (read-your-write)
\* guarantees" (pn_counter.h): for calls one after the other they do, with no
\* condition on the answers.
THEOREM CounterSessionOfOne ==
    ASSUME IsFiniteSet(Replicas), NEW i, Callers = {i}
    PROVE  Counter!Spec => []Counter!SessionGuarantee
  <1> DEFINE Inv == CounterIInv /\ CounterCarried /\ Counter!SessionGuarantee
  <1>1. Counter!Init => Inv
    <2> SUFFICES ASSUME Counter!Init PROVE Inv
      OBVIOUS
    <2>1. \A j \in Callers : c[j].pc = "idle"
      BY DEF Counter!Init, Counter!Idle
    <2>2. CounterCarried
      BY <2>1 DEF CounterCarried
    <2>3. Counter!SessionGuarantee
      BY DEF Counter!Init, Counter!SessionGuarantee
    <2> QED
      BY <2>2, <2>3, CounterInitOk
  <1>2. Inv /\ [Counter!Next]_(Counter!vars) => Inv'
    <2> SUFFICES ASSUME Inv, [Counter!Next]_(Counter!vars) PROVE Inv'
      OBVIOUS
    <2>1. CounterIInv'
      BY CounterNextOk
    <2>2. CounterCarried' /\ Counter!SessionGuarantee'
      BY CounterOneOk, Zenon
    <2> QED
      BY <2>1, <2>2
  <1>3. Inv => Counter!SessionGuarantee
    OBVIOUS
  <1> QED
    BY <1>1, <1>2, <1>3, PTL DEF Counter!Spec

-----------------------------------------------------------------------------
(***************************************************************************)
(* The transaction.                                                        *)
(***************************************************************************)
CONSTANT MaxTxns

VARIABLES state_, transaction_exists_, txn_id_, member, requests, failed, overlapped

\* Threads that use one transaction object.
Txn == INSTANCE Transaction

\* The count of an instance of FiniteSets is that of the library's theorems.
LEMMA TxnCounting ==
    ASSUME NEW S
    PROVE  Txn!Cardinality(S) = Cardinality(S)
  BY Zenon DEF Txn!Cardinality, Cardinality

\* What is under way to the member and back.
TxnRequests == [nr : Nat, op : {"create", "commit", "rollback"}, id : 0..MaxTxns,
                answer : {"none", "done", "error"}]

\* The types of the state, with the condition on the bound.
TxnTypes ==
    /\ MaxTxns \in Nat /\ calls \in Nat
    /\ state_ \in Txn!TxnStates /\ transaction_exists_ \in BOOLEAN
    /\ txn_id_ \in 0..MaxTxns /\ failed \subseteq 0..MaxTxns
    /\ member \in [Txn!Txns -> {"none", "open", "committed", "rolledBack"}]
    /\ requests \subseteq TxnRequests
    /\ overlapped \in BOOLEAN

\* The member numbers the transactions in the order it creates them.
TxnNumbered ==
    \E n \in 0..MaxTxns : \A i \in Txn!Txns : member[i] # "none" <=> i =< n

\* A create is under way alone.
TxnAlone == \A q, r \in requests : q.op = "create" => q = r

\* What state_ claims, and: a transaction that is open and no longer ACTIVE has
\* a failed call, or a call that is about to end it or to fail.
TxnOwn ==
    /\ txn_id_ \in Txn!Txns => member[txn_id_] # "none"
    /\ state_ = "ACTIVE" => requests = {} /\ txn_id_ \in Txn!Txns /\ member[txn_id_] = "open"
    /\ state_ = "COMMITTED" => txn_id_ \in Txn!Txns /\ member[txn_id_] = "committed"
    /\ (txn_id_ \in Txn!Txns /\ member[txn_id_] = "open") =>
          \/ state_ = "ACTIVE" \/ txn_id_ \in failed
          \/ \E r \in requests : r.op # "create"

\* What a request under way is about.
TxnAsked ==
    \A r \in requests :
        /\ r.op # "create" => r.id = txn_id_
        /\ r.op = "create" /\ r.answer = "none" => r.id = 0
        /\ r.op = "commit" /\ r.answer = "done" =>
              r.id \in Txn!Txns /\ member[r.id] = "committed"
        /\ r.op = "rollback" /\ r.answer = "done" => r.id \in Txn!Txns /\ member[r.id] # "open"
        /\ r.op = "create" /\ r.answer = "done" => r.id \in Txn!Txns /\ member[r.id] = "open"

\* An open transaction is the own one, the one being created, or one a call
\* failed on.
TxnOthers ==
    \A i \in Txn!Txns : member[i] = "open" =>
        i = txn_id_ \/ i \in failed \/ \E r \in requests : r.id = i

\* What holds as long as no begin() overlapped with another request.
TxnTrue == TxnAlone /\ TxnOwn /\ TxnAsked /\ TxnOthers

\* The inductive invariant.
TxnIInv == TxnTypes /\ TxnNumbered /\ (~overlapped => TxnTrue)

-----------------------------------------------------------------------------
\* The invariant holds before the first begin().
LEMMA TxnInitOk ==
    ASSUME MaxTxns \in Nat, Txn!Init
    PROVE  TxnIInv
  <1>1. TxnTypes
    <2>1. 0 \in 0..MaxTxns /\ 0 \in Nat
      OBVIOUS
    <2> QED
      BY <2>1, Zenon DEF Txn!Init, TxnTypes, Txn!TxnStates
  <1>2. TxnNumbered
    <2>1. \A i \in Txn!Txns : member[i] # "none" <=> i =< 0
      BY DEF Txn!Init, Txn!Txns
    <2>2. 0 \in 0..MaxTxns
      OBVIOUS
    <2> QED
      BY <2>1, <2>2, Zenon DEF TxnNumbered
  <1>3. TxnTrue
    BY DEF Txn!Init, TxnTrue, TxnAlone, TxnOwn, TxnAsked, TxnOthers, Txn!Txns
  <1> QED
    BY <1>1, <1>2, <1>3, Zenon DEF TxnIInv

\* A request is sent. Unless it overlaps with a create, or is one and overlaps
\* with another, no create is under way.
LEMMA TxnSending ==
    ASSUME TxnTypes, NEW op \in {"create", "commit", "rollback"}, NEW id \in 0..MaxTxns,
           Txn!Send(op, id)
    PROVE  \E s \in TxnRequests :
              /\ s.op = op /\ s.id = id /\ s.answer = "none"
              /\ requests' = requests \cup {s} /\ failed' = failed
              /\ overlapped' \in BOOLEAN
              /\ ~overlapped' => ~overlapped /\ \A r \in requests : op # "create" /\ r.op # "create"
  <1> DEFINE s == Txn!Request(op, id)
  <1>1. s \in TxnRequests /\ s.op = op /\ s.id = id /\ s.answer = "none"
    BY DEF TxnTypes, Txn!Request, TxnRequests
  <1>2. requests' = requests \cup {s} /\ failed' = failed
    BY Zenon DEF Txn!Send
  <1> HIDE DEF s
  <1>3. overlapped' = (overlapped \/ \E r \in requests : "create" \in {op, r.op})
    BY Zenon DEF Txn!Send
  <1>4. /\ overlapped' \in BOOLEAN
        /\ ~overlapped' => ~overlapped /\ \A r \in requests : op # "create" /\ r.op # "create"
    BY <1>3, Zenon
  <1> QED
    BY <1>1, <1>2, <1>4, Zenon

\* begin(): a refusal changes nothing else, a create is sent.
LEMMA TxnBeginOk ==
    ASSUME TxnIInv, NEW own \in BOOLEAN, NEW throws \in BOOLEAN, Txn!begin(own, throws)
    PROVE  TxnIInv'
  <1>1. TxnTypes /\ TxnNumbered /\ (~overlapped => TxnTrue)
    BY Zenon DEF TxnIInv
  <1>2. /\ state_' = state_ /\ txn_id_' = txn_id_ /\ member' = member
        /\ transaction_exists_' \in BOOLEAN /\ calls' = calls + 1
    BY Zenon DEF Txn!begin, Txn!Call
  <1>3. calls' \in Nat /\ 0 \in 0..MaxTxns
    BY <1>1, <1>2 DEF TxnTypes
  <1>4. TxnNumbered'
    BY <1>1, <1>2, Zenon DEF TxnNumbered
  <1>5. CASE requests' = requests /\ overlapped' = overlapped /\ failed' = failed
    <2>1. TxnTypes'
      BY <1>1, <1>2, <1>3, <1>5, Zenon DEF TxnTypes
    <2>2. ~overlapped' => TxnTrue'
      BY <1>1, <1>2, <1>5, Zenon DEF TxnTrue, TxnAlone, TxnOwn, TxnAsked, TxnOthers
    <2> QED
      BY <1>4, <2>1, <2>2, Zenon DEF TxnIInv
  <1>6. CASE state_ # "ACTIVE" /\ Txn!Send("create", 0)
    <2>1. PICK s \in TxnRequests :
              /\ s.op = "create" /\ s.id = 0 /\ s.answer = "none"
              /\ requests' = requests \cup {s} /\ failed' = failed
              /\ overlapped' \in BOOLEAN
              /\ ~overlapped' => ~overlapped /\ \A r \in requests : "create" # "create" /\ r.op # "create"
      BY <1>1, <1>3, <1>6, TxnSending, Zenon
    <2>2. TxnTypes'
      BY <1>1, <1>2, <1>3, <2>1, Zenon DEF TxnTypes
    <2>3. ASSUME ~overlapped' PROVE TxnTrue'
      <3>1. TxnTrue /\ requests = {} /\ requests' = {s}
        BY <1>1, <2>1, <2>3
      <3>2. TxnAlone' /\ TxnAsked'
        BY <2>1, <3>1, Zenon DEF TxnAlone, TxnAsked
      <3>3. TxnOwn' /\ TxnOthers'
        BY <1>2, <1>6, <2>1, <3>1, Zenon DEF TxnTrue, TxnOwn, TxnOthers
      <3> QED
        BY <3>2, <3>3, SMTT(20) DEF TxnTrue
    <2> QED
      BY <1>4, <2>2, <2>3, Zenon DEF TxnIInv
  <1> QED
    BY <1>5, <1>6, Zenon DEF Txn!begin

\* A call that throws: commit() and rollback() have set state_ before, and the
\* transaction counts as failed.
LEMMA TxnThrows ==
    ASSUME TxnIInv, Txn!Refuse, Txn!Call, txn_id_' = txn_id_, member' = member,
           \/ state_' \in {"COMMIT_FAILED", "ROLLING_BACK", "ROLLED_BACK"}
           \/ state_' = state_ /\ state_ \in {"NO_TXN", "ROLLED_BACK"}
    PROVE  TxnIInv'
  <1>1. TxnTypes /\ TxnNumbered /\ (~overlapped => TxnTrue)
    BY Zenon DEF TxnIInv
  <1>2. /\ transaction_exists_' \in BOOLEAN /\ failed' = failed \cup {txn_id_}
        /\ requests' = requests /\ overlapped' = overlapped /\ calls' = calls + 1
    BY Zenon DEF Txn!Refuse, Txn!Call
  <1>3. calls' \in Nat /\ failed' \subseteq 0..MaxTxns
    BY <1>1, <1>2 DEF TxnTypes
  <1>4. state_' \in Txn!TxnStates /\ state_' # "ACTIVE" /\ state_' # "COMMITTED"
    BY DEF Txn!TxnStates
  <1>5. TxnTypes'
    BY <1>1, <1>2, <1>3, <1>4, Zenon DEF TxnTypes
  <1>6. TxnNumbered'
    BY <1>1, Zenon DEF TxnNumbered
  <1>7. ASSUME ~overlapped' PROVE TxnTrue'
    <2>1. TxnTrue
      BY <1>1, <1>2, <1>7, Zenon
    <2>2. TxnAlone' /\ TxnAsked'
      BY <1>2, <2>1, Zenon DEF TxnTrue, TxnAlone, TxnAsked
    <2>3. TxnOwn' /\ TxnOthers'
      BY <1>2, <1>4, <2>1 DEF TxnTrue, TxnOwn, TxnOthers
    <2> QED
      BY <2>2, <2>3 DEF TxnTrue
  <1> QED
    BY <1>5, <1>6, <1>7, Zenon DEF TxnIInv

\* A commit or a rollback of the own transaction is sent, next to requests that
\* are no create.
LEMMA TxnEnding ==
    ASSUME TxnIInv, NEW op \in {"commit", "rollback"}, Txn!Send(op, txn_id_), Txn!Call,
           txn_id_' = txn_id_, member' = member, transaction_exists_' = transaction_exists_,
           state_' \in {"COMMITTING", "ROLLING_BACK"}
    PROVE  TxnIInv'
  <1>1. TxnTypes /\ TxnNumbered /\ (~overlapped => TxnTrue)
    BY Zenon DEF TxnIInv
  <1>2. PICK s \in TxnRequests :
              /\ s.op = op /\ s.id = txn_id_ /\ s.answer = "none"
              /\ requests' = requests \cup {s} /\ failed' = failed
              /\ overlapped' \in BOOLEAN
              /\ ~overlapped' => ~overlapped /\ \A r \in requests : op # "create" /\ r.op # "create"
    BY <1>1, TxnSending DEF TxnTypes
  <1>3. calls' \in Nat /\ state_' \in Txn!TxnStates /\ state_' # "ACTIVE" /\ state_' # "COMMITTED"
    BY <1>1 DEF TxnTypes, Txn!Call, Txn!TxnStates
  <1>4. TxnTypes'
    BY <1>1, <1>2, <1>3, Zenon DEF TxnTypes
  <1>5. TxnNumbered'
    BY <1>1, Zenon DEF TxnNumbered
  <1>6. ASSUME ~overlapped' PROVE TxnTrue'
    <2>1. TxnTrue /\ \A r \in requests : r.op # "create"
      BY <1>1, <1>2, <1>6, Zenon
    <2>2. s.op # "create"
      BY <1>2
    <2>3. TxnAlone'
      BY <1>2, <2>1, <2>2, Zenon DEF TxnAlone
    <2>4. TxnAsked'
      <3>1. s.answer # "done"
        BY <1>2
      <3> QED
        BY <1>2, <2>1, <2>2, <3>1, Zenon DEF TxnTrue, TxnAsked
    <2>5. TxnOwn'
      BY <1>2, <1>3, <2>1, <2>2, Zenon DEF TxnTrue, TxnOwn
    <2>6. TxnOthers'
      BY <1>2, <2>1, Zenon DEF TxnTrue, TxnOthers
    <2> QED
      BY <2>3, <2>4, <2>5, <2>6, SMTT(20) DEF TxnTrue
  <1> QED
    BY <1>4, <1>5, <1>6, Zenon DEF TxnIInv

\* commit(): refused, or sent for the open transaction.
LEMMA TxnCommitOk ==
    ASSUME TxnIInv, NEW own \in BOOLEAN, NEW throws \in BOOLEAN, Txn!commit(own, throws)
    PROVE  TxnIInv'
  <1>1. Txn!Call /\ txn_id_' = txn_id_ /\ member' = member
    BY Zenon DEF Txn!commit
  <1>2. \/ state_' = "COMMIT_FAILED" /\ Txn!Refuse
        \/ /\ state_' = "COMMITTING" /\ Txn!Send("commit", txn_id_)
           /\ transaction_exists_' = transaction_exists_
    BY Zenon DEF Txn!commit
  <1> QED
    BY <1>1, <1>2, TxnThrows, TxnEnding, Zenon

\* rollback(): refused, sent, or taken for done when it cannot be sent.
LEMMA TxnRollbackOk ==
    ASSUME TxnIInv, NEW own \in BOOLEAN, NEW throws \in BOOLEAN, Txn!rollback(own, throws)
    PROVE  TxnIInv'
  <1>1. Txn!Call /\ txn_id_' = txn_id_ /\ member' = member
    BY Zenon DEF Txn!rollback
  <1>2. \/ state_' = state_ /\ state_ \in {"NO_TXN", "ROLLED_BACK"} /\ Txn!Refuse
        \/ state_' \in {"ROLLING_BACK", "ROLLED_BACK"} /\ Txn!Refuse
        \/ /\ state_' = "ROLLING_BACK" /\ Txn!Send("rollback", txn_id_)
           /\ transaction_exists_' = transaction_exists_
    BY Zenon DEF Txn!rollback
  <1> QED
    BY <1>1, <1>2, TxnThrows, TxnEnding, Zenon

-----------------------------------------------------------------------------
\* What a request becomes when it is answered.
LEMMA TxnAnswering ==
    ASSUME TxnTypes, NEW r \in requests, NEW id \in 0..MaxTxns, NEW a \in {"done", "error"},
           Txn!Answer(r, id, a)
    PROVE  \E s \in TxnRequests : /\ requests' = (requests \ {r}) \cup {s}
                                  /\ s.op = r.op /\ s.id = id /\ s.answer = a
  <1>1. r \in TxnRequests
    BY DEF TxnTypes
  <1> DEFINE s == [r EXCEPT !.id = id, !.answer = a]
  <1>2. s \in TxnRequests /\ s.op = r.op /\ s.id = id /\ s.answer = a
    BY <1>1, Zenon DEF TxnRequests
  <1>3. requests' = (requests \ {r}) \cup {s}
    BY DEF Txn!Answer
  <1> QED
    BY <1>2, <1>3, Zenon

\* A create takes the next number, which no transaction has.
LEMMA TxnNextNumber ==
    ASSUME TxnTypes, TxnNumbered, NEW j \in Txn!Txns, member[j] = "none"
    PROVE  LET id == Cardinality({i \in Txn!Txns : member[i] # "none"}) + 1
           IN  /\ id \in Txn!Txns /\ member[id] = "none"
               /\ \A i \in Txn!Txns : member[i] # "none" <=> i < id
  <1>1. PICK n \in 0..MaxTxns : \A i \in Txn!Txns : member[i] # "none" <=> i =< n
    BY DEF TxnNumbered
  <1>2. {i \in Txn!Txns : member[i] # "none"} = 1..n
    BY <1>1 DEF TxnTypes, Txn!Txns
  <1>3. Cardinality(1..n) = n
    BY <1>1, FS_Interval
  <1>4. n < MaxTxns
    BY <1>1 DEF TxnTypes, Txn!Txns
  <1> DEFINE id == Cardinality({i \in Txn!Txns : member[i] # "none"}) + 1
  <1>5. id = n + 1
    BY <1>2, <1>3, Zenon
  <1> HIDE DEF id
  <1>6. id \in Txn!Txns /\ member[id] = "none" /\ \A i \in Txn!Txns : member[i] # "none" <=> i < id
    BY <1>1, <1>4, <1>5 DEF TxnTypes, Txn!Txns
  <1> QED
    BY <1>6 DEF id

\* A request that is answered by an error, handled or not.
LEMMA TxnRefused ==
    ASSUME TxnIInv, NEW r \in requests, Txn!Answer(r, r.id, "error"), member' = member,
           state_' = state_, txn_id_' = txn_id_, failed' = failed, overlapped' = overlapped,
           transaction_exists_' = transaction_exists_, calls' = calls
    PROVE  TxnIInv'
  <1>1. TxnTypes /\ TxnNumbered /\ (~overlapped => TxnTrue)
    BY Zenon DEF TxnIInv
  <1>2. PICK s \in TxnRequests : /\ requests' = (requests \ {r}) \cup {s}
                                 /\ s.op = r.op /\ s.id = r.id /\ s.answer = "error"
    BY <1>1, TxnAnswering DEF TxnTypes, TxnRequests
  <1>3. TxnTypes'
    BY <1>1, <1>2, Zenon DEF TxnTypes
  <1>4. TxnNumbered'
    BY <1>1, Zenon DEF TxnNumbered
  <1>5. ASSUME ~overlapped' PROVE TxnTrue'
    <2>1. TxnAlone /\ TxnOwn /\ TxnAsked /\ TxnOthers
      BY <1>1, <1>5, Zenon DEF TxnTrue
    <2>2. TxnAlone'
      BY <1>2, <2>1, Zenon DEF TxnAlone
    <2>3. TxnOwn'
      BY <1>2, <2>1, Zenon DEF TxnOwn
    <2>4. TxnAsked'
      <3>1. s.answer # "done" /\ s.answer # "none"
        BY <1>2
      <3> QED
        BY <1>2, <2>1, <3>1, Zenon DEF TxnAsked
    <2>5. TxnOthers'
      BY <1>2, <2>1, Zenon DEF TxnOthers
    <2> QED
      BY <2>2, <2>3, <2>4, <2>5 DEF TxnTrue
  <1> QED
    BY <1>3, <1>4, <1>5, Zenon DEF TxnIInv

\* The member creates a transaction, which the proxy does not know yet.
LEMMA TxnCreateOk ==
    ASSUME TxnIInv, NEW r \in requests, Txn!Handle(r), r.op = "create",
           \E i \in Txn!Txns : member[i] = "none"
    PROVE  TxnIInv'
  <1>1. TxnTypes /\ TxnNumbered /\ (~overlapped => TxnTrue)
    BY Zenon DEF TxnIInv
  <1>2. /\ state_' = state_ /\ txn_id_' = txn_id_ /\ failed' = failed /\ calls' = calls
        /\ transaction_exists_' = transaction_exists_ /\ overlapped' = overlapped
        /\ r.answer = "none"
    BY Zenon DEF Txn!Handle
  <1>3. PICK id \in Txn!Txns :
           /\ member' = [member EXCEPT ![id] = "open"] /\ Txn!Answer(r, id, "done")
           /\ member[id] = "none" /\ \A i \in Txn!Txns : member[i] # "none" <=> i < id
    <2> DEFINE id == Cardinality({i \in Txn!Txns : member[i] # "none"}) + 1
    <2>1. id \in Txn!Txns /\ member[id] = "none" /\ \A i \in Txn!Txns : member[i] # "none" <=> i < id
      BY <1>1, TxnNextNumber, Zenon
    <2>2. Txn!Cardinality({i \in Txn!Txns : member[i] # "none"}) + 1 = id
      BY TxnCounting, Zenon
    <2> HIDE DEF id
    <2>3. member' = [member EXCEPT ![id] = "open"] /\ Txn!Answer(r, id, "done")
      BY <2>2, Zenon DEF Txn!Handle
    <2> QED
      BY <2>1, <2>3, Zenon
  <1>4. id \in 0..MaxTxns /\ 0 \notin Txn!Txns
    BY <1>1 DEF TxnTypes, Txn!Txns
  <1>5. PICK s \in TxnRequests : /\ requests' = (requests \ {r}) \cup {s}
                                 /\ s.op = "create" /\ s.id = id /\ s.answer = "done"
    BY <1>1, <1>3, <1>4, TxnAnswering, SMTT(20)
  <1>6. /\ member' \in [Txn!Txns -> {"none", "open", "committed", "rolledBack"}]
        /\ member'[id] = "open" /\ \A i \in Txn!Txns \ {id} : member'[i] = member[i]
    BY <1>1, <1>3 DEF TxnTypes
  <1>7. TxnTypes'
    BY <1>1, <1>2, <1>5, <1>6, Zenon DEF TxnTypes
  <1>8. TxnNumbered'
    <2>1. \A i \in Txn!Txns : member'[i] # "none" <=> i =< id
      BY <1>3, <1>6 DEF Txn!Txns
    <2> QED
      BY <1>4, <2>1, Zenon DEF TxnNumbered
  <1>9. ASSUME ~overlapped' PROVE TxnTrue'
    <2>1. TxnAlone /\ TxnOwn /\ TxnAsked /\ TxnOthers
      BY <1>1, <1>2, <1>9, Zenon DEF TxnTrue
    <2>2. requests = {r} /\ requests' = {s}
      BY <1>5, <2>1 DEF TxnAlone
    <2>3. TxnAlone' /\ TxnAsked'
      BY <1>5, <1>6, <2>2, Zenon DEF TxnAlone, TxnAsked
    <2>4. TxnOwn'
      <3>1. state_ # "ACTIVE"
        BY <2>1, <2>2, Zenon DEF TxnOwn
      <3>2. txn_id_ \in Txn!Txns /\ member[txn_id_] = "open" => txn_id_ \in failed
        BY <2>1, <2>2, <3>1, Zenon DEF TxnOwn
      <3>3. txn_id_ \in Txn!Txns => member'[txn_id_] = member[txn_id_]
        BY <1>3, <1>6, <2>1, Zenon DEF TxnOwn
      <3> QED
        BY <1>2, <2>1, <3>1, <3>2, <3>3, Zenon DEF TxnOwn
    <2>5. TxnOthers'
      <3>1. r.id = 0
        BY <1>2, <2>1, Zenon DEF TxnAsked
      <3>2. ASSUME NEW i \in Txn!Txns, member'[i] = "open"
            PROVE  i = txn_id_ \/ i \in failed \/ s.id = i
        BY <1>4, <1>5, <1>6, <2>1, <2>2, <3>1, <3>2, Zenon DEF TxnOthers
      <3> QED
        BY <1>2, <2>2, <3>2, Zenon DEF TxnOthers
    <2> QED
      BY <2>3, <2>4, <2>5 DEF TxnTrue
  <1> QED
    BY <1>7, <1>8, <1>9, Zenon DEF TxnIInv

\* The member commits the open transaction or rolls it back.
LEMMA TxnEndOk ==
    ASSUME TxnIInv, NEW r \in requests, Txn!Handle(r), r.op # "create", Txn!Open(r.id)
    PROVE  TxnIInv'
  <1>1. TxnTypes /\ TxnNumbered /\ (~overlapped => TxnTrue)
    BY Zenon DEF TxnIInv
  <1>2. /\ state_' = state_ /\ txn_id_' = txn_id_ /\ failed' = failed /\ calls' = calls
        /\ transaction_exists_' = transaction_exists_ /\ overlapped' = overlapped
        /\ r.answer = "none"
    BY Zenon DEF Txn!Handle
  <1>3. /\ r.id \in Txn!Txns /\ member[r.id] = "open" /\ Txn!Answer(r, r.id, "done")
        /\ member' = [member EXCEPT ![r.id] =
                          IF r.op = "commit" THEN "committed" ELSE "rolledBack"]
    BY Zenon DEF Txn!Handle, Txn!Open
  <1>4. PICK s \in TxnRequests : /\ requests' = (requests \ {r}) \cup {s}
                                 /\ s.op = r.op /\ s.id = r.id /\ s.answer = "done"
    BY <1>1, <1>3, TxnAnswering DEF TxnTypes, TxnRequests
  <1>5. /\ member' \in [Txn!Txns -> {"none", "open", "committed", "rolledBack"}]
        /\ member'[r.id] # "open" /\ member'[r.id] # "none"
        /\ r.op = "commit" => member'[r.id] = "committed"
        /\ \A i \in Txn!Txns \ {r.id} : member'[i] = member[i]
    BY <1>1, <1>3 DEF TxnTypes
  <1>6. TxnTypes'
    BY <1>1, <1>2, <1>4, <1>5, Zenon DEF TxnTypes
  <1>7. TxnNumbered'
    <2>1. \A i \in Txn!Txns : member'[i] # "none" <=> member[i] # "none"
      BY <1>3, <1>5, Zenon
    <2> QED
      BY <1>1, <2>1 DEF TxnNumbered
  <1>8. ASSUME ~overlapped' PROVE TxnTrue'
    <2>1. TxnAlone /\ TxnOwn /\ TxnAsked /\ TxnOthers
      BY <1>1, <1>2, <1>8, Zenon DEF TxnTrue
    <2>2. r.id = txn_id_ /\ \A q \in requests : q.op # "create"
      BY <2>1, Zenon DEF TxnAlone, TxnAsked
    <2>3. TxnAlone'
      BY <1>4, <2>2, Zenon DEF TxnAlone
    <2>4. TxnOwn'
      <3>1. state_ # "ACTIVE" /\ state_ # "COMMITTED"
        BY <1>3, <2>1, <2>2, SMTT(20) DEF TxnOwn
      <3> QED
        BY <1>2, <1>5, <2>2, <3>1, Zenon DEF TxnOwn
    <2>5. TxnAsked'
      <3>1. ASSUME NEW q \in requests \ {r}
            PROVE  /\ q.op # "create" /\ q.id = txn_id_
                   /\ q.op = "commit" => q.answer # "done"
                   /\ q.op = "rollback" => q.answer # "done"
        BY <1>3, <2>1, <2>2, SMTT(20) DEF TxnAsked
      <3> QED
        BY <1>2, <1>3, <1>4, <1>5, <2>2, <3>1, Zenon DEF TxnAsked
    <2>6. TxnOthers'
      BY <1>2, <1>4, <1>5, <2>1, Zenon DEF TxnOthers
    <2> QED
      BY <2>3, <2>4, <2>5, <2>6 DEF TxnTrue
  <1> QED
    BY <1>6, <1>7, <1>8, Zenon DEF TxnIInv

\* The member handles a request, or the connection fails before the answer, or
\* the bound refuses a create like a lost one.
LEMMA TxnHandleOk ==
    ASSUME TxnIInv, NEW r \in requests, Txn!Handle(r) \/ Txn!Lose(r) \/ Txn!NoRoom(r)
    PROVE  TxnIInv'
  <1>1. CASE Txn!Handle(r)
    <2>1. CASE r.op # "create" /\ ~Txn!Open(r.id)
      <3>1. /\ Txn!Answer(r, r.id, "error") /\ member' = member
            /\ state_' = state_ /\ txn_id_' = txn_id_ /\ failed' = failed /\ overlapped' = overlapped
            /\ transaction_exists_' = transaction_exists_ /\ calls' = calls
        BY <1>1, <2>1, Zenon DEF Txn!Handle
      <3> QED
        BY <3>1, TxnRefused, Zenon
    <2> QED
      BY <1>1, <2>1, TxnCreateOk, TxnEndOk, Zenon DEF Txn!Handle
  <1>2. CASE Txn!Lose(r)
    BY <1>2, TxnRefused, Zenon DEF Txn!Lose
  <1>3. CASE Txn!NoRoom(r)
    BY <1>3, TxnRefused, Zenon DEF Txn!NoRoom
  <1> QED
    BY <1>1, <1>2, <1>3

\* The continuations of begin(), commit() and rollback().
LEMMA TxnFinishOk ==
    ASSUME TxnIInv, NEW r \in requests, Txn!Finish(r)
    PROVE  TxnIInv'
  <1>1. TxnTypes /\ TxnNumbered /\ (~overlapped => TxnTrue)
    BY Zenon DEF TxnIInv
  <1>2. r \in TxnRequests /\ r.id \in 0..MaxTxns
    BY <1>1 DEF TxnTypes, TxnRequests
  <1>3. /\ member' = member /\ requests' = requests \ {r} /\ overlapped' = overlapped
        /\ calls' = calls /\ transaction_exists_' \in BOOLEAN
        /\ state_' \in Txn!TxnStates /\ txn_id_' \in 0..MaxTxns /\ failed' \subseteq 0..MaxTxns
    BY <1>1, <1>2, Zenon DEF Txn!Finish, TxnTypes, Txn!TxnStates
  <1>4. /\ r.op = "create" /\ r.answer = "done" =>
              txn_id_' = r.id /\ state_' = "ACTIVE" /\ failed' = failed
        /\ ~(r.op = "create" /\ r.answer = "done") => txn_id_' = txn_id_
        /\ r.op = "commit" /\ r.answer = "done" => state_' = "COMMITTED" /\ failed' = failed
        /\ r.op = "rollback" => state_' = "ROLLED_BACK"
        /\ r.op = "rollback" /\ r.answer = "done" => failed' = failed
        /\ r.answer = "error" => failed' = failed \cup {r.id}
        /\ r.op # "rollback" /\ r.answer = "error" => state_' = state_
        /\ r.answer \in {"done", "error"} /\ r.op \in {"create", "commit", "rollback"}
    BY <1>2 DEF Txn!Finish, TxnRequests
  <1>5. TxnTypes'
    BY <1>1, <1>3, Zenon DEF TxnTypes
  <1>6. TxnNumbered'
    BY <1>1, <1>3 DEF TxnNumbered
  <1>7. ASSUME ~overlapped' PROVE TxnTrue'
    <2>1. TxnAlone /\ TxnOwn /\ TxnAsked /\ TxnOthers
      BY <1>1, <1>3, <1>7, ZenonT(30) DEF TxnTrue
    <2>2. failed \subseteq failed' /\ state_ # "ACTIVE"
      BY <1>4, <2>1, SMTT(20) DEF TxnOwn
    <2>3. CASE r.op = "create"
      <3>1. requests = {r} /\ requests' = {}
        BY <1>3, <2>1, <2>3, SMTT(20) DEF TxnAlone
      <3>2. TxnAlone' /\ TxnAsked'
        BY <3>1, Zenon DEF TxnAlone, TxnAsked
      <3>3. txn_id_ \in Txn!Txns /\ member[txn_id_] = "open" => txn_id_ \in failed
        BY <2>1, <2>2, <2>3, <3>1, Zenon DEF TxnOwn
      <3>4. r.answer = "done" => r.id \in Txn!Txns /\ member[r.id] = "open"
        BY <2>1, <2>3, Zenon DEF TxnAsked
      <3>5. TxnOwn'
        <4>1. CASE r.answer = "done"
          BY <1>3, <1>4, <2>3, <3>1, <3>4, <4>1, SMTT(20) DEF TxnOwn
        <4>2. CASE r.answer = "error"
          BY <1>3, <1>4, <2>1, <2>2, <2>3, <3>1, <3>3, <4>2, SMTT(20) DEF TxnOwn
        <4> QED
          BY <1>4, <4>1, <4>2, SMTT(20)
      <3>6. TxnOthers'
        <4>1. ASSUME NEW i \in Txn!Txns, member[i] = "open" PROVE i = txn_id_' \/ i \in failed'
          <5>1. i \in failed \/ i = r.id \/ i = txn_id_
            BY <2>1, <3>1, <4>1, Zenon DEF TxnOthers
          <5>2. i \in failed \/ i = r.id
            BY <3>3, <4>1, <5>1, Zenon
          <5> QED
            BY <1>4, <2>2, <2>3, <5>2, SMTT(20)
        <4> QED
          BY <1>3, <4>1, ZenonT(30) DEF TxnOthers
      <3> QED
        BY <3>2, <3>5, <3>6, SMTT(20) DEF TxnTrue
    <2>4. CASE r.op # "create"
      <3>1. r.id = txn_id_ /\ txn_id_' = txn_id_
        BY <1>4, <2>1, <2>4, Zenon DEF TxnAsked
      <3>2. TxnAlone' /\ TxnAsked'
        BY <1>3, <2>1, <3>1, ZenonT(30) DEF TxnAlone, TxnAsked
      <3>3. txn_id_ \in Txn!Txns /\ member[txn_id_] = "open" => txn_id_ \in failed'
        BY <1>4, <2>1, <2>4, <3>1, SMTT(20) DEF TxnAsked
      <3>4. state_' # "ACTIVE" /\ (state_' = "COMMITTED" => txn_id_ \in Txn!Txns /\ member[txn_id_] = "committed")
        <4>1. CASE r.op = "commit" /\ r.answer = "done"
          BY <1>4, <2>1, <3>1, <4>1, SMTT(20) DEF TxnAsked
        <4>2. CASE r.op = "commit" /\ r.answer = "error"
          BY <1>4, <2>1, <2>2, <4>2, SMTT(20) DEF TxnOwn
        <4>3. CASE r.op = "rollback"
          BY <1>4, <4>3
        <4> QED
          BY <1>4, <2>4, <4>1, <4>2, <4>3, SMTT(20)
      <3>5. TxnOwn'
        BY <1>3, <2>1, <3>1, <3>3, <3>4, Zenon DEF TxnOwn
      <3>6. TxnOthers'
        BY <1>3, <2>1, <2>2, <3>1, ZenonT(30) DEF TxnOthers
      <3> QED
        BY <3>2, <3>5, <3>6, SMTT(20) DEF TxnTrue
    <2> QED
      BY <2>3, <2>4
  <1> QED
    BY <1>5, <1>6, <1>7, Zenon DEF TxnIInv

\* A step that changes nothing.
LEMMA TxnStutterOk ==
    ASSUME TxnIInv, UNCHANGED Txn!vars
    PROVE  TxnIInv'
  BY Zenon DEF TxnIInv, TxnTypes, TxnNumbered, TxnTrue, TxnAlone, TxnOwn, TxnAsked, TxnOthers,
     Txn!vars, TxnRequests, Txn!Txns, Txn!TxnStates

\* The invariant implies the property.
LEMMA TxnSafe ==
    ASSUME TxnIInv
    PROVE  Txn!StateIsTrue
  BY Zenon DEF TxnIInv, TxnTrue, TxnOwn, TxnOthers, Txn!StateIsTrue

\* For any number of transactions, calls of any threads at any time, and
\* failures: as long as no begin() overlaps with another request, state_ is
\* COMMITTED only if the member committed the transaction and ACTIVE only while
\* it is open there, and a transaction that is left open on the member is one
\* that a call failed on.
THEOREM TxnStateTrue ==
    ASSUME MaxTxns \in Nat
    PROVE  Txn!Spec => []Txn!StateIsTrue
  <1>1. Txn!Init => TxnIInv
    BY TxnInitOk, Zenon
  <1>2. TxnIInv /\ [Txn!Next]_(Txn!vars) => TxnIInv'
    <2>1. SUFFICES ASSUME TxnIInv, [Txn!Next]_(Txn!vars) PROVE TxnIInv'
      OBVIOUS
    <2> QED
      BY <2>1, TxnBeginOk, TxnCommitOk, TxnRollbackOk, TxnHandleOk, TxnFinishOk, TxnStutterOk, Zenon
         DEF Txn!Next, Txn!Done
  <1>3. TxnIInv => Txn!StateIsTrue
    BY TxnSafe
  <1> QED
    BY <1>1, <1>2, <1>3, PTL DEF Txn!Spec
=============================================================================
