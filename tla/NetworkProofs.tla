--------------------------- MODULE NetworkProofs ---------------------------
(***************************************************************************)
(* Proofs about Network, for any number of attempts and any number of      *)
(* waiting tasks, as long as nothing goes wrong while a link key is        *)
(* exchanged.                                                              *)
(***************************************************************************)
EXTENDS Network, TLAPS

Undisturbed == Disturbances = {}

(***************************************************************************)
(* The invariant: what may wait for bdb_task in which state.               *)
(***************************************************************************)
\* Queues of one and two events and sets of one timer, by name.
One(a)    == <<a>>
Two(a, b) == <<a, b>>
Only(t)   == {t}

\* A device on its way to a first network, by one search at a time.
Searching == lib.new /\ ~bdb.onNet /\ ~app.backoff

\* At the start: one confirmation, and a second if the parent is lost at once.
Starting ==
  /\ lib.act = "start" /\ tasks = <<>> /\ ~lib.joined
  /\ ~lib.new /\ bdb.onNet /\ bdb.initOK
Started ==
  /\ lib.act = "none"
  /\ \/ /\ tasks = One("init done")
        /\ lib.new = ~bdb.onNet
        /\ IF lib.new THEN bdb.initOK /\ ~lib.joined ELSE bdb.initOK = lib.joined
     \/ /\ tasks = Two("init done", "init done")
        /\ ~lib.new /\ bdb.onNet /\ ~bdb.initOK /\ ~lib.joined

InInit ==
  /\ Starting \/ Started
  /\ app.steer = 0 /\ ~app.backoff
  /\ ~bdb.doing /\ ~lib.leaving /\ ~lib.removed
  /\ key.timers = {}

\* At rest with a search planned or posted.  A parent may be lost once.
Planned ==
  /\ Searching /\ lib.act = "none"
  /\ \/ /\ app.steer = 1 /\ ~bdb.doing
        /\ tasks \in {<<>>, One("rejoin done")}
     \/ /\ app.steer = 0
        /\ tasks \in {One("start"), Two("start", "rejoin done"), Two("rejoin done", "start")}
        /\ bdb.doing \/ (tasks = One("start") /\ ~lib.joined)
  /\ lib.joined => bdb.result = "no link key"
                   /\ tasks \notin {One("rejoin done"), Two("start", "rejoin done"),
                                    Two("rejoin done", "start")}
  /\ tasks \in {One("rejoin done"), Two("start", "rejoin done"), Two("rejoin done", "start")}
       => bdb.result = "parent lost"

\* The confirmations that wait while no search is planned.
Confirmations(q) ==
  /\ q \in Seq({"rejoin done", "init done"})
  /\ \A i \in 1 .. Len(q) : q[i] = "init done" => i = 1
Confirms(q) == \E i \in 1 .. Len(q) : q[i] = "rejoin done"

\* At rest on a network, or rejoining it.
OnNetwork ==
  /\ app.steer = 0 /\ ~bdb.doing
  /\ Confirmations(tasks)
  /\ lib.act \in {"none", "rejoin"}
  /\ lib.new => lib.removed /\ ~lib.joined /\ lib.act = "none"
  /\ lib.joined => IF Confirms(tasks) THEN bdb.result = "success"
                   ELSE app.poll \/ app.loading
  /\ (lib.joined /\ lib.act = "none" /\ app.backoff) => Confirms(tasks)
  /\ (~lib.joined /\ lib.act = "none" /\ ~lib.removed) =>
       IF Confirms(tasks) THEN bdb.result \in {"parent lost", "rejoin failure"}
       ELSE app.backoff
  /\ Confirms(tasks) => bdb.result \in {"success", "parent lost", "rejoin failure"}

InIdle == (Planned \/ OnNetwork) /\ ~lib.leaving /\ key.timers = {}

\* Searching.  A confirmation from before may wait for a while.
Scans ==
  /\ Searching /\ lib.act = "scan" /\ key.timers = {} /\ ~lib.leaving
  /\ tasks \in {<<>>, One("rejoin done")}
Waits ==
  /\ lib.act = "none" /\ lib.joined /\ bdb.onNet /\ ~lib.leaving
  /\ bdb.result = "success" /\ lib.new
  /\ \/ key.timers \in {Only("retrieve key"), Only("permit join")}
        /\ tasks \in {<<>>, One("rejoin done")}
     \/ key.timers = Only("begin") /\ tasks = <<>>
     \/ /\ key.timers = {}
        /\ tasks \in {One("retrieve key"), Two("rejoin done", "retrieve key"),
                      One("permit join"), Two("rejoin done", "permit join"), One("permitted")}
Exchanges ==
  /\ lib.act = "none" /\ key.timers = Only("exchange") /\ tasks = <<>>
  /\ lib.new
  /\ lib.leaving => lib.joined /\ key.attempts = Attempts + 1
  /\ ~lib.joined => key.attempts = Attempts + 1
Finishes ==
  /\ lib.act = "none" /\ key.timers = {} /\ ~lib.leaving
  /\ tasks \in {One("steer finish"), Two("rejoin done", "steer finish")}
  /\ \/ bdb.result = "success" /\ lib.joined /\ bdb.onNet /\ ~lib.new
        /\ tasks = One("steer finish")
     \/ bdb.result = "no link key" /\ Searching /\ tasks = One("steer finish")
     \/ bdb.result = "no network" /\ Searching /\ ~lib.joined

InSteer ==
  /\ app.steer = 0 /\ ~app.backoff
  /\ Scans \/ Waits \/ Exchanges \/ Finishes

Waiting(q) == q \in Seq(Events) /\ Len(q) <= MaxTasks + 2

Types ==
  /\ power \in {"on", "off", "asleep"}
  /\ bdb \in Bdb /\ Waiting(tasks)
  /\ key \in Key /\ lib \in Lib /\ app \in App

NetworkInv ==
  /\ Types
  /\ power # "on" => lib.act = "none" /\ ~lib.joined
  /\ power = "on" =>
       \/ bdb.state = "init"  /\ InInit
       \/ bdb.state = "idle"  /\ InIdle
       \/ bdb.state = "steer" /\ InSteer

(***************************************************************************)
(* Queues.                                                                 *)
(***************************************************************************)
\* The queues of one and two events.
LEMMA ShortQueue ==
  ASSUME NEW a \in Events
  PROVE  /\ <<a>> \in Seq(Events) /\ Len(<<a>>) = 1 /\ <<a>> # <<>>
         /\ Head(<<a>>) = a /\ Tail(<<a>>) = <<>>
         /\ Append(<<>>, a) = <<a>>
OBVIOUS

LEMMA SameOfTwo ==
  \A x, y \in Seq(Events) :
    Len(x) = 2 /\ Len(y) = 2 /\ x[1] = y[1] /\ x[2] = y[2] => x = y
<1> SUFFICES ASSUME NEW x \in Seq(Events), NEW y \in Seq(Events),
                    Len(x) = 2, Len(y) = 2, x[1] = y[1], x[2] = y[2]
             PROVE  x = y
  OBVIOUS
<1>1. \A i \in 1 .. 2 : x[i] = y[i]
  OBVIOUS
<1> QED
  BY <1>1

LEMMA QueueOfTwo ==
  ASSUME NEW a \in Events, NEW b \in Events
  PROVE  /\ <<a, b>> \in Seq(Events) /\ Len(<<a, b>>) = 2 /\ <<a, b>> # <<>>
         /\ Head(<<a, b>>) = a /\ Tail(<<a, b>>) = <<b>>
         /\ Append(<<a>>, b) = <<a, b>>
<1> DEFINE one  == <<b>>
           two  == <<a, b>>
           rest == Tail(<<a, b>>)
           more == Append(<<a>>, b)
<1>1. one \in Seq(Events) /\ Len(one) = 1 /\ one[1] = b
  OBVIOUS
<1>2. two \in Seq(Events) /\ Len(two) = 2 /\ two[1] = a /\ two[2] = b
  OBVIOUS
<1>3. rest \in Seq(Events) /\ Len(rest) = 1 /\ rest[1] = b
  OBVIOUS
<1>4. more \in Seq(Events) /\ Len(more) = 2
  OBVIOUS
<1>5. more[1] = a
  OBVIOUS
<1>6. more[2] = b
  OBVIOUS
<1>7. two # <<>> /\ Head(two) = a
  OBVIOUS
<1> HIDE DEF one, two, rest, more
<1>8. rest = one
  <2>1. \A x, y \in Seq(Events) : Len(x) = 1 /\ Len(y) = 1 /\ x[1] = y[1] => x = y
    OBVIOUS
  <2> QED
    BY <1>1, <1>3, <2>1
<1>9. more = two
  BY <1>2, <1>4, <1>5, <1>6, SameOfTwo
<1> QED
  BY <1>2, <1>7, <1>8, <1>9 DEF one, two, rest, more

\* Queues of any length.
LEMMA Posted ==
  ASSUME NEW S, NEW q \in Seq(S), NEW e \in S
  PROVE  /\ Append(q, e) \in Seq(S) /\ Len(Append(q, e)) = Len(q) + 1 /\ Len(q) \in Nat
         /\ \A i \in 1 .. Len(q) : Append(q, e)[i] = q[i]
         /\ Append(q, e)[Len(q) + 1] = e
OBVIOUS

LEMMA Taken ==
  ASSUME NEW S, NEW q \in Seq(S), q # <<>>
  PROVE  /\ Tail(q) \in Seq(S) /\ Len(Tail(q)) = Len(q) - 1 /\ Len(q) \in Nat \ {0}
         /\ \A i \in 1 .. Len(q) - 1 : Tail(q)[i] = q[i + 1]
         /\ Head(q) = q[1] /\ Head(q) \in S
OBVIOUS

\* Confirmations come and go.
LEMMA ConfirmationPosted ==
  ASSUME NEW q, Confirmations(q)
  PROVE  /\ Confirmations(Append(q, "rejoin done")) /\ Confirms(Append(q, "rejoin done"))
         /\ Len(Append(q, "rejoin done")) = Len(q) + 1
<1> DEFINE S == {"rejoin done", "init done"}
           e == "rejoin done"
<1>1. e # "init done"
  OBVIOUS
<1>b. e \in S
  OBVIOUS
<1>a. q \in Seq(S)
  BY DEF Confirmations
<1> HIDE DEF S, e
<1>2. /\ Append(q, e) \in Seq(S) /\ Len(Append(q, e)) = Len(q) + 1 /\ Len(q) \in Nat
      /\ \A i \in 1 .. Len(q) : Append(q, e)[i] = q[i]
      /\ Append(q, e)[Len(q) + 1] = e
  BY <1>a, <1>b, Posted, SMT
<1>3. \A i \in 1 .. Len(q) + 1 : Append(q, e)[i] = "init done" => i = 1
  <2>1. \A i \in 1 .. Len(q) : q[i] = "init done" => i = 1
    BY DEF Confirmations
  <2>2. \A i \in 1 .. Len(q) + 1 : i \in 1 .. Len(q) \/ i = Len(q) + 1
    BY <1>2
  <2> QED
    BY <1>1, <1>2, <2>1, <2>2, Zenon
<1>4. Len(q) + 1 \in 1 .. Len(q) + 1
  BY <1>2
<1> QED
  BY <1>2, <1>3, <1>4 DEF Confirmations, Confirms, S, e

LEMMA ConfirmationTaken ==
  ASSUME NEW q, Confirmations(q), q # <<>>
  PROVE  /\ Confirmations(Tail(q)) /\ Len(Tail(q)) = Len(q) - 1
         /\ Head(q) \in {"rejoin done", "init done"}
         /\ Head(q) = "rejoin done" => Confirms(q)
         /\ Confirms(Tail(q)) => Confirms(q)
         /\ Head(q) = "init done" /\ Confirms(q) => Confirms(Tail(q))
<1> DEFINE S == {"rejoin done", "init done"}
<1>1. q \in Seq(S)
  BY DEF Confirmations
<1>2. Head(q) \in S => Head(q) \in {"rejoin done", "init done"}
  OBVIOUS
<1> HIDE DEF S
<1>a. /\ Tail(q) \in Seq(S) /\ Len(Tail(q)) = Len(q) - 1 /\ Len(q) \in Nat \ {0}
      /\ \A i \in 1 .. Len(q) - 1 : Tail(q)[i] = q[i + 1]
      /\ Head(q) = q[1] /\ Head(q) \in S
  BY <1>1, Taken, Zenon
<1>3. 1 \in 1 .. Len(q) /\ \A i \in 1 .. Len(q) - 1 : i + 1 \in 1 .. Len(q)
  BY <1>a
<1>4. \A i \in 1 .. Len(q) : i = 1 \/ (i - 1 \in 1 .. Len(q) - 1 /\ Tail(q)[i - 1] = q[i])
  BY <1>a, <1>3
<1>5. \A i \in 1 .. Len(q) - 1 : Tail(q)[i] = "init done" => i = 1
  <2>1. \A i \in 1 .. Len(q) : q[i] = "init done" => i = 1
    BY DEF Confirmations
  <2>2. \A i \in 1 .. Len(q) - 1 : i + 1 # 1
    OBVIOUS
  <2> QED
    BY <1>a, <1>3, <2>1, <2>2, Zenon
<1>6. Confirmations(Tail(q))
  BY <1>a, <1>3, <1>5 DEF Confirmations, S
<1>7. Confirms(Tail(q)) => Confirms(q)
  BY <1>a, <1>3 DEF Confirms
<1>8. Head(q) = "init done" /\ Confirms(q) => Confirms(Tail(q))
  BY <1>a, <1>3, <1>4 DEF Confirms
<1>9. Head(q) = "rejoin done" => Confirms(q)
  BY <1>a, <1>3 DEF Confirms
<1> QED
  BY <1>2, <1>a, <1>3, <1>6, <1>7, <1>8, <1>9

LEMMA Queues ==
  \A a, b \in Events :
    /\ One(a) \in Seq(Events) /\ Two(a, b) \in Seq(Events)
    /\ Len(One(a)) = 1 /\ Len(Two(a, b)) = 2
    /\ One(a) # <<>> /\ Two(a, b) # <<>> /\ One(a) # Two(a, b)
    /\ Head(One(a)) = a /\ Tail(One(a)) = <<>>
    /\ Head(Two(a, b)) = a /\ Tail(Two(a, b)) = One(b)
    /\ Append(<<>>, a) = One(a) /\ Append(One(a), b) = Two(a, b)
<1> SUFFICES ASSUME NEW a \in Events, NEW b \in Events
             PROVE  /\ <<a>> \in Seq(Events) /\ <<a, b>> \in Seq(Events)
                    /\ Len(<<a>>) = 1 /\ Len(<<a, b>>) = 2
                    /\ <<a>> # <<>> /\ <<a, b>> # <<>> /\ <<a>> # <<a, b>>
                    /\ Head(<<a>>) = a /\ Tail(<<a>>) = <<>>
                    /\ Head(<<a, b>>) = a /\ Tail(<<a, b>>) = <<b>>
                    /\ Append(<<>>, a) = <<a>> /\ Append(<<a>>, b) = <<a, b>>
  BY Zenon DEF One, Two
<1>1. <<a>> # <<a, b>>
  OBVIOUS
<1> QED
  BY <1>1, ShortQueue, QueueOfTwo, Zenon

\* What the steps below need of the constants.
LEMMA Bounds ==
  /\ Attempts \in Nat /\ MaxTasks \in Nat
  /\ 0 <= MaxTasks + 2 /\ 1 <= MaxTasks + 2 /\ 2 <= MaxTasks + 2
<1>1. Attempts \in Nat /\ MaxTasks \in Nat \ {0}
  BY NetworkAssumption, Zenon
<1> QED
  BY <1>1

LEMMA ShortQueuesWait ==
  /\ Waiting(<<>>)
  /\ \A a, b \in Events : Waiting(One(a)) /\ Waiting(Two(a, b))
<1>1. <<>> \in Seq(Events) /\ Len(<<>>) = 0
  OBVIOUS
<1> QED
  BY <1>1, Queues, Bounds, Zenon DEF Waiting

LEMMA PostedWaits ==
  ASSUME NEW q, NEW e \in Events, Waiting(q), Len(q) < MaxTasks
  PROVE  Waiting(Append(q, e))
<1>1. /\ Append(q, e) \in Seq(Events) /\ Len(Append(q, e)) = Len(q) + 1 /\ Len(q) \in Nat
  BY Posted, Zenon DEF Waiting
<1>2. Len(q) + 1 <= MaxTasks + 2
  BY <1>1, Bounds
<1> QED
  BY <1>1, <1>2, Zenon DEF Waiting

LEMMA TakenWaits ==
  ASSUME NEW q, Waiting(q), q # <<>>
  PROVE  Waiting(Tail(q)) /\ Head(q) \in Events
<1>1. /\ Tail(q) \in Seq(Events) /\ Len(Tail(q)) = Len(q) - 1 /\ Len(q) \in Nat \ {0}
      /\ Head(q) \in Events /\ Len(q) <= MaxTasks + 2
  BY Taken, Zenon DEF Waiting
<1>2. Len(q) - 1 <= MaxTasks + 2
  BY <1>1, Bounds
<1> QED
  BY <1>1, <1>2, Zenon DEF Waiting

\* Queues in which no confirmation of a rejoin waits.
LEMMA NoConfirmation ==
  /\ Confirmations(<<>>) /\ ~Confirms(<<>>)
  /\ Confirmations(One("init done")) /\ ~Confirms(One("init done"))
<1>1. Confirmations(<<>>) /\ ~Confirms(<<>>)
  BY DEF Confirmations, Confirms
<1> DEFINE one == <<"init done">>
<1>2. one \in Seq({"rejoin done", "init done"}) /\ Len(one) = 1 /\ one[1] = "init done"
  OBVIOUS
<1>a. "init done" # "rejoin done" /\ \A i \in 1 .. 1 : i = 1
  OBVIOUS
<1> HIDE DEF one
<1>3. Confirmations(one)
  BY <1>2, <1>a, Zenon DEF Confirmations
<1>4. ~Confirms(one)
  BY <1>2, <1>a, Zenon DEF Confirms
<1> QED
  BY <1>1, <1>3, <1>4, Zenon DEF One, one

\* Queues that Planned tells apart.
LEMMA EventNames ==
  /\ <<>> # One("rejoin done") /\ <<>> # Two("start", "rejoin done")
  /\ <<>> # Two("rejoin done", "start") /\ <<>> # One("start")
  /\ One("start") # One("rejoin done") /\ One("start") # Two("start", "rejoin done")
  /\ One("start") # Two("rejoin done", "start")
  /\ One("rejoin done") # Two("start", "rejoin done")
  /\ One("rejoin done") # Two("rejoin done", "start")
  /\ Two("start", "rejoin done") # Two("rejoin done", "start")
<1>1. "start" \in Events /\ "rejoin done" \in Events /\ "start" # "rejoin done" /\ 1 # 2
  BY DEF Events
<1> QED
  BY <1>1, Queues, Zenon

LEMMA QueueEnds ==
  /\ Head(One("start")) = "start" /\ Tail(One("start")) = <<>>
  /\ Head(One("rejoin done")) = "rejoin done" /\ Tail(One("rejoin done")) = <<>>
  /\ Head(Two("start", "rejoin done")) = "start"
  /\ Tail(Two("start", "rejoin done")) = One("rejoin done")
  /\ Head(Two("rejoin done", "start")) = "rejoin done"
  /\ Tail(Two("rejoin done", "start")) = One("start")
<1>1. "start" \in Events /\ "rejoin done" \in Events
  BY DEF Events
<1> QED
  BY <1>1, Queues, Zenon

\* The queues of a search.
LEMMA SteerEnds ==
  /\ Head(One("rejoin done")) = "rejoin done" /\ Tail(One("rejoin done")) = <<>>
  /\ Head(One("retrieve key")) = "retrieve key" /\ Tail(One("retrieve key")) = <<>>
  /\ Head(One("permit join")) = "permit join" /\ Tail(One("permit join")) = <<>>
  /\ Head(One("permitted")) = "permitted" /\ Tail(One("permitted")) = <<>>
  /\ Head(One("steer finish")) = "steer finish" /\ Tail(One("steer finish")) = <<>>
  /\ Head(Two("rejoin done", "retrieve key")) = "rejoin done"
  /\ Tail(Two("rejoin done", "retrieve key")) = One("retrieve key")
  /\ Head(Two("rejoin done", "permit join")) = "rejoin done"
  /\ Tail(Two("rejoin done", "permit join")) = One("permit join")
  /\ Head(Two("rejoin done", "steer finish")) = "rejoin done"
  /\ Tail(Two("rejoin done", "steer finish")) = One("steer finish")
  /\ Append(<<>>, "permitted") = One("permitted")
  /\ Append(<<>>, "steer finish") = One("steer finish")
  /\ One("rejoin done") # <<>> /\ One("retrieve key") # <<>> /\ One("permit join") # <<>>
  /\ One("permitted") # <<>>
<1>1. /\ "rejoin done" \in Events /\ "retrieve key" \in Events /\ "permit join" \in Events
      /\ "permitted" \in Events /\ "steer finish" \in Events
  BY DEF Events
<1>2. \A a \in Events : /\ Head(One(a)) = a /\ Tail(One(a)) = <<>>
                        /\ Append(<<>>, a) = One(a) /\ One(a) # <<>>
  BY Queues, Zenon
<1>3. \A a, b \in Events : Head(Two(a, b)) = a /\ Tail(Two(a, b)) = One(b)
  BY Queues, Zenon
<1>4. /\ Head(One("rejoin done")) = "rejoin done" /\ Tail(One("rejoin done")) = <<>>
      /\ Head(One("retrieve key")) = "retrieve key" /\ Tail(One("retrieve key")) = <<>>
      /\ Head(One("permit join")) = "permit join" /\ Tail(One("permit join")) = <<>>
      /\ One("rejoin done") # <<>> /\ One("retrieve key") # <<>> /\ One("permit join") # <<>>
  BY <1>1, <1>2, Zenon
<1>5. /\ Head(One("permitted")) = "permitted" /\ Tail(One("permitted")) = <<>>
      /\ Head(One("steer finish")) = "steer finish" /\ Tail(One("steer finish")) = <<>>
      /\ Append(<<>>, "permitted") = One("permitted")
      /\ Append(<<>>, "steer finish") = One("steer finish")
      /\ One("permitted") # <<>>
  BY <1>1, <1>2, Zenon
<1>6. /\ Head(Two("rejoin done", "retrieve key")) = "rejoin done"
      /\ Tail(Two("rejoin done", "retrieve key")) = One("retrieve key")
      /\ Head(Two("rejoin done", "permit join")) = "rejoin done"
      /\ Tail(Two("rejoin done", "permit join")) = One("permit join")
      /\ Head(Two("rejoin done", "steer finish")) = "rejoin done"
      /\ Tail(Two("rejoin done", "steer finish")) = One("steer finish")
  BY <1>1, <1>3, Zenon
<1> QED
  BY <1>4, <1>5, <1>6, Zenon

\* An empty queue is none of those in which something waits.
LEMMA QueuesNotEmpty ==
  /\ <<>> # One("init done") /\ <<>> # Two("init done", "init done")
  /\ <<>> # One("steer finish") /\ <<>> # Two("rejoin done", "steer finish")
<1>1. "init done" \in Events /\ "rejoin done" \in Events /\ "steer finish" \in Events
  BY DEF Events
<1> QED
  BY <1>1, Queues, Zenon

(***************************************************************************)
(* What touches only the poll timer and its rate.                          *)
(***************************************************************************)
LEMMA PollStep ==
  ASSUME NetworkInv, power = "on", UNCHANGED <<power, bdb, tasks, key, lib>>,
         app' \in App, app'.steer = app.steer, app'.backoff = app.backoff,
         app.poll \/ app.loading => app'.poll \/ app'.loading
  PROVE  NetworkInv'
<1>1. Types' /\ power' = "on"
  BY DEF NetworkInv, Types
<1>2. InInit => InInit'
  BY DEF InInit, Starting, Started
<1>3. Planned => Planned'
  BY DEF Planned, Searching
<1>4. OnNetwork => OnNetwork'
  BY DEF OnNetwork
<1>5. InSteer => InSteer'
  BY DEF InSteer, Scans, Waits, Exchanges, Finishes, Searching
<1> QED
  BY <1>1, <1>2, <1>3, <1>4, <1>5 DEF NetworkInv, InIdle

LEMMA PollSteps ==
  ASSUME NetworkInv,
         PollTimer \/ Pulse \/ ShortPress \/ OtaFails \/ \E charged \in BOOLEAN : OtaStart(charged)
  PROVE  NetworkInv'
<1> DEFINE Kept == /\ power = "on" /\ UNCHANGED <<power, bdb, tasks, key, lib>>
                   /\ app' \in App /\ app'.steer = app.steer /\ app'.backoff = app.backoff
                   /\ app.poll \/ app.loading => app'.poll \/ app'.loading
<1> USE DEF NetworkInv, Types, App, Rates, ShortPoll
<1>1. CASE PollTimer
  BY <1>1, PollStep DEF PollTimer
<1>2. CASE Pulse
  BY <1>2, PollStep DEF Pulse
<1>3. CASE ShortPress
  BY <1>3, PollStep DEF ShortPress
<1>4. CASE OtaFails
  BY <1>4, PollStep DEF OtaFails
<1>5. ASSUME NEW charged \in BOOLEAN, OtaStart(charged)
      PROVE  NetworkInv'
  BY <1>5, PollStep DEF OtaStart
<1> QED
  BY <1>1, <1>2, <1>3, <1>4, <1>5

(***************************************************************************)
(* Stops, starts and the timers of the application.                        *)
(***************************************************************************)
LEMMA OnlyOne ==
  /\ \A t, u : (u \in Only(t)) <=> (u = t)
  /\ \A t : Only(t) # {} /\ Only(t) \ {t} = {}
  /\ \A t, u : (Only(t) \ {t}) \cup {u} = Only(u)
  /\ \A u : {} \cup {u} = Only(u)
  /\ "exchange" \notin Only("begin") /\ "exchange" \notin Only("retrieve key")
  /\ "exchange" \notin Only("permit join")
  /\ "begin" \notin Only("exchange") /\ "begin" \notin Only("retrieve key")
  /\ "begin" \notin Only("permit join")
BY DEF Only

LEMMA StopStep ==
  ASSUME NetworkInv, NEW factory \in BOOLEAN, Stop(factory)
  PROVE  NetworkInv'
<1>1. power' = "off" /\ tasks' = <<>>
  BY DEF Stop
<1>2. Waiting(tasks')
  BY <1>1, ShortQueuesWait
<1>3. bdb' \in Bdb
  BY DEF Bdb, Results, Stop
<1>4. key' \in Key
  BY Bounds DEF Key, NoKey, Stop
<1>5. lib' \in Lib /\ lib'.act = "none" /\ ~lib'.joined
  <2>1. lib.new \in BOOLEAN
    BY DEF NetworkInv, Types, Lib
  <2> QED
    BY <2>1 DEF Lib, Stop
<1>6. app' \in App
  BY DEF App, Rates, FreshApp, Stop
<1> QED
  BY <1>1, <1>2, <1>3, <1>4, <1>5, <1>6 DEF NetworkInv, Types

LEMMA BootStep ==
  ASSUME NetworkInv, Boot
  PROVE  NetworkInv'
<1>1. "init done" \in Events
  BY DEF Events
<1>3. power' = "on" /\ tasks' = IF lib.new THEN One("init done") ELSE <<>>
  BY Zenon DEF Boot, One
<1>4. Waiting(tasks')
  BY <1>1, <1>3, ShortQueuesWait
<1>5. /\ lib \in Lib /\ ~lib.joined
      /\ lib' = [lib EXCEPT !.act = IF lib.new THEN "none" ELSE "start",
                            !.leaving = FALSE, !.removed = FALSE]
  BY DEF NetworkInv, Types, Boot
<1>6. /\ lib' \in Lib /\ lib'.act = IF lib.new THEN "none" ELSE "start"
      /\ lib'.new = lib.new /\ ~lib'.joined /\ ~lib'.leaving /\ ~lib'.removed
  BY <1>5 DEF Lib
<1>7. /\ bdb' \in Bdb
      /\ bdb'.state = "init" /\ ~bdb'.doing /\ bdb'.initOK /\ bdb'.onNet = ~lib.new
  BY <1>5 DEF Boot, Bdb, Results, Lib
<1>a. key' = NoKey /\ app' = FreshApp
  BY Zenon DEF Boot
<1>8. key' \in Key /\ key'.timers = {}
  BY <1>a, Bounds DEF NoKey, Key
<1>9. app' \in App /\ app'.steer = 0 /\ ~app'.backoff
  BY <1>a DEF FreshApp, App, Rates
<1>10. Types'
  BY <1>3, <1>4, <1>6, <1>7, <1>8, <1>9 DEF Types
<1>11. InInit'
  <2>1. CASE lib.new
    BY <1>3, <1>6, <1>7, <1>8, <1>9, <2>1 DEF InInit, Started
  <2>2. CASE ~lib.new
    BY <1>3, <1>6, <1>7, <1>8, <1>9, <2>2 DEF InInit, Starting
  <2> QED
    BY <2>1, <2>2
<1> QED
  BY <1>3, <1>4, <1>7, <1>10, <1>11 DEF NetworkInv

LEMMA NoJoinedStep ==
  ASSUME NetworkInv, NoJoinedTimer
  PROVE  NetworkInv'
<1>1. CASE lib.joined
  <2>1. /\ power = "on" /\ UNCHANGED <<power, bdb, tasks, key, lib>>
        /\ app' = [app EXCEPT !.noJoined = FALSE]
    BY <1>1 DEF NoJoinedTimer
  <2> QED
    BY <2>1, PollStep DEF NetworkInv, Types, App
<1>2. CASE ~lib.joined
  BY <1>2 DEF NoJoinedTimer, Busy, NetworkInv, Types
<1> QED
  BY <1>1, <1>2

LEMMA BackoffStep ==
  ASSUME NetworkInv, BackoffTimer
  PROVE  NetworkInv'
<1> USE DEF NetworkInv
<1>1. /\ power = "on" /\ power' = "on" /\ app.backoff
      /\ bdb' = bdb /\ tasks' = tasks /\ key' = key
      /\ app' = [app EXCEPT !.backoff = ~lib.new]
      /\ lib' = IF lib.act = "none" /\ ~lib.new THEN [lib EXCEPT !.act = "rejoin"] ELSE lib
  BY DEF BackoffTimer, RejoinReq
<1>2. Types'
  BY <1>1 DEF Types, App, Lib
<1>3. bdb.state = "idle" /\ OnNetwork /\ ~lib.leaving /\ key.timers = {}
  BY <1>1 DEF InInit, InIdle, InSteer, Planned, Searching
<1>4. OnNetwork'
  <2>1. CASE lib.new
    BY <1>1, <1>3, <2>1 DEF OnNetwork, Types, App, Lib
  <2>2. CASE ~lib.new /\ lib.act = "none"
    BY <1>1, <1>3, <2>2 DEF OnNetwork, Types, App, Lib
  <2>3. CASE ~lib.new /\ lib.act # "none"
    BY <1>1, <1>3, <2>3 DEF OnNetwork, Types, App, Lib
  <2> QED
    BY <2>1, <2>2, <2>3
<1>5. ~lib'.leaving
  BY <1>1, <1>3 DEF Types, Lib
<1> QED
  BY <1>1, <1>2, <1>3, <1>4, <1>5 DEF InIdle

LEMMA SteerStep ==
  ASSUME NetworkInv, SteerTimer
  PROVE  NetworkInv'
<1>1. power = "on" /\ power' = "on" /\ key' = key /\ lib' = lib
  BY DEF SteerTimer
<1>a. app.steer # 0 /\ app' = [app EXCEPT !.steer = @ - 1]
  BY DEF SteerTimer
<1>2. bdb.state = "idle" /\ Planned /\ app.steer = 1 /\ ~lib.leaving /\ key.timers = {}
  <2>1. ~InInit /\ ~InSteer /\ ~OnNetwork
    BY <1>a DEF InInit, InSteer, OnNetwork
  <2>2. bdb.state = "idle" /\ Planned /\ ~lib.leaving /\ key.timers = {}
    BY <1>1, <2>1 DEF InIdle, NetworkInv
  <2>3. app.steer = 1
    BY <1>a, <2>2, Zenon DEF Planned
  <2> QED
    BY <2>2, <2>3
<1>3. lib.act = "none" /\ ~bdb.doing /\ tasks \in {<<>>, One("rejoin done")}
  BY <1>a, <1>2 DEF Planned
<1>4. bdb' = [bdb EXCEPT !.doing = TRUE] /\ tasks' = Append(tasks, "start")
  BY <1>2, <1>3, Zenon DEF SteerTimer, Post
<1>5. "start" \in Events /\ "rejoin done" \in Events
  BY DEF Events
<1>6. \/ tasks = <<>> /\ tasks' = One("start")
      \/ tasks = One("rejoin done") /\ tasks' = Two("rejoin done", "start")
  <2>1. CASE tasks = <<>>
    BY <1>4, <1>5, <2>1, Queues
  <2>2. CASE tasks = One("rejoin done")
    BY <1>4, <1>5, <2>2, Queues
  <2> QED
    BY <1>3, <2>1, <2>2
<1>7. Waiting(tasks')
  BY <1>5, <1>6, ShortQueuesWait
<1>8. app' \in App /\ app'.steer = 0 /\ app'.backoff = app.backoff
  BY <1>a, <1>2 DEF NetworkInv, Types, App
<1>9. /\ bdb' \in Bdb
      /\ bdb'.doing /\ bdb'.result = bdb.result /\ bdb'.onNet = bdb.onNet
      /\ bdb'.state = "idle"
  BY <1>2, <1>4 DEF NetworkInv, Types, Bdb
<1>10. Types'
  BY <1>1, <1>7, <1>8, <1>9 DEF NetworkInv, Types
<1>11. Planned'
  <2>1. CASE tasks = <<>>
    <3>1. tasks' = One("start")
      BY <1>6, <2>1, EventNames
    <3> QED
      BY <1>1, <1>2, <1>8, <1>9, <3>1, EventNames DEF Planned, Searching
  <2>2. CASE tasks = One("rejoin done")
    <3>1. tasks' = Two("rejoin done", "start")
      BY <1>6, <2>2, EventNames
    <3> QED
      BY <1>1, <1>2, <1>8, <1>9, <2>2, <3>1, EventNames DEF Planned, Searching
  <2> QED
    BY <1>3, <2>1, <2>2
<1> QED
  BY <1>1, <1>2, <1>7, <1>9, <1>10, <1>11 DEF NetworkInv, InIdle

(***************************************************************************)
(* The exchange of the link key.                                           *)
(***************************************************************************)
LEMMA SteerInv ==
  ASSUME NetworkInv, power = "on", key.timers # {}
  PROVE  /\ bdb.state = "steer" /\ app.steer = 0 /\ ~app.backoff
         /\ Waits \/ Exchanges
BY DEF NetworkInv, InInit, InIdle, InSteer, Scans, Finishes

\* A step of the exchange that leads to the same or another part of it.
LEMMA SteerKept ==
  ASSUME NetworkInv, power' = "on", bdb' \in Bdb, bdb'.state = "steer", Waiting(tasks'),
         key' \in Key, lib' \in Lib, app' \in App, app'.steer = 0, ~app'.backoff,
         Scans' \/ Waits' \/ Exchanges' \/ Finishes'
  PROVE  NetworkInv'
BY DEF NetworkInv, Types, InSteer

LEMMA KeyDelayStep ==
  ASSUME NetworkInv, KeyDelay
  PROVE  NetworkInv'
<1>1. /\ power = "on" /\ power' = "on" /\ bdb' = bdb /\ lib' = lib /\ app' = app
  BY DEF KeyDelay
<1>2. PICK event \in key.timers \cap {"retrieve key", "permit join"} :
        key' = [key EXCEPT !.timers = @ \ {event}] /\ tasks' = Append(tasks, event)
  BY Zenon DEF KeyDelay, Post
<1>3. /\ bdb.state = "steer" /\ app.steer = 0 /\ ~app.backoff
      /\ Waits \/ Exchanges
  BY <1>1, <1>2, SteerInv
<1>4. key.timers = Only(event) /\ tasks \in {<<>>, One("rejoin done")}
  <2>1. ~Exchanges
    BY <1>2, OnlyOne DEF Exchanges
  <2>2. key.timers # Only("begin") /\ key.timers # {}
    BY <1>2, OnlyOne
  <2>3. /\ key.timers \in {Only("retrieve key"), Only("permit join")}
        /\ tasks \in {<<>>, One("rejoin done")}
    BY <1>3, <2>1, <2>2 DEF Waits
  <2>4. \A t, u : u \in Only(t) => u = t
    BY OnlyOne
  <2>5. key.timers = Only(event)
    BY <1>2, <2>3, <2>4, Zenon
  <2> QED
    BY <2>3, <2>5
<1>5. Waits
  BY <1>3, <1>4, OnlyOne DEF Exchanges
<1>6. key' \in Key /\ key'.timers = {}
  BY <1>2, <1>4, OnlyOne DEF NetworkInv, Types, Key
<1>7. event \in Events /\ "rejoin done" \in Events
  BY <1>2 DEF Events
<1>8. tasks' \in {One(event), Two("rejoin done", event)}
  <2>1. CASE tasks = <<>>
    BY <1>2, <1>7, <2>1, Queues
  <2>2. CASE tasks = One("rejoin done")
    BY <1>2, <1>7, <2>2, Queues
  <2> QED
    BY <1>4, <2>1, <2>2
<1>9. Waiting(tasks')
  BY <1>7, <1>8, ShortQueuesWait
<1>10. Waits'
  BY <1>1, <1>2, <1>5, <1>6, <1>8 DEF Waits
<1> QED
  BY <1>1, <1>3, <1>6, <1>9, <1>10, SteerKept DEF NetworkInv, Types

LEMMA KeyBeginStep ==
  ASSUME NetworkInv, KeyBegin
  PROVE  NetworkInv'
<1>1. /\ power = "on" /\ power' = "on" /\ "begin" \in key.timers
      /\ bdb' = bdb /\ tasks' = tasks /\ lib' = lib /\ app' = app
  BY DEF KeyBegin
<1>2. /\ bdb.state = "steer" /\ app.steer = 0 /\ ~app.backoff
      /\ Waits \/ Exchanges
  BY <1>1, SteerInv
<1>3. Waits /\ key.timers = Only("begin") /\ tasks = <<>>
  <2>1. ~Exchanges
    BY <1>1, OnlyOne DEF Exchanges
  <2> QED
    BY <1>1, <1>2, <2>1, OnlyOne DEF Waits
<1>4. key' \in Key /\ key'.timers = Only("exchange")
  <2>1. key' = [timers |-> (key.timers \ {"begin"}) \cup {"exchange"}, attempts |-> 0,
                asks |-> key.asks \cup {"node descriptor"}]
    BY DEF KeyBegin
  <2>2. 0 \in 0 .. Attempts + 1
    BY Bounds
  <2> HIDE DEF KeyBegin
  <2>3. key.asks \in SUBSET {"node descriptor", "link key"}
    BY DEF NetworkInv, Types, Key
  <2> QED
    BY <1>3, <2>1, <2>2, <2>3, OnlyOne DEF Key
<1>5. Exchanges'
  BY <1>1, <1>3, <1>4 DEF Exchanges, Waits
<1> QED
  BY <1>1, <1>2, <1>4, <1>5, SteerKept DEF NetworkInv, Types

\* The exchange ends.
LEMMA KeyDoneStep ==
  ASSUME NetworkInv, power = "on", power' = "on", lib' = lib, app' = app,
         Exchanges, bdb.state = "steer", app.steer = 0, ~app.backoff,
         NEW ok \in BOOLEAN, NEW attempts \in 0 .. Attempts + 1,
         NEW asks \in SUBSET {"node descriptor", "link key"},
         KeyDone(ok, attempts, asks), ok => lib.joined, ~lib.leaving
  PROVE  NetworkInv'
<1>1. "permit join" \in Events /\ "steer finish" \in Events
  BY DEF Events
<1>2. /\ key' = [timers |-> key.timers \ {"exchange"}, attempts |-> attempts, asks |-> asks]
      /\ bdb' = [bdb EXCEPT !.onNet = ok, !.result = IF ok THEN "success" ELSE "no link key"]
      /\ tasks' = Append(tasks, IF ok THEN "permit join" ELSE "steer finish")
      /\ tasks = <<>> /\ key.timers = Only("exchange")
  BY DEF KeyDone, Post, Exchanges
<1>3. tasks' = One(IF ok THEN "permit join" ELSE "steer finish")
  BY <1>1, <1>2, Queues
<1>4. key' \in Key /\ key'.timers = {}
  BY <1>2, OnlyOne DEF Key
<1>5. /\ bdb' \in Bdb /\ bdb'.state = "steer" /\ bdb'.onNet = ok
      /\ bdb'.result = IF ok THEN "success" ELSE "no link key"
  BY <1>2 DEF NetworkInv, Types, Bdb, Results
<1>6. Waiting(tasks')
  BY <1>1, <1>3, ShortQueuesWait
<1>7. CASE ok
  <2>1. Waits'
    BY <1>3, <1>4, <1>5, <1>7 DEF Waits, Exchanges
  <2> QED
    BY <1>4, <1>5, <1>6, <2>1, SteerKept DEF NetworkInv, Types
<1>8. CASE ~ok
  <2>1. Finishes'
    BY <1>3, <1>4, <1>5, <1>8 DEF Finishes, Exchanges, Searching
  <2> QED
    BY <1>4, <1>5, <1>6, <2>1, SteerKept DEF NetworkInv, Types
<1> QED
  BY <1>7, <1>8

LEMMA KeyTimeoutStep ==
  ASSUME NetworkInv, KeyTimeout
  PROVE  NetworkInv'
<1>1. power = "on" /\ power' = "on" /\ "exchange" \in key.timers /\ app' = app
  BY DEF KeyTimeout
<1>2. bdb.state = "steer" /\ app.steer = 0 /\ ~app.backoff /\ Exchanges
  <2>1. ~Waits
    BY <1>1, OnlyOne DEF Waits
  <2> QED
    BY <1>1, <2>1, SteerInv
<1>3. /\ key \in Key /\ key.timers = Only("exchange") /\ tasks = <<>> /\ Attempts \in Nat
      /\ key.attempts \in 0 .. Attempts + 1
  BY <1>2, Bounds DEF NetworkInv, Types, Key, Exchanges
<1>4. CASE /\ key.attempts < Attempts
           /\ key' = [key EXCEPT !.attempts = @ + 1, !.asks = @ \cup {"node descriptor"}]
           /\ UNCHANGED <<bdb, tasks, lib>>
  <2>1. key.attempts + 1 \in 0 .. Attempts + 1 /\ key.attempts # Attempts + 1
    BY <1>3, <1>4
  <2>2. key' \in Key /\ key'.timers = Only("exchange")
    BY <1>3, <1>4, <2>1 DEF Key
  <2>3. Exchanges'
    BY <1>2, <1>4, <2>1, <2>2 DEF Exchanges
  <2> QED
    BY <1>1, <1>2, <1>4, <2>2, <2>3, SteerKept DEF NetworkInv, Types
<1>5. CASE /\ key.attempts >= Attempts /\ ~lib.joined
           /\ KeyDone(FALSE, 0, key.asks) /\ UNCHANGED lib
  <2>1. 0 \in 0 .. Attempts + 1
    BY <1>3
  <2>2. key.asks \in SUBSET {"node descriptor", "link key"}
    BY <1>3 DEF Key
  <2>3. ~lib.leaving
    BY <1>2, <1>5 DEF Exchanges
  <2> QED
    BY <1>1, <1>2, <1>5, <2>1, <2>2, <2>3, KeyDoneStep
<1>6. CASE /\ key.attempts >= Attempts /\ lib.joined
           /\ key' = [key EXCEPT !.attempts = Attempts + 1]
           /\ lib' = [lib EXCEPT !.leaving = TRUE]
           /\ UNCHANGED <<bdb, tasks>>
  <2>1. Attempts + 1 \in 0 .. Attempts + 1
    BY <1>3
  <2>2. key' \in Key /\ key'.timers = Only("exchange") /\ key'.attempts = Attempts + 1
    BY <1>3, <1>6, <2>1 DEF Key
  <2>3. /\ lib' \in Lib /\ lib'.joined = lib.joined /\ lib'.new = lib.new
        /\ lib'.act = lib.act
    BY <1>6 DEF NetworkInv, Types, Lib
  <2>4. Exchanges'
    BY <1>2, <1>6, <2>2, <2>3 DEF Exchanges
  <2> QED
    BY <1>1, <1>2, <1>6, <2>2, <2>3, <2>4, SteerKept DEF NetworkInv, Types
<1> QED
  BY <1>4, <1>5, <1>6 DEF KeyTimeout

\* The answers, which come before the device gives up.
LEMMA AnswerStep ==
  ASSUME NetworkInv, Undisturbed,
         NodeDescriptor \/ \E ok \in BOOLEAN : LinkKey(ok)
  PROVE  NetworkInv'
<1>1. power = "on" /\ power' = "on" /\ lib' = lib /\ app' = app /\ InTime
  BY DEF NodeDescriptor, LinkKey
<1>2. "exchange" \in key.timers /\ key.attempts <= Attempts
  BY <1>1 DEF InTime, Undisturbed
<1>3. bdb.state = "steer" /\ app.steer = 0 /\ ~app.backoff /\ Exchanges
  <2>1. ~Waits
    BY <1>2, OnlyOne DEF Waits
  <2> QED
    BY <1>1, <1>2, <2>1, SteerInv
<1>4. /\ key \in Key /\ key.attempts \in 0 .. Attempts + 1 /\ key.attempts # Attempts + 1
      /\ key.asks \in SUBSET {"node descriptor", "link key"}
  <2>1. /\ key \in Key /\ key.attempts \in 0 .. Attempts + 1
        /\ key.asks \in SUBSET {"node descriptor", "link key"}
    BY DEF NetworkInv, Types, Key
  <2>2. \A n \in 0 .. Attempts + 1 : n <= Attempts => n # Attempts + 1
    BY Bounds
  <2> QED
    BY <1>2, <2>1, <2>2, Zenon
<1>5. lib.joined /\ ~lib.leaving /\ key.timers = Only("exchange") /\ tasks = <<>>
  BY <1>3, <1>4 DEF Exchanges
<1>6. ASSUME NEW ok \in BOOLEAN, NEW left \in SUBSET {"node descriptor", "link key"},
             KeyDone(ok, key.attempts, left)
      PROVE  NetworkInv'
  BY <1>1, <1>3, <1>4, <1>5, <1>6, KeyDoneStep
<1>7. ASSUME NEW asks \in SUBSET {"node descriptor", "link key"},
             key' = [key EXCEPT !.asks = asks], tasks' = tasks,
             bdb' = bdb \/ bdb' = [bdb EXCEPT !.onNet = FALSE]
      PROVE  NetworkInv'
  <2>1. /\ key' \in Key /\ key'.timers = key.timers /\ key'.attempts = key.attempts
    BY <1>4, <1>7 DEF Key
  <2>2. bdb' \in Bdb /\ bdb'.state = "steer"
    BY <1>3, <1>7 DEF NetworkInv, Types, Bdb
  <2>3. Exchanges'
    BY <1>1, <1>3, <1>7, <2>1 DEF Exchanges
  <2> QED
    BY <1>1, <1>3, <1>7, <2>1, <2>2, <2>3, SteerKept DEF NetworkInv, Types
<1>8. CASE NodeDescriptor
  <2> DEFINE left == key.asks \ {"node descriptor"}
  <2>1. /\ left \in SUBSET {"node descriptor", "link key"}
        /\ left \cup {"link key"} \in SUBSET {"node descriptor", "link key"}
    BY <1>4
  <2>2. \/ key' = [key EXCEPT !.asks = left] /\ bdb' = bdb /\ tasks' = tasks
        \/ /\ key' = [key EXCEPT !.asks = left \cup {"link key"}]
           /\ bdb' = [bdb EXCEPT !.onNet = FALSE] /\ tasks' = tasks
        \/ KeyDone(TRUE, key.attempts, left)
    BY <1>8, Zenon DEF NodeDescriptor
  <2> HIDE DEF left
  <2> QED
    BY <1>6, <1>7, <2>1, <2>2
<1>9. ASSUME NEW ok \in BOOLEAN, LinkKey(ok)
      PROVE  NetworkInv'
  <2>1. key.asks \ {"link key"} \in SUBSET {"node descriptor", "link key"}
    BY <1>4
  <2> QED
    BY <1>6, <1>9, <2>1 DEF LinkKey
<1> QED
  BY <1>8, <1>9

(***************************************************************************)
(* What the stack in the libraries tells.                                  *)
(***************************************************************************)
\* A step that leads to a state at rest.
LEMMA IdleKept ==
  ASSUME NetworkInv, power' = "on", bdb' \in Bdb, bdb'.state = "idle", Waiting(tasks'),
         key' \in Key, lib' \in Lib, app' \in App, key'.timers = {}, ~lib'.leaving,
         Planned' \/ OnNetwork'
  PROVE  NetworkInv'
BY DEF NetworkInv, Types, InIdle

LEMMA LeavesStep ==
  ASSUME NetworkInv, Leaves
  PROVE  NetworkInv'
<1>1. /\ power = "on" /\ power' = "on" /\ lib.joined /\ lib.act = "none"
      /\ lib.leaving \/ bdb.state = "idle"
      /\ bdb' = bdb /\ tasks' = tasks /\ key' = key
  BY DEF Leaves
<1>2. /\ lib' = [lib EXCEPT !.joined = FALSE, !.new = TRUE, !.leaving = FALSE,
                            !.removed = "exchange" \notin key.timers]
      /\ app' = [app EXCEPT !.backoff = FALSE]
  BY DEF Leaves
<1>3. /\ lib' \in Lib /\ lib'.act = lib.act /\ ~lib'.joined /\ lib'.new /\ ~lib'.leaving
      /\ lib'.removed = ("exchange" \notin key.timers)
  BY <1>2 DEF NetworkInv, Types, Lib
<1>4. app' \in App /\ app'.steer = app.steer /\ ~app'.backoff
  BY <1>2 DEF NetworkInv, Types, App
<1>5. CASE lib.leaving
  <2>1. bdb.state = "steer" /\ Exchanges /\ app.steer = 0
    BY <1>1, <1>5 DEF NetworkInv, InInit, InIdle, InSteer, Scans, Waits, Finishes
  <2>2. Exchanges'
    BY <1>1, <1>3, <1>5, <2>1 DEF Exchanges
  <2> QED
    BY <1>1, <1>3, <1>4, <2>1, <2>2, SteerKept DEF NetworkInv, Types
<1>6. CASE ~lib.leaving
  <2>1. bdb.state = "idle" /\ key.timers = {} /\ (Planned \/ OnNetwork)
    BY <1>1, <1>6 DEF NetworkInv, InIdle
  <2>2. lib'.removed
    BY <1>3, <2>1
  <2>3. Planned => Planned'
    BY <1>1, <1>3, <1>4 DEF Planned, Searching
  <2>4. OnNetwork => OnNetwork'
    BY <1>1, <1>3, <1>4, <2>2 DEF OnNetwork
  <2> QED
    BY <1>1, <1>3, <1>4, <2>1, <2>3, <2>4, IdleKept DEF NetworkInv, Types
<1> QED
  BY <1>5, <1>6

\* At rest on a network, the confirmation of a rejoin or of a loss is posted.
LEMMA ConfirmationKept ==
  ASSUME NetworkInv, power' = "on", bdb' \in Bdb, bdb'.state = "idle", ~bdb'.doing,
         tasks' = Append(tasks, "rejoin done"), Len(tasks) < MaxTasks,
         key' = key, app' = app, OnNetwork, key.timers = {}, ~lib.new, ~lib.leaving,
         lib' \in Lib, lib'.act = "none", ~lib'.new, ~lib'.leaving,
         bdb'.result \in {"success", "parent lost", "rejoin failure"},
         lib'.joined = (bdb'.result = "success")
  PROVE  NetworkInv'
<1>1. "rejoin done" \in Events
  BY DEF Events
<1>2. Waiting(tasks')
  BY <1>1, PostedWaits DEF NetworkInv, Types
<1>3. Confirmations(tasks') /\ Confirms(tasks')
  BY ConfirmationPosted, Zenon DEF OnNetwork
<1>4. OnNetwork'
  BY <1>3 DEF OnNetwork
<1> QED
  BY <1>2, <1>4, IdleKept DEF NetworkInv, Types

LEMMA ParentLostStep ==
  ASSUME NetworkInv, Undisturbed, ParentLost
  PROVE  NetworkInv'
<1>1. /\ power = "on" /\ power' = "on" /\ lib.joined /\ lib.act = "none"
      /\ bdb.state # "steer" /\ Len(tasks) < MaxTasks /\ app' = app
      /\ lib' = [lib EXCEPT !.joined = FALSE]
  BY DEF ParentLost, Undisturbed
<1>2. DevCnf("lost")
  BY DEF ParentLost
<1>3. /\ lib' \in Lib /\ lib'.act = "none" /\ ~lib'.joined /\ lib'.new = lib.new
      /\ lib'.leaving = lib.leaving /\ lib'.removed = lib.removed
  BY <1>1 DEF NetworkInv, Types, Lib
<1>4. {"init done", "start", "rejoin done"} \subseteq Events
  BY DEF Events
<1>5. CASE bdb.state = "idle"
  <2>1. /\ bdb' = [bdb EXCEPT !.onNet = @ \/ FALSE, !.result = "parent lost"]
        /\ tasks' = Append(tasks, "rejoin done") /\ key' = key
    BY <1>2, <1>5 DEF DevCnf, Outcome, Post
  <2>2. /\ bdb' \in Bdb /\ bdb'.state = "idle" /\ bdb'.doing = bdb.doing
        /\ bdb'.result = "parent lost" /\ bdb'.onNet = bdb.onNet
    BY <1>5, <2>1 DEF NetworkInv, Types, Bdb, Results
  <2>3. (Planned \/ OnNetwork) /\ ~lib.leaving /\ key.timers = {}
    BY <1>1, <1>5 DEF NetworkInv, InIdle
  <2>4. CASE Planned
    <3>1. \/ tasks = <<>> /\ app.steer = 1 /\ ~bdb.doing
          \/ tasks = One("start") /\ app.steer = 0 /\ bdb.doing
      BY <1>1, <2>4, Zenon DEF Planned
    <3>2. \/ tasks = <<>> /\ tasks' = One("rejoin done")
          \/ tasks = One("start") /\ tasks' = Two("start", "rejoin done")
      <4>1. CASE tasks = <<>>
        BY <1>4, <2>1, <4>1, Queues
      <4>2. CASE tasks = One("start")
        BY <1>4, <2>1, <4>2, Queues
      <4> QED
        BY <3>1, <4>1, <4>2
    <3>3. Waiting(tasks')
      BY <1>4, <3>2, ShortQueuesWait
    <3>4. Searching'
      BY <1>1, <1>3, <2>2, <2>4 DEF Planned, Searching
    <3>5. CASE tasks = <<>>
      <4>1. tasks' = One("rejoin done") /\ app'.steer = 1 /\ ~bdb'.doing
        BY <1>1, <1>4, <2>2, <3>1, <3>2, <3>5, Queues
      <4> QED
        BY <1>1, <1>3, <2>1, <2>2, <2>3, <3>3, <3>4, <4>1, IdleKept
        DEF Planned, NetworkInv, Types
    <3>6. CASE tasks = One("start")
      <4>1. tasks' = Two("start", "rejoin done") /\ app'.steer = 0 /\ bdb'.doing
        BY <1>1, <1>4, <2>2, <3>1, <3>2, <3>6, Queues
      <4> QED
        BY <1>1, <1>3, <2>1, <2>2, <2>3, <3>3, <3>4, <4>1, IdleKept
        DEF Planned, NetworkInv, Types
    <3> QED
      BY <3>1, <3>5, <3>6
  <2>5. CASE OnNetwork
    <3>1. ~lib.new /\ ~bdb.doing
      BY <1>1, <2>5 DEF OnNetwork
    <3>2. lib'.joined \in BOOLEAN
      BY <1>3 DEF Lib
    <3>3. /\ bdb'.result \in {"success", "parent lost", "rejoin failure"}
          /\ lib'.joined = (bdb'.result = "success")
      BY <1>3, <2>2, <3>2
    <3> QED
      BY <1>1, <1>3, <2>1, <2>2, <2>3, <2>5, <3>1, <3>3, ConfirmationKept
  <2> QED
    BY <2>3, <2>4, <2>5
<1>6. CASE bdb.state = "init"
  <2>1. /\ bdb' = [bdb EXCEPT !.initOK = FALSE]
        /\ tasks' = Append(tasks, "init done") /\ key' = key
    BY <1>2, <1>6 DEF DevCnf, Post
  <2>2. InInit
    BY <1>1, <1>6 DEF NetworkInv
  <2>3. tasks = One("init done") /\ ~lib.new /\ bdb.onNet
    <3>1. ~Starting
      BY <1>1 DEF Starting
    <3>2. bdb.initOK \in BOOLEAN /\ bdb.onNet \in BOOLEAN /\ lib.new \in BOOLEAN
      BY DEF NetworkInv, Types, Bdb, Lib
    <3> QED
      BY <1>1, <2>2, <3>1, <3>2 DEF InInit, Started
  <2>4. tasks' = Two("init done", "init done")
    BY <1>4, <2>1, <2>3, Queues
  <2>5. Waiting(tasks')
    BY <1>4, <2>4, ShortQueuesWait
  <2>6. /\ bdb' \in Bdb /\ bdb'.state = "init" /\ bdb'.doing = bdb.doing
        /\ ~bdb'.initOK /\ bdb'.onNet = bdb.onNet
    BY <1>6, <2>1 DEF NetworkInv, Types, Bdb
  <2>7. InInit'
    BY <1>1, <1>3, <2>1, <2>2, <2>3, <2>4, <2>6 DEF InInit, Started
  <2> QED
    BY <1>1, <1>3, <2>1, <2>5, <2>6, <2>7 DEF NetworkInv, Types
<1> QED
  BY <1>1, <1>5, <1>6 DEF NetworkInv

LEMMA FoundStep ==
  ASSUME NetworkInv, NEW found \in BOOLEAN, Answer(found)
  PROVE  NetworkInv'
<1> DEFINE status == IF found THEN "joined" ELSE "failed"
<1>1. /\ power = "on" /\ power' = "on" /\ lib.act # "none"
      /\ Len(tasks) < MaxTasks /\ app' = app
      /\ lib' = [lib EXCEPT !.act = "none", !.joined = found]
  BY DEF Answer
<1>2. DevCnf(status) /\ (status = "joined") = found
  BY DEF Answer
<1>3. /\ lib' \in Lib /\ lib'.act = "none" /\ lib'.joined = found /\ lib'.new = lib.new
      /\ lib'.leaving = lib.leaving /\ lib'.removed = lib.removed
  BY <1>1 DEF NetworkInv, Types, Lib
<1>4. /\ "init done" \in Events /\ "rejoin done" \in Events /\ "steer finish" \in Events
  BY DEF Events
<1>5. CASE bdb.state = "idle"
  <2>1. /\ bdb' = [bdb EXCEPT !.onNet = @ \/ found, !.result = Outcome(status)]
        /\ tasks' = Append(tasks, "rejoin done") /\ key' = key
    BY <1>2, <1>5 DEF DevCnf, Post
  <2>2. Outcome(status) = IF found THEN "success" ELSE "rejoin failure"
    BY DEF Outcome
  <2>3. OnNetwork /\ ~lib.leaving /\ key.timers = {}
    BY <1>1, <1>5 DEF NetworkInv, InIdle, Planned
  <2>4. ~lib.new /\ ~bdb.doing
    BY <1>1, <2>3 DEF OnNetwork
  <2>5. /\ bdb' \in Bdb /\ bdb'.state = "idle" /\ bdb'.doing = bdb.doing
        /\ bdb'.result = IF found THEN "success" ELSE "rejoin failure"
    <3> HIDE DEF status
    <3> QED
      BY <1>5, <2>1, <2>2 DEF NetworkInv, Types, Bdb, Results
  <2>6. /\ bdb'.result \in {"success", "parent lost", "rejoin failure"}
        /\ lib'.joined = (bdb'.result = "success")
    BY <1>3, <2>5
  <2> QED
    BY <1>1, <1>3, <2>1, <2>3, <2>4, <2>5, <2>6, ConfirmationKept
<1>6. CASE bdb.state = "init"
  <2>1. /\ bdb' = [bdb EXCEPT !.initOK = found]
        /\ tasks' = Append(tasks, "init done") /\ key' = key
    BY <1>2, <1>6 DEF DevCnf, Post
  <2>2. InInit /\ Starting
    BY <1>1, <1>6 DEF NetworkInv, InInit, Started
  <2>3. tasks' = One("init done")
    BY <1>4, <2>1, <2>2, Queues DEF Starting
  <2>4. Waiting(tasks')
    BY <1>4, <2>3, ShortQueuesWait
  <2>5. /\ bdb' \in Bdb /\ bdb'.state = "init" /\ bdb'.doing = bdb.doing
        /\ bdb'.initOK = found /\ bdb'.onNet = bdb.onNet
    BY <1>6, <2>1 DEF NetworkInv, Types, Bdb
  <2>6. Started'
    <3>1. lib'.new \in BOOLEAN /\ bdb'.onNet \in BOOLEAN
      BY <1>3, <2>5 DEF Lib, Bdb
    <3>2. ~lib'.new /\ bdb'.onNet /\ bdb'.initOK = lib'.joined
      BY <1>3, <2>2, <2>5 DEF Starting
    <3> QED
      BY <1>3, <2>3, <3>1, <3>2 DEF Started
  <2>7. InInit'
    BY <1>1, <1>3, <2>1, <2>2, <2>5, <2>6 DEF InInit
  <2> QED
    BY <1>1, <1>3, <2>1, <2>4, <2>5, <2>7 DEF NetworkInv, Types
<1>7. CASE bdb.state = "steer"
  <2>1. Scans /\ app.steer = 0 /\ ~app.backoff
    BY <1>1, <1>7 DEF NetworkInv, InSteer, Waits, Exchanges, Finishes
  <2>2. CASE found
    <3>1. bdb' = [bdb EXCEPT !.onNet = TRUE, !.result = "success"] /\ tasks' = tasks
      BY <1>2, <1>7, <2>2 DEF DevCnf
    <3>2. PICK security \in {"retrieve key", "permit join"} :
            key' = [key EXCEPT !.timers = @ \cup {security}]
      BY <1>2, <1>7, <2>2, Zenon DEF DevCnf
    <3>3. /\ bdb' \in Bdb /\ bdb'.state = "steer" /\ bdb'.onNet /\ bdb'.result = "success"
      BY <1>7, <3>1 DEF NetworkInv, Types, Bdb, Results
    <3>4. key' \in Key /\ key'.timers = Only(security)
      BY <2>1, <3>2, OnlyOne DEF Scans, NetworkInv, Types, Key
    <3>5. key'.timers \in {Only("retrieve key"), Only("permit join")}
      BY <3>2, <3>4
    <3>6. Waits'
      BY <1>3, <2>1, <2>2, <3>1, <3>3, <3>5 DEF Waits, Scans, Searching
    <3> QED
      BY <1>1, <1>3, <2>1, <3>1, <3>3, <3>4, <3>6, SteerKept DEF NetworkInv, Types
  <2>3. CASE ~found
    <3>1. /\ bdb' = [bdb EXCEPT !.result = "no network"] /\ key' = key
          /\ tasks' = Append(tasks, "steer finish")
      BY <1>2, <1>7, <2>3 DEF DevCnf, Post
    <3>2. /\ bdb' \in Bdb /\ bdb'.state = "steer" /\ bdb'.onNet = bdb.onNet
          /\ bdb'.result = "no network"
      BY <1>7, <3>1 DEF NetworkInv, Types, Bdb, Results
    <3>3. tasks' \in {One("steer finish"), Two("rejoin done", "steer finish")}
      <4>1. CASE tasks = <<>>
        BY <1>4, <3>1, <4>1, Queues
      <4>2. CASE tasks = One("rejoin done")
        BY <1>4, <3>1, <4>2, Queues
      <4> QED
        BY <2>1, <4>1, <4>2 DEF Scans
    <3>4. Waiting(tasks')
      BY <1>4, <3>3, ShortQueuesWait
    <3>5. Finishes'
      BY <1>1, <1>3, <2>1, <2>3, <3>1, <3>2, <3>3 DEF Finishes, Scans, Searching
    <3> QED
      BY <1>1, <1>3, <2>1, <3>1, <3>2, <3>4, <3>5, SteerKept DEF NetworkInv, Types
  <2> QED
    BY <2>2, <2>3
<1> QED
  BY <1>1, <1>5, <1>6, <1>7 DEF NetworkInv

(***************************************************************************)
(* bdb_task.                                                               *)
(***************************************************************************)
LEMMA Confirmed ==
  ASSUME NetworkInv, Confirm
  PROVE  /\ bdb' \in Bdb /\ bdb'.state = "idle" /\ ~bdb'.doing
         /\ bdb'.result = bdb.result /\ bdb'.onNet = bdb.onNet
BY DEF Confirm, NetworkInv, Types, Bdb

\* What the callbacks leave of the timers.
LEMMA Callbacks ==
  ASSUME NetworkInv
  PROVE  /\ /\ Succeeded(app) \in App /\ Succeeded(app).steer = app.steer
            /\ ~Succeeded(app).backoff /\ Succeeded(app).poll
         /\ /\ RejoinFailed(app) \in App /\ RejoinFailed(app).steer = app.steer
            /\ RejoinFailed(app).backoff
         /\ app.steer = 0 => /\ Unjoined(app) \in App /\ Unjoined(app).steer = 1
                             /\ Unjoined(app).backoff = app.backoff
<1>1. app \in App
  BY DEF NetworkInv, Types
<1>2. /\ Succeeded(app) \in App /\ Succeeded(app).steer = app.steer
      /\ ~Succeeded(app).backoff /\ Succeeded(app).poll
  BY <1>1 DEF Succeeded, ShortPoll, App, Rates
<1>3. /\ RejoinFailed(app) \in App /\ RejoinFailed(app).steer = app.steer
      /\ RejoinFailed(app).backoff
  BY <1>1 DEF RejoinFailed, App
<1>4. app.steer = 0 => /\ Unjoined(app) \in App /\ Unjoined(app).steer = 1
                       /\ Unjoined(app).backoff = app.backoff
  <2> SUFFICES ASSUME app.steer = 0
               PROVE  /\ Unjoined(app) \in App /\ Unjoined(app).steer = 1
                      /\ Unjoined(app).backoff = app.backoff
    BY Zenon
  <2>1. Unjoined(app) = [app EXCEPT !.steer = 1, !.noJoined = TRUE]
    BY DEF Unjoined
  <2>2. PICK u : u = [app EXCEPT !.steer = 1]
    OBVIOUS
  <2>3. Unjoined(app) = [u EXCEPT !.noJoined = TRUE]
    BY <1>1, <2>1, <2>2 DEF App
  <2>4. u \in App /\ u.steer = 1 /\ u.backoff = app.backoff
    BY <1>1, <2>2 DEF App
  <2> QED
    BY <2>3, <2>4 DEF App
<1> QED
  BY <1>2, <1>3, <1>4

\* The first confirmation, by the state in which bdb_init left the device.
LEMMA TaskInitStep ==
  ASSUME NetworkInv, Task, bdb.state = "init"
  PROVE  NetworkInv'
<1>1. power = "on" /\ power' = "on" /\ tasks # <<>>
  BY DEF Task, NetworkInv
<1>2. InInit /\ Started
  BY <1>1 DEF NetworkInv, InInit, Starting
<1>3. "init done" \in Events
  BY DEF Events
<1>4. Head(tasks) = "init done"
  <2>1. tasks \in {One("init done"), Two("init done", "init done")}
    BY <1>2 DEF Started
  <2>2. CASE tasks = One("init done")
    BY <1>3, <2>2, Queues, Zenon
  <2>3. CASE tasks = Two("init done", "init done")
    BY <1>3, <2>3, Queues, Zenon
  <2> QED
    BY <2>1, <2>2, <2>3
<1>5. TaskInInit("init done")
  BY <1>4 DEF Task
<1>6. /\ bdb' = [bdb EXCEPT !.state = "idle"] /\ app' = InitCb(app)
      /\ key' = key /\ lib' = lib /\ tasks' = Tail(tasks)
  BY <1>5 DEF TaskInInit, Nothing
<1>7. /\ bdb' \in Bdb /\ bdb'.state = "idle" /\ bdb'.doing = bdb.doing
      /\ bdb'.onNet = bdb.onNet /\ bdb'.result = bdb.result
  BY <1>6 DEF NetworkInv, Types, Bdb
<1>8. Waiting(tasks')
  BY <1>1, <1>6, TakenWaits DEF NetworkInv, Types
<1>9. /\ app.steer = 0 /\ ~app.backoff /\ ~bdb.doing /\ ~lib.leaving /\ ~lib.removed
      /\ key.timers = {} /\ lib.act = "none"
  BY <1>2 DEF InInit, Started
<1>10. CASE tasks = One("init done")
  <2>1. tasks' = <<>>
    BY <1>3, <1>6, <1>10, Queues, Zenon
  <2>2. CASE lib.new
    <3>1. bdb.initOK /\ ~bdb.onNet /\ ~lib.joined
      BY <1>2, <1>3, <1>10, <2>2, Queues DEF Started
    <3>2. app' = [app EXCEPT !.steer = @ + 1]
      BY <1>6, <3>1 DEF InitCb
    <3>3. app' \in App /\ app'.steer = 1 /\ ~app'.backoff
      BY <1>9, <3>2 DEF NetworkInv, Types, App
    <3>4. Planned'
      BY <1>6, <1>7, <1>9, <2>1, <2>2, <3>1, <3>3, Queues, <1>3, EventNames
      DEF Planned, Searching
    <3> QED
      BY <1>1, <1>6, <1>7, <1>8, <1>9, <3>3, <3>4, IdleKept DEF NetworkInv, Types
  <2>3. CASE ~lib.new /\ lib.joined
    <3>1. bdb.initOK /\ bdb.onNet
      BY <1>2, <1>3, <1>10, <2>3, Queues DEF Started
    <3>2. app' = ShortPoll(app)
      BY <1>6, <3>1 DEF InitCb
    <3>3. app' \in App /\ app'.steer = 0 /\ ~app'.backoff /\ app'.poll
      BY <1>9, <3>2 DEF ShortPoll, NetworkInv, Types, App, Rates
    <3>4. OnNetwork'
      BY <1>6, <1>7, <1>9, <2>1, <2>3, <3>3, NoConfirmation DEF OnNetwork
    <3> QED
      BY <1>1, <1>6, <1>7, <1>8, <1>9, <3>3, <3>4, IdleKept DEF NetworkInv, Types
  <2>4. CASE ~lib.new /\ ~lib.joined
    <3>1. ~bdb.initOK /\ bdb.onNet
      BY <1>2, <1>3, <1>10, <2>4, Queues DEF Started
    <3>2. app' = [app EXCEPT !.backoff = TRUE]
      BY <1>6, <3>1 DEF InitCb
    <3>3. app' \in App /\ app'.steer = 0 /\ app'.backoff
      BY <1>9, <3>2 DEF NetworkInv, Types, App
    <3>4. OnNetwork'
      BY <1>6, <1>7, <1>9, <2>1, <2>4, <3>3, NoConfirmation DEF OnNetwork
    <3> QED
      BY <1>1, <1>6, <1>7, <1>8, <1>9, <3>3, <3>4, IdleKept DEF NetworkInv, Types
  <2> QED
    BY <2>2, <2>3, <2>4
<1>11. CASE tasks = Two("init done", "init done")
  <2>1. tasks' = One("init done")
    BY <1>3, <1>6, <1>11, Queues, Zenon
  <2>2. ~lib.new /\ bdb.onNet /\ ~bdb.initOK /\ ~lib.joined
    BY <1>2, <1>3, <1>11, Queues DEF Started
  <2>3. app' = [app EXCEPT !.backoff = TRUE]
    BY <1>6, <2>2 DEF InitCb
  <2>4. app' \in App /\ app'.steer = 0 /\ app'.backoff
    BY <1>9, <2>3 DEF NetworkInv, Types, App
  <2>5. OnNetwork'
    BY <1>6, <1>7, <1>9, <2>1, <2>2, <2>4, NoConfirmation DEF OnNetwork
  <2> QED
    BY <1>1, <1>6, <1>7, <1>8, <1>9, <2>4, <2>5, IdleKept DEF NetworkInv, Types
<1> QED
  BY <1>2, <1>10, <1>11 DEF Started

\* At rest, on the way to a first network.
LEMMA TaskPlannedStep ==
  ASSUME NetworkInv, Task, bdb.state = "idle", Planned
  PROVE  NetworkInv'
<1>1. power = "on" /\ power' = "on" /\ tasks # <<>>
  BY DEF Task, NetworkInv
<1>2. ~lib.leaving /\ key.timers = {} /\ app \in App /\ key \in Key /\ lib \in Lib
  BY <1>1 DEF NetworkInv, Types, InIdle, OnNetwork, Planned, InInit, InSteer
<1>3. "start" \in Events /\ "rejoin done" \in Events
  BY DEF Events
<1>4. /\ Searching /\ lib.act = "none" /\ lib.new /\ ~bdb.onNet /\ ~app.backoff
  BY DEF Planned, Searching
<1>5. \/ tasks = One("start") \/ tasks = Two("start", "rejoin done")
      \/ tasks = One("rejoin done") \/ tasks = Two("rejoin done", "start")
  BY <1>1 DEF Planned
<1>6. Waiting(tasks')
  <2>1. Waiting(Tail(tasks))
    BY <1>1, TakenWaits DEF NetworkInv, Types
  <2>2. Head(tasks) = "start" \/ Head(tasks) = "rejoin done"
    <3>1. CASE tasks = One("start")
      BY <3>1, QueueEnds
    <3>2. CASE tasks = Two("start", "rejoin done")
      BY <3>2, QueueEnds
    <3>3. CASE tasks = One("rejoin done")
      BY <3>3, QueueEnds
    <3>4. CASE tasks = Two("rejoin done", "start")
      BY <3>4, QueueEnds
    <3> QED
      BY <1>5, <3>1, <3>2, <3>3, <3>4
  <2>3. TaskInIdle(Head(tasks)) /\ Head(tasks) # "permitted"
    BY <2>2 DEF Task
  <2>4. tasks' = Tail(tasks)
    BY <1>4, <2>3, <2>2 DEF TaskInIdle, Nothing
  <2> QED
    BY <2>1, <2>4
<1>7. CASE tasks = One("start") \/ tasks = Two("start", "rejoin done")
  <2>1. Head(tasks) = "start" /\ Tail(tasks) \in {<<>>, One("rejoin done")}
    <3>1. CASE tasks = One("start")
      BY <3>1, QueueEnds
    <3>2. CASE tasks = Two("start", "rejoin done")
      BY <3>2, QueueEnds
    <3> QED
      BY <1>7, <3>1, <3>2
  <2>2. TaskInIdle("start")
    BY <2>1 DEF Task
  <2>3. /\ bdb' = [bdb EXCEPT !.state = "steer"] /\ lib' = [lib EXCEPT !.act = "scan"]
        /\ key' = key /\ app' = app /\ tasks' = Tail(tasks)
    BY <1>4, <2>2 DEF TaskInIdle, Nothing
  <2>4. bdb' \in Bdb /\ bdb'.state = "steer" /\ bdb'.onNet = bdb.onNet
    BY <2>3 DEF NetworkInv, Types, Bdb
  <2>5. lib' \in Lib /\ lib'.act = "scan" /\ lib'.new = lib.new /\ ~lib'.leaving
    BY <1>2, <2>3 DEF Lib
  <2>6. app.steer = 0
    <3>1. tasks # <<>> /\ tasks # One("rejoin done")
      BY <1>7, EventNames
    <3> QED
      BY <3>1 DEF Planned
  <2>7. Scans'
    BY <1>2, <1>4, <2>1, <2>3, <2>4, <2>5 DEF Scans, Searching
  <2> QED
    BY <1>1, <1>2, <1>4, <1>6, <2>3, <2>4, <2>5, <2>6, <2>7, SteerKept
<1>8. CASE tasks = One("rejoin done") \/ tasks = Two("rejoin done", "start")
  <2>1. Head(tasks) = "rejoin done"
    BY <1>3, <1>8, Queues
  <2>2. TaskInIdle("rejoin done")
    BY <2>1 DEF Task
  <2>3. Confirm /\ key' = key /\ tasks' = Tail(tasks)
    BY <2>2 DEF TaskInIdle, Nothing
  <2>4. bdb.result = "parent lost" /\ ~lib.joined
    BY <1>8 DEF Planned
  <2>5. app' = app /\ lib' = lib
    BY <1>4, <2>3, <2>4 DEF Confirm, Told, RejoinReq
  <2>6. /\ bdb' \in Bdb /\ bdb'.state = "idle" /\ ~bdb'.doing
        /\ bdb'.result = bdb.result /\ bdb'.onNet = bdb.onNet
    BY <2>3, Confirmed
  <2>7. Planned'
    <3>1. CASE tasks = One("rejoin done")
      <4>1. tasks' = <<>> /\ app.steer = 1
        <5>1. tasks' = <<>>
          BY <1>3, <2>3, <3>1, Queues, Zenon
        <5>2. app.steer = 1
          BY <3>1, EventNames, Zenon DEF Planned
        <5> QED
          BY <5>1, <5>2
      <4> QED
        BY <1>4, <2>4, <2>5, <2>6, <4>1 DEF Planned, Searching
    <3>2. CASE tasks = Two("rejoin done", "start")
      <4>1. tasks' = One("start")
        BY <1>3, <2>3, <3>2, Queues, Zenon
      <4>2. app.steer = 0
        BY <1>3, <3>2, EventNames, Queues DEF Planned
      <4> QED
        BY <1>4, <2>4, <2>5, <2>6, <4>1, <4>2, EventNames DEF Planned, Searching
    <3> QED
      BY <1>8, <3>1, <3>2
  <2> QED
    BY <1>1, <1>2, <1>6, <2>3, <2>5, <2>6, <2>7, IdleKept
<1> QED
  BY <1>5, <1>7, <1>8

\* At rest on a network, or rejoining it.
LEMMA TaskOnNetworkStep ==
  ASSUME NetworkInv, Task, bdb.state = "idle", OnNetwork, ~lib.leaving, key.timers = {}
  PROVE  NetworkInv'
<1>1. power = "on" /\ power' = "on" /\ tasks # <<>>
  BY DEF Task, NetworkInv
<1>2. app \in App /\ key \in Key /\ lib \in Lib /\ bdb \in Bdb
  BY DEF NetworkInv, Types
<1>3. /\ Confirmations(Tail(tasks)) /\ Head(tasks) \in {"rejoin done", "init done"}
      /\ Head(tasks) = "rejoin done" => Confirms(tasks)
      /\ Confirms(Tail(tasks)) => Confirms(tasks)
      /\ Head(tasks) = "init done" /\ Confirms(tasks) => Confirms(Tail(tasks))
  BY <1>1, ConfirmationTaken, Zenon DEF OnNetwork
<1>4. TaskInIdle(Head(tasks))
  BY <1>3 DEF Task
<1>5. key' = key /\ tasks' = Tail(tasks)
  BY <1>3, <1>4 DEF TaskInIdle, Nothing
<1>6. Waiting(tasks')
  BY <1>1, <1>5, TakenWaits DEF NetworkInv, Types
<1>7. CASE Head(tasks) = "init done"
  <2>1. bdb' = bdb /\ lib' = lib /\ app' = app
    BY <1>4, <1>7 DEF TaskInIdle, Ignore
  <2>2. Confirms(tasks') = Confirms(tasks)
    BY <1>3, <1>5, <1>7 DEF Confirms
  <2>3. OnNetwork'
    BY <1>3, <1>5, <2>1, <2>2 DEF OnNetwork
  <2> QED
    BY <1>1, <1>2, <1>5, <1>6, <2>1, <2>3, IdleKept
<1>8. CASE Head(tasks) = "rejoin done"
  <2>1. Confirm /\ Confirms(tasks)
    BY <1>3, <1>4, <1>8 DEF TaskInIdle
  <2>2. /\ bdb' \in Bdb /\ bdb'.state = "idle" /\ ~bdb'.doing
        /\ bdb'.result = bdb.result
    BY <2>1, Confirmed
  <2>3. CASE bdb.result = "success"
    <3>1. app' = Succeeded(app) /\ lib' = lib
      BY <2>1, <2>3 DEF Confirm, Told
    <3>2. app' \in App /\ app'.steer = app.steer /\ ~app'.backoff /\ app'.poll
      BY <3>1, Callbacks
    <3>3. OnNetwork'
      BY <1>3, <1>5, <2>1, <2>2, <2>3, <3>1, <3>2 DEF OnNetwork
    <3> QED
      BY <1>1, <1>2, <1>5, <1>6, <2>2, <3>1, <3>2, <3>3, IdleKept
  <2>4. CASE bdb.result = "parent lost"
    <3>1. app' = app /\ lib' = RejoinReq(lib)
      BY <2>1, <2>4 DEF Confirm, Told
    <3>2. ~lib.joined
      BY <2>1, <2>4 DEF OnNetwork
    <3>3. /\ lib' \in Lib /\ lib'.joined = lib.joined /\ lib'.new = lib.new
          /\ lib'.leaving = lib.leaving /\ lib'.removed = lib.removed
          /\ lib'.act = IF lib.act = "none" /\ ~lib.new THEN "rejoin" ELSE lib.act
      BY <1>2, <3>1 DEF RejoinReq, Lib
    <3>4. OnNetwork'
      BY <1>3, <1>5, <2>1, <2>2, <2>4, <3>1, <3>2, <3>3 DEF OnNetwork
    <3> QED
      BY <1>1, <1>2, <1>5, <1>6, <2>2, <3>1, <3>3, <3>4, IdleKept
  <2>5. CASE bdb.result = "rejoin failure"
    <3>1. app' = RejoinFailed(app) /\ lib' = lib
      BY <2>1, <2>5 DEF Confirm, Told
    <3>2. app' \in App /\ app'.steer = app.steer /\ app'.backoff
      BY <3>1, Callbacks
    <3>3. ~lib.joined
      BY <2>1, <2>5 DEF OnNetwork
    <3>4. OnNetwork'
      BY <1>3, <1>5, <2>1, <2>2, <2>5, <3>1, <3>2, <3>3 DEF OnNetwork
    <3> QED
      BY <1>1, <1>2, <1>5, <1>6, <2>2, <3>1, <3>2, <3>4, IdleKept
  <2> QED
    BY <2>1, <2>3, <2>4, <2>5 DEF OnNetwork
<1> QED
  BY <1>3, <1>7, <1>8

\* While a network is sought.  A confirmation from before is passed over.
LEMMA TaskSteerStep ==
  ASSUME NetworkInv, Task, bdb.state = "steer"
  PROVE  NetworkInv'
<1>1. power = "on" /\ power' = "on" /\ tasks # <<>>
  BY DEF Task, NetworkInv
<1>2. /\ InSteer /\ app.steer = 0 /\ ~app.backoff
      /\ app \in App /\ key \in Key /\ lib \in Lib /\ bdb \in Bdb
  BY <1>1 DEF NetworkInv, Types, InSteer
<1>3. Waiting(Tail(tasks))
  BY <1>1, TakenWaits DEF NetworkInv, Types
<1>4. ASSUME Head(tasks) = "rejoin done"
      PROVE  bdb' = bdb /\ key' = key /\ lib' = lib /\ app' = app /\ tasks' = Tail(tasks)
  <2>1. TaskInSteer("rejoin done")
    BY <1>4 DEF Task
  <2> QED
    BY <2>1 DEF TaskInSteer, Ignore, Nothing
<1>5. CASE Scans
  <2>1. Head(tasks) = "rejoin done" /\ Tail(tasks) = <<>>
    BY <1>1, <1>5, SteerEnds DEF Scans
  <2>2. Scans'
    BY <1>4, <1>5, <2>1 DEF Scans, Searching
  <2> QED
    BY <1>1, <1>2, <1>3, <1>4, <2>1, <2>2, SteerKept
<1>6. CASE Waits
  <2>1. CASE Head(tasks) = "rejoin done"
    <3>1. \/ /\ key.timers \in {Only("retrieve key"), Only("permit join")}
             /\ tasks = One("rejoin done")
          \/ /\ key.timers = {}
             /\ tasks \in {Two("rejoin done", "retrieve key"), Two("rejoin done", "permit join")}
      BY <1>1, <1>6, <2>1, SteerEnds DEF Waits
    <3>2. \/ /\ key.timers \in {Only("retrieve key"), Only("permit join")}
             /\ Tail(tasks) = <<>>
          \/ /\ key.timers = {}
             /\ Tail(tasks) \in {One("retrieve key"), One("permit join")}
      BY <3>1, SteerEnds
    <3>3. Waits'
      BY <1>4, <1>6, <2>1, <3>2 DEF Waits
    <3> QED
      BY <1>1, <1>2, <1>3, <1>4, <2>1, <3>3, SteerKept
  <2>2. CASE tasks = One("retrieve key")
    <3>1. TaskInSteer("retrieve key")
      BY <2>2, SteerEnds DEF Task
    <3>2. /\ key' = [key EXCEPT !.timers = @ \cup {"begin"}]
          /\ tasks' = <<>> /\ bdb' = bdb /\ lib' = lib /\ app' = app
      BY <2>2, <3>1, SteerEnds DEF TaskInSteer, Ignore
    <3>3. key.timers = {}
      BY <1>6, <2>2, SteerEnds DEF Waits
    <3>4. key' \in Key /\ key'.timers = Only("begin")
      BY <1>2, <3>2, <3>3, OnlyOne DEF Key
    <3>5. Waits'
      BY <1>6, <3>2, <3>4 DEF Waits
    <3> QED
      BY <1>1, <1>2, <3>2, <3>4, <3>5, SteerKept, ShortQueuesWait
  <2>3. CASE tasks = One("permit join")
    <3>1. TaskInSteer("permit join")
      BY <2>3, SteerEnds DEF Task
    <3>2. /\ tasks' = One("permitted") /\ key' = key /\ bdb' = bdb /\ lib' = lib /\ app' = app
      BY <2>3, <3>1, SteerEnds DEF TaskInSteer, Ignore, ThenPost
    <3>3. key.timers = {}
      BY <1>6, <2>3, SteerEnds DEF Waits
    <3>4. Waits'
      BY <1>6, <3>2, <3>3 DEF Waits
    <3>5. Waiting(tasks')
      <4>1. "permitted" \in Events
        BY DEF Events
      <4> QED
        BY <3>2, <4>1, ShortQueuesWait
    <3> QED
      BY <1>1, <1>2, <3>2, <3>4, <3>5, SteerKept
  <2>4. CASE tasks = One("permitted")
    <3>1. Permitted
      BY <2>4, SteerEnds DEF Task
    <3>2. /\ bdb' = [bdb EXCEPT !.result = "success"] /\ lib' = [lib EXCEPT !.new = @ /\ ~bdb.onNet]
          /\ key' = key /\ app' = app /\ tasks' = One("steer finish")
      BY <2>4, <3>1, SteerEnds DEF Permitted, ThenPost
    <3>3. key.timers = {} /\ bdb.onNet /\ lib.joined /\ lib.act = "none" /\ ~lib.leaving
      BY <1>6, <2>4, SteerEnds DEF Waits
    <3>4. /\ bdb' \in Bdb /\ bdb'.state = "steer" /\ bdb'.onNet /\ bdb'.result = "success"
      BY <1>2, <3>2, <3>3 DEF Bdb, Results
    <3>5. /\ lib' \in Lib /\ lib'.joined /\ ~lib'.new /\ lib'.act = "none" /\ ~lib'.leaving
      BY <1>2, <3>2, <3>3 DEF Lib
    <3>6. Finishes'
      BY <3>2, <3>3, <3>4, <3>5 DEF Finishes
    <3>7. Waiting(tasks')
      <4>1. "steer finish" \in Events
        BY DEF Events
      <4> QED
        BY <3>2, <4>1, ShortQueuesWait
    <3> QED
      BY <1>1, <1>2, <3>2, <3>4, <3>5, <3>6, <3>7, SteerKept
  <2> QED
    <3>1. \/ tasks = One("rejoin done") \/ tasks = One("retrieve key")
          \/ tasks = Two("rejoin done", "retrieve key") \/ tasks = One("permit join")
          \/ tasks = Two("rejoin done", "permit join") \/ tasks = One("permitted")
      BY <1>1, <1>6 DEF Waits
    <3>2. Head(tasks) = "rejoin done" \/ tasks = One("retrieve key")
          \/ tasks = One("permit join") \/ tasks = One("permitted")
      BY <3>1, SteerEnds
    <3> QED
      BY <2>1, <2>2, <2>3, <2>4, <3>2
<1>7. CASE Exchanges
  BY <1>1, <1>7 DEF Exchanges
<1>8. CASE Finishes
  <2>1. CASE tasks = Two("rejoin done", "steer finish")
    <3>1. Head(tasks) = "rejoin done" /\ Tail(tasks) = One("steer finish")
      BY <2>1, SteerEnds
    <3>2. Finishes'
      BY <1>4, <1>8, <2>1, <3>1, SteerEnds DEF Finishes, Searching
    <3> QED
      BY <1>1, <1>2, <1>3, <1>4, <3>1, <3>2, SteerKept
  <2>2. CASE tasks = One("steer finish")
    <3>1. TaskInSteer("steer finish")
      BY <2>2, SteerEnds DEF Task
    <3>2. Confirm /\ key' = key /\ tasks' = <<>>
      BY <2>2, <3>1, SteerEnds DEF TaskInSteer, Nothing
    <3>3. /\ bdb' \in Bdb /\ bdb'.state = "idle" /\ ~bdb'.doing
          /\ bdb'.result = bdb.result /\ bdb'.onNet = bdb.onNet
      BY <3>2, Confirmed
    <3>4. key.timers = {} /\ ~lib.leaving /\ lib.act = "none"
      BY <1>8 DEF Finishes
    <3>5. CASE bdb.result = "success"
      <4>1. app' = Succeeded(app) /\ lib' = lib
        BY <3>2, <3>5 DEF Confirm, Told
      <4>2. app' \in App /\ app'.steer = app.steer /\ ~app'.backoff /\ app'.poll
        BY <4>1, Callbacks
      <4>3. lib.joined /\ ~lib.new
        BY <1>8, <3>5 DEF Finishes
      <4>4. OnNetwork'
        BY <1>2, <3>2, <3>3, <3>4, <4>1, <4>2, <4>3, NoConfirmation DEF OnNetwork
      <4> QED
        BY <1>1, <1>2, <3>2, <3>3, <3>4, <4>1, <4>2, <4>4, IdleKept, ShortQueuesWait
    <3>6. CASE bdb.result # "success"
      <4>1. bdb.result \in {"no link key", "no network"} /\ Searching
            /\ (lib.joined => bdb.result = "no link key")
        BY <1>8, <3>6 DEF Finishes
      <4>2. app' = Unjoined(app) /\ lib' = lib
        BY <3>2, <4>1 DEF Confirm, Told
      <4>3. app' \in App /\ app'.steer = 1 /\ app'.backoff = app.backoff
        BY <1>2, <4>2, Callbacks
      <4>4. Planned'
        BY <3>2, <3>3, <3>4, <4>1, <4>2, <4>3, EventNames DEF Planned, Searching
      <4> QED
        BY <1>1, <1>2, <3>2, <3>3, <3>4, <4>2, <4>3, <4>4, IdleKept, ShortQueuesWait
    <3> QED
      BY <3>5, <3>6
  <2> QED
    BY <1>8, <2>1, <2>2 DEF Finishes
<1> QED
  BY <1>2, <1>5, <1>6, <1>7, <1>8 DEF InSteer

LEMMA TaskStep ==
  ASSUME NetworkInv, Task
  PROVE  NetworkInv'
<1>1. power = "on"
  BY DEF Task
<1>2. CASE bdb.state = "init"
  BY <1>2, TaskInitStep
<1>3. CASE bdb.state = "idle"
  <2>1. (Planned \/ OnNetwork) /\ ~lib.leaving /\ key.timers = {}
    BY <1>1, <1>3 DEF NetworkInv, InIdle
  <2> QED
    BY <1>3, <2>1, TaskPlannedStep, TaskOnNetworkStep
<1>4. CASE bdb.state = "steer"
  BY <1>4, TaskSteerStep
<1> QED
  BY <1>1, <1>2, <1>3, <1>4 DEF NetworkInv

(***************************************************************************)
(* The theorems.                                                           *)
(***************************************************************************)
LEMMA InitNetworkInv ==
  ASSUME Init
  PROVE  NetworkInv
<1>1. power = "off" /\ tasks = <<>> /\ app = FreshApp /\ key = NoKey
  BY Zenon DEF Init
<1>2. bdb \in Bdb /\ lib \in Lib /\ lib.act = "none" /\ ~lib.joined
  BY DEF Init, Bdb, Results, Lib
<1>3. key \in Key
  BY <1>1, Bounds DEF NoKey, Key
<1>4. app \in App
  BY <1>1 DEF FreshApp, App, Rates
<1> QED
  BY <1>1, <1>2, <1>3, <1>4, ShortQueuesWait DEF NetworkInv, Types

LEMMA NextKeepsNetworkInv ==
  ASSUME NetworkInv, Undisturbed, [Next]_vars
  PROVE  NetworkInv'
<1>1. CASE UNCHANGED vars
  BY <1>1 DEF vars, NetworkInv, Types, InInit, Starting, Started, InIdle, Planned, OnNetwork,
     Searching, InSteer, Scans, Waits, Exchanges, Finishes, Confirms, Confirmations, Waiting
<1>2. CASE Task
  BY <1>2, TaskStep
<1>3. CASE Answers
  BY <1>3, FoundStep DEF Answers
<1>4. CASE ParentLost
  BY <1>4, ParentLostStep
<1>5. CASE Leaves
  BY <1>5, LeavesStep
<1>6. CASE KeySteps
  BY <1>6, KeyDelayStep, KeyBeginStep, KeyTimeoutStep DEF KeySteps
<1>7. CASE NodeDescriptor \/ \E ok \in BOOLEAN : LinkKey(ok)
  BY <1>7, AnswerStep
<1>8. CASE SteerTimer \/ BackoffTimer \/ NoJoinedTimer
  BY <1>8, SteerStep, BackoffStep, NoJoinedStep
<1>9. CASE PollTimer \/ Pulse \/ ShortPress \/ OtaFails \/ \E charged \in BOOLEAN : OtaStart(charged)
  BY <1>9, PollSteps
<1>10. CASE \E factory \in BOOLEAN : Stop(factory)
  BY <1>10, StopStep
<1>11. CASE Boot
  BY <1>11, BootStep
<1> QED
  BY <1>1, <1>2, <1>3, <1>4, <1>5, <1>6, <1>7, <1>8, <1>9, <1>10, <1>11 DEF Next

LEMMA InvImpliesTypeOK ==
  ASSUME NetworkInv
  PROVE  TypeOK
BY DEF NetworkInv, Types, TypeOK, Waiting

LEMMA InvImpliesSomethingWillRun ==
  ASSUME NetworkInv
  PROVE  SomethingWillRun
<1> SUFFICES ASSUME power = "on", ~lib.joined, ~lib.removed, lib.act = "none", tasks = <<>>,
                    ~app.backoff, "exchange" \notin key.timers
             PROVE  app.steer > 0
  BY DEF SomethingWillRun
<1>1. ~InInit
  BY QueuesNotEmpty DEF InInit, Starting, Started
<1>2. ~InSteer
  BY QueuesNotEmpty, OnlyOne DEF InSteer, Scans, Waits, Exchanges, Finishes
<1>3. ~OnNetwork
  BY NoConfirmation DEF OnNetwork
<1>4. Planned
  BY <1>1, <1>2, <1>3 DEF NetworkInv, InIdle
<1>5. app.steer = 1
  BY <1>4, EventNames DEF Planned
<1> QED
  BY <1>5

LEMMA InvImpliesBackoffEnds ==
  ASSUME NetworkInv
  PROVE  BackoffEndsWithNetwork
<1> SUFFICES ASSUME power = "on", app.backoff, lib.joined, lib.act = "none"
             PROVE  Pending("rejoin done")
  BY DEF BackoffEndsWithNetwork
<1>1. OnNetwork
  BY DEF NetworkInv, InInit, InSteer, InIdle, Planned, Searching
<1>2. Confirms(tasks)
  BY <1>1 DEF OnNetwork
<1>3. DOMAIN tasks = 1 .. Len(tasks)
  BY DEF NetworkInv, Types, Waiting
<1> QED
  BY <1>2, <1>3, Zenon DEF Confirms, Pending

LEMMA InvImpliesPollTimerRuns ==
  ASSUME NetworkInv
  PROVE  PollTimerRuns
<1> SUFFICES ASSUME power = "on", bdb.state = "idle", bdb.onNet, lib.joined, tasks = <<>>,
                    ~app.loading
             PROVE  app.poll
  BY DEF PollTimerRuns
<1>1. OnNetwork
  BY DEF NetworkInv, InIdle, Planned, Searching
<1> QED
  BY <1>1, NoConfirmation DEF OnNetwork

LEMMA InvImpliesOneAttempt ==
  ASSUME NetworkInv
  PROVE  OneAttemptAtATime
<1> SUFFICES ASSUME power = "on"
             PROVE  app.steer + (IF bdb.doing THEN 1 ELSE 0) <= 1
  BY DEF OneAttemptAtATime
<1>1. app.steer = 0 \/ (app.steer = 1 /\ ~bdb.doing)
  BY DEF NetworkInv, InInit, InIdle, InSteer, Planned, OnNetwork
<1> QED
  BY <1>1

\* What may wait for bdb_task (bdb.c) in each of its states, for any number of
\* attempts and of waiting tasks.
THEOREM NetworkStates == Undisturbed => (Spec => []NetworkInv)
<1> SUFFICES ASSUME Undisturbed
             PROVE  Spec => []NetworkInv
  OBVIOUS
<1>1. Init => NetworkInv
  BY InitNetworkInv
<1>2. NetworkInv /\ [Next]_vars => NetworkInv'
  BY NextKeepsNetworkInv
<1> QED
  BY <1>1, <1>2, PTL DEF Spec

\* Type correctness: events, timers, answers and callbacks in any order leave
\* bdb.c and the application in states that they know.
THEOREM NetworkTypes == Undisturbed => (Spec => []TypeOK)
<1>1. NetworkInv => TypeOK
  BY InvImpliesTypeOK
<1> QED
  BY <1>1, NetworkStates, PTL

\* A device that is awake without a network always has something that runs:
\* no loss, rejoin, expired key or ignored event leaves it stranded.
THEOREM AnAttemptIsAhead == Undisturbed => (Spec => []SomethingWillRun)
<1>1. NetworkInv => SomethingWillRun
  BY InvImpliesSomethingWillRun
<1> QED
  BY <1>1, NetworkStates, PTL

\* The back-off of app_pm.c ends with the confirmation of the network's return,
\* although all confirmations share one status.
THEOREM BackoffEnds == Undisturbed => (Spec => []BackoffEndsWithNetwork)
<1>1. NetworkInv => BackoffEndsWithNetwork
  BY InvImpliesBackoffEnds
<1> QED
  BY <1>1, NetworkStates, PTL

\* A device on a network always returns to slow polling, whatever pulses,
\* clicks and updates did to the poll timer.
THEOREM SlowPollingReturns == Undisturbed => (Spec => []PollTimerRuns)
<1>1. NetworkInv => PollTimerRuns
  BY InvImpliesPollTimerRuns
<1> QED
  BY <1>1, NetworkStates, PTL

\* Searches for a network never pile up.
THEOREM OneSearch == Undisturbed => (Spec => []OneAttemptAtATime)
<1>1. NetworkInv => OneAttemptAtATime
  BY InvImpliesOneAttempt
<1> QED
  BY <1>1, NetworkStates, PTL
=============================================================================
