-------------------------- MODULE ArenaRoundProofs --------------------------
(***************************************************************************)
(* Proofs about ArenaRound, second part, for any number of rounds, cuts    *)
(* and seats: that every runner has an owner, that a round hears one       *)
(* terminal, that the session ends up in the round of the room, and that a *)
(* chart starts only for a player who sits in its round.  The invariant    *)
(* relates the session to what the server has said and not yet delivered:  *)
(* what every handler keeps of the session is shown in ArenaRoundSession,  *)
(* the rest orders the messages that are on their way.                     *)
(***************************************************************************)
EXTENDS ArenaRoundSession, SequenceTheorems, TLAPS

-----------------------------------------------------------------------------
(* The inductive invariant: the session, the server and the link.          *)

\* The standings tell the player that its terminal is in.
Settles(m) == m.type = "Standings" /\ m.terminal # "None"

\* The messages that can take the session into a round.
Opens(m) == m.type \in {"LoadingStarted", "RoomSnapshot"}

\* What a message that waits tells the session it will find.
ClientMessage(w, m) ==
    /\ m.round.id = w.round.id => Rank(w.round.stage) <= Rank(m.round.stage)
    /\ m.type = "LoadingStarted" => w.round.id < m.round.id
    /\ Settles(m) /\ m.round.id = w.round.id /\ m.round.id # 0 =>
         /\ Quiet(w)
         /\ m.terminal = "Result" => w.round.stage = "Playing"
    /\ m.type = "Finalized" /\ m.round.id = w.round.id /\ w.round.mine => Fit(w)
    /\ m.type = "RoomSnapshot" =>
         /\ w.state # "InRoom"
         /\ m.round.id = w.round.id => m.round.mine = w.round.mine
    /\ w.retained # 0 => Watched(m.round)

\* The server is at least as far as any message it has sent.
ServerMessage(sv, m) ==
    /\ m.round.id <= sv.round
    /\ m.type \in {"Finalized", "LaunchCancelled"} =>
         sv.phase = "Selecting" \/ m.round.id < sv.round
    /\ m.type = "Finalized" => sv.phase = "Selecting" \/ ~sv.mine
    /\ m.type = "Removed" => ~sv.member
    /\ m.round.id = sv.round /\ sv.phase # "Selecting" =>
         /\ Rank(m.round.stage) <= Rank(sv.phase)
         /\ sv.member => m.round.mine = sv.mine

\* Nobody has sent a terminal for a round that a message still has to open.
RoomMessage(w, sv, m) ==
    /\ Opens(m) /\ m.round.mine /\ m.round.id # w.round.id =>
         \A t \in sv.heard : t.round # m.round.id
    /\ m.type = "RoomSnapshot" /\ sv.phase # "Selecting" /\ w.round.id = sv.round =>
         m.round.id = sv.round

\* A message on its way fits the session it will find and the server it left.
Fits(w, sv, m) ==
    /\ MessageFits(m)
    /\ ClientMessage(w, m)
    /\ ServerMessage(sv, m)
    /\ RoomMessage(w, sv, m)

\* Two messages on their way, the first before the second.
Pair(a, b) ==
    /\ b.type # "RoomSnapshot"
    /\ a.round.id = b.round.id => Rank(a.round.stage) <= Rank(b.round.stage)
    /\ b.type = "LoadingStarted" => a.round.id < b.round.id
    /\ a.type = "Finalized" => Watched(b.round) /\ b.round.id # a.round.id

\* Behind the message that opens a round there is no verdict on it yet, for the
\* player cannot have answered.
OpenPair(w, a, b) ==
    /\ Opens(a)
    /\ a.round.id # w.round.id
    /\ a.round.id = b.round.id
    /\ a.round.id # 0
    => ~Settles(b) /\ ~(a.round.mine /\ b.type = "Finalized")

Ordered(w, a, b) == Pair(a, b) /\ OpenPair(w, a, b)

\* What is on its way fits, message by message and in this order.
Queue(w, sv, q) ==
    /\ \A i \in 1..Len(q) : Fits(w, sv, q[i])
    /\ \A i \in 1..Len(q), j \in 1..Len(q) : i < j => Ordered(w, q[i], q[j])

\* What the server has heard is of its past rounds, one terminal for each, and a
\* result is of the chart of its round.
ServerWhole(sv) ==
    /\ sv.mine => sv.member
    /\ sv.round = 0 => sv.phase = "Selecting"
    /\ sv.phase = "Probing" => ~sv.loaded /\ sv.terminal = "None"
    /\ sv.terminal = "Result" => sv.phase \in {"Playing", "Selecting"}
    /\ \A t \in sv.heard : t.round <= sv.round
    /\ \A a, b \in sv.heard : a.round = b.round => a = b
    /\ \A t \in sv.heard : t.kind = "Result" => t.chart = t.round

\* The server has had something from the player in this round.
Engaged(sv) ==
    /\ sv.mine
    /\ sv.phase # "Selecting"
    /\ \/ sv.phase # "Probing"
       \/ sv.probed
       \/ \E t \in sv.heard : t.round = sv.round

\* The server is ahead of the session, and what it was told is still so.
Room(w, sv) ==
    /\ w.round.id <= sv.round
    /\ w.round.id = sv.round /\ sv.phase # "Selecting" =>
         /\ Rank(w.round.stage) <= Rank(sv.phase)
         /\ sv.member => w.round.mine = sv.mine
    /\ Engaged(sv) => w.round.id = sv.round
    /\ /\ sv.mine
       /\ \/ sv.phase = "Loading" /\ sv.loaded
          \/ sv.phase \in {"Scheduled", "Playing"}
       => Fit(w)
    /\ sv.mine /\ sv.phase \in {"Loading", "Scheduled"} /\ sv.terminal # "None" =>
         w.submitted
    /\ sv.mine /\ sv.phase # "Selecting" /\ sv.terminal = "Result" =>
         w.round.stage = "Playing"
    /\ \A t \in sv.heard : w.round.mine /\ t.round = w.round.id =>
         /\ w.submitted
         /\ w.terminal.kind # "None" => w.terminal = t
    /\ w.retained # 0 => sv.phase = "Selecting" \/ ~sv.mine

\* The round a message finds the session in, and the one it leaves it in.
Before(m) == IF m.type = "LoadingStarted" THEN 0 ELSE m.round.id

After(m) ==
    IF m.type \in {"Finalized", "LaunchCancelled"} THEN 0 ELSE m.round.id

\* Message by message the session comes to the server's round n.
Chain(w, q, n) ==
    /\ q = <<>> => w.round.id = n
    /\ q # <<>> =>
         /\ q[1].type = "RoomSnapshot" \/ Before(q[1]) = w.round.id
         /\ \A i \in 1..(Len(q) - 1) : After(q[i]) = Before(q[i + 1])
         /\ After(q[Len(q)]) = n

\* A link that is down carries nothing; a standing one begins with a snapshot
\* and leads to the round of the server, or to the news that the seat is gone.
Linked(w, sv, q, lk) ==
    /\ lk = "Down" => w.state # "InRoom" /\ q = <<>>
    /\ lk # "Down" /\ w.state # "InRoom" =>
         q # <<>> /\ q[1].type = "RoomSnapshot"
    /\ lk # "Down" /\ ~sv.member => \E i \in 1..Len(q) : q[i].type = "Removed"
    /\ lk # "Down" /\ sv.member => Chain(w, q, ServerRound(sv).id)

\* The session knows of the start, or has given the round up.
SetToStart(w) ==
    /\ w.state = "InRoom"
    /\ w.round.stage \in {"Scheduled", "Playing"} \/ w.abandoned

\* The message brings the start of round n.
TellsStart(m, n) ==
    /\ m.round.id = n
    /\ \/ m.type = "StartScheduled"
       \/ m.type = "RoomSnapshot" /\ m.round.stage \in {"Scheduled", "Playing"}

\* A scheduled start has reached the session or is on its way.
Told(w, sv, q, lk) ==
    lk # "Down" /\ sv.mine /\ sv.phase \in {"Scheduled", "Playing"} =>
        \/ SetToStart(w)
        \/ \E i \in 1..Len(q) : TellsStart(q[i], sv.round)

\* The session knows that the round is played, or has given it up.
TakesPart(w, sv) ==
    /\ w.state = "InRoom"
    /\ w.round.id = sv.round
    /\ w.round.stage = "Playing" \/ (sv.mine /\ w.abandoned)

\* The message says that round n is played.
TellsPlay(m, n) ==
    /\ m.round.id = n
    /\ \/ m.type = "Started"
       \/ m.type = "RoomSnapshot" /\ m.round.stage = "Playing"

\* So has the play itself.
ToldPlay(w, sv, q, lk) ==
    lk # "Down" /\ sv.member /\ sv.phase = "Playing" =>
        \/ TakesPart(w, sv)
        \/ \E i \in 1..Len(q) : TellsPlay(q[i], sv.round)

\* The inductive invariant beside the types: w is the session, sv the server,
\* q the inbox and lk the link.
InvOf(w, sv, q, lk) ==
    /\ Local(w)
    /\ ServerWhole(sv)
    /\ Room(w, sv)
    /\ Queue(w, sv, q)
    /\ Linked(w, sv, q, lk)
    /\ Told(w, sv, q, lk)
    /\ ToldPlay(w, sv, q, lk)

-----------------------------------------------------------------------------
(* Queues.                                                                 *)

LEMMA TailIs ==
    ASSUME NEW q \in Seq(Messages), q # <<>>
    PROVE  /\ Tail(q) \in Seq(Messages)
           /\ Head(q) = q[1] /\ q[1] \in Messages
           /\ Len(q) \in Nat \ {0} /\ Len(Tail(q)) = Len(q) - 1
           /\ \A i \in 1..Len(Tail(q)) : /\ i + 1 \in 1..Len(q)
                                         /\ i \in Nat
                                         /\ Tail(q)[i] = q[i + 1]
                                         /\ Tail(q)[i] \in Messages
OBVIOUS

LEMMA AppendIs ==
    ASSUME NEW q \in Seq(Messages), NEW m \in Messages
    PROVE  LET r == q \o <<m>>
           IN  /\ r \in Seq(Messages)
               /\ Len(q) \in Nat
               /\ Len(r) = Len(q) + 1
               /\ r # <<>>
               /\ \A i \in 1..Len(q) : r[i] = q[i] /\ i < Len(r)
               /\ r[Len(r)] = m
               /\ \A i \in 1..Len(r) : i \in 1..Len(q) \/ i = Len(r)
OBVIOUS

LEMMA QueueTail ==
    ASSUME NEW w, NEW sv, NEW q \in Seq(Messages), q # <<>>, Queue(w, sv, q)
    PROVE  /\ Fits(w, sv, q[1])
           /\ \A i \in 1..Len(Tail(q)) : /\ Fits(w, sv, Tail(q)[i])
                                         /\ Ordered(w, q[1], Tail(q)[i])
           /\ \A i \in 1..Len(Tail(q)), j \in 1..Len(Tail(q)) :
                i < j => Ordered(w, Tail(q)[i], Tail(q)[j])
<1>1. /\ Len(q) \in Nat \ {0} /\ Len(Tail(q)) = Len(q) - 1
      /\ \A i \in 1..Len(Tail(q)) : /\ i + 1 \in 1..Len(q)
                                    /\ i \in Nat
                                    /\ Tail(q)[i] = q[i + 1]
  BY TailIs
<1>2. 1 \in 1..Len(q)
  BY <1>1
<1>3. Fits(w, sv, q[1])
  BY <1>2 DEF Queue
<1>4. ASSUME NEW i \in 1..Len(Tail(q))
      PROVE  Fits(w, sv, Tail(q)[i]) /\ Ordered(w, q[1], Tail(q)[i])
  <2>1. i + 1 \in 1..Len(q) /\ Tail(q)[i] = q[i + 1] /\ 1 < i + 1
    BY <1>1
  <2>2. QED
    BY <1>2, <2>1 DEF Queue
<1>5. ASSUME NEW i \in 1..Len(Tail(q)), NEW j \in 1..Len(Tail(q)), i < j
      PROVE  Ordered(w, Tail(q)[i], Tail(q)[j])
  <2>1. /\ i + 1 \in 1..Len(q) /\ Tail(q)[i] = q[i + 1]
        /\ j + 1 \in 1..Len(q) /\ Tail(q)[j] = q[j + 1]
        /\ i + 1 < j + 1
    BY <1>1, <1>5
  <2>2. QED
    BY <2>1 DEF Queue
<1>6. QED
  BY <1>3, <1>4, <1>5

LEMMA QueueAppend ==
    ASSUME NEW w, NEW sv, NEW q \in Seq(Messages), Queue(w, sv, q),
           NEW m \in Messages, Fits(w, sv, m),
           \A i \in 1..Len(q) : Ordered(w, q[i], m)
    PROVE  Queue(w, sv, q \o <<m>>)
<1> DEFINE r == q \o <<m>>
<1>1. /\ Len(q) \in Nat
      /\ Len(r) = Len(q) + 1
      /\ \A i \in 1..Len(q) : r[i] = q[i] /\ i < Len(r)
      /\ r[Len(r)] = m
      /\ \A i \in 1..Len(r) : i \in 1..Len(q) \/ i = Len(r)
  BY AppendIs
<1> HIDE DEF r
<1>2. \A i \in 1..Len(r) : Fits(w, sv, r[i])
  BY <1>1 DEF Queue
<1>3. ASSUME NEW i \in 1..Len(r), NEW j \in 1..Len(r), i < j
      PROVE  Ordered(w, r[i], r[j])
  <2>1. i \in 1..Len(q)
    BY <1>1, <1>3
  <2>2. CASE j \in 1..Len(q)
    BY <1>1, <1>3, <2>1, <2>2 DEF Queue
  <2>3. CASE j = Len(r)
    BY <1>1, <2>1, <2>3
  <2>4. QED
    BY <1>1, <2>2, <2>3
<1>4. Queue(w, sv, r)
  BY <1>2, <1>3 DEF Queue
<1>5. QED
  BY <1>4 DEF r

LEMMA ChainTail ==
    ASSUME NEW w, NEW u, NEW n, NEW q \in Seq(Messages), q # <<>>,
           Chain(w, q, n), u.round.id = After(q[1])
    PROVE  Chain(u, Tail(q), n)
<1> DEFINE p == Tail(q)
<1>1. /\ p \in Seq(Messages)
      /\ Len(q) \in Nat \ {0} /\ Len(p) = Len(q) - 1
      /\ \A i \in 1..Len(p) : /\ i + 1 \in 1..Len(q)
                              /\ i \in Nat
                              /\ p[i] = q[i + 1]
  BY TailIs
<1> HIDE DEF p
<1>2. CASE p = <<>>
  <2>1. Len(q) = 1
    BY <1>1, <1>2
  <2>2. After(q[1]) = n
    BY <2>1 DEF Chain
  <2>3. Chain(u, p, n)
    BY <1>2, <2>2 DEF Chain
  <2>4. QED
    BY <2>3 DEF p
<1>3. CASE p # <<>>
  <2>1. Len(p) \in Nat \ {0}
    BY <1>1, <1>3
  <2>2. 1 \in 1..Len(p) /\ 1 \in 1..(Len(q) - 1)
    BY <1>1, <2>1
  <2>3. p[1] = q[1 + 1] /\ After(q[1]) = Before(q[1 + 1])
    BY <1>1, <2>2 DEF Chain
  <2>4. Before(p[1]) = u.round.id
    BY <2>3
  <2>5. ASSUME NEW i \in 1..(Len(p) - 1)
        PROVE  After(p[i]) = Before(p[i + 1])
    <3>1. i \in 1..Len(p) /\ i + 1 \in 1..Len(p) /\ i + 1 \in 1..(Len(q) - 1)
      BY <1>1, <2>1
    <3>2. p[i] = q[i + 1] /\ p[i + 1] = q[(i + 1) + 1]
      BY <1>1, <3>1
    <3>3. QED
      BY <3>1, <3>2 DEF Chain
  <2>6. After(p[Len(p)]) = n
    <3>1. Len(p) \in 1..Len(p) /\ Len(p) + 1 = Len(q)
      BY <1>1, <2>1
    <3>2. p[Len(p)] = q[Len(q)]
      BY <1>1, <3>1
    <3>3. QED
      BY <3>2 DEF Chain
  <2>7. Chain(u, p, n)
    BY <1>3, <2>4, <2>5, <2>6 DEF Chain
  <2>8. QED
    BY <2>7 DEF p
<1>4. QED
  BY <1>2, <1>3

LEMMA ChainAppend ==
    ASSUME NEW w, NEW n, NEW k, NEW q \in Seq(Messages), NEW m \in Messages,
           Chain(w, q, n), Before(m) = n, After(m) = k
    PROVE  Chain(w, q \o <<m>>, k)
<1> DEFINE r == q \o <<m>>
<1>1. /\ Len(q) \in Nat
      /\ Len(r) = Len(q) + 1
      /\ r # <<>>
      /\ \A i \in 1..Len(q) : r[i] = q[i] /\ i < Len(r)
      /\ r[Len(r)] = m
  BY AppendIs
<1> HIDE DEF r
<1>2. r[1].type = "RoomSnapshot" \/ Before(r[1]) = w.round.id
  <2>1. CASE q = <<>>
    <3>1. Len(r) = 1 /\ w.round.id = n
      BY <1>1, <2>1 DEF Chain
    <3>2. QED
      BY <1>1, <3>1
  <2>2. CASE q # <<>>
    <3>1. 1 \in 1..Len(q)
      BY <1>1, <2>2
    <3>2. r[1] = q[1]
      BY <1>1, <3>1
    <3>3. QED
      BY <2>2, <3>2 DEF Chain
  <2>3. QED
    BY <2>1, <2>2
<1>3. ASSUME NEW i \in 1..(Len(r) - 1)
      PROVE  After(r[i]) = Before(r[i + 1])
  <2>1. i \in 1..Len(q) /\ q # <<>>
    BY <1>1
  <2>2. CASE i = Len(q)
    <3>1. After(q[Len(q)]) = n
      BY <2>1 DEF Chain
    <3>2. r[i] = q[Len(q)] /\ r[i + 1] = m
      BY <1>1, <2>1, <2>2
    <3>3. QED
      BY <3>1, <3>2
  <2>3. CASE i # Len(q)
    <3>1. i \in 1..(Len(q) - 1) /\ i + 1 \in 1..Len(q)
      BY <1>1, <2>1, <2>3
    <3>2. r[i] = q[i] /\ r[i + 1] = q[i + 1]
      BY <1>1, <3>1, <2>1
    <3>3. QED
      BY <2>1, <3>1, <3>2 DEF Chain
  <2>4. QED
    BY <2>2, <2>3
<1>4. Chain(w, r, k)
  BY <1>1, <1>2, <1>3 DEF Chain
<1>5. QED
  BY <1>4 DEF r

-----------------------------------------------------------------------------
(* A handler that stays in the round.                                      *)

LEMMA StayRanks ==
    ASSUME NEW w \in Session, NEW u \in Session, Stay(w, u)
    PROVE  /\ w.round.stage \in Stage /\ u.round.stage \in Stage
           /\ w.round.stage = "Playing" => u.round.stage = "Playing"
           /\ w.round.stage \in {"Scheduled", "Playing"} =>
                u.round.stage \in {"Scheduled", "Playing"}
           /\ u.round.id = w.round.id /\ u.round.mine = w.round.mine
<1>1. w.round.stage \in Stage /\ u.round.stage \in Stage
  BY DEF Session
<1>2. Rank(w.round.stage) <= Rank(u.round.stage)
  BY DEF Stay
<1>3. QED
  BY <1>1, <1>2 DEF Stay, Rank, Stage

\* What a message promises holds when the session has moved on in its round.
LEMMA FitsStay ==
    ASSUME NEW w \in Session, NEW u \in Session, Stay(w, u), NEW sv,
           NEW m \in Messages, Fits(w, sv, m),
           u.state = w.state \/ m.type # "RoomSnapshot",
           m.round.id = w.round.id => Rank(u.round.stage) <= Rank(m.round.stage)
    PROVE  Fits(u, sv, m)
<1>1. u.round.id = w.round.id /\ u.round.mine = w.round.mine
  BY StayRanks
<1>2. w.round.stage = "Playing" => u.round.stage = "Playing"
  BY StayRanks
<1>3. /\ Quiet(w) => Quiet(u)
      /\ Fit(w) /\ w.round.mine => Fit(u)
      /\ u.retained \in {0, w.retained}
  BY DEF Stay
<1>4. ClientMessage(w, m)
  BY DEF Fits
<1>5. m.type = "LoadingStarted" => u.round.id < m.round.id
  BY <1>1, <1>4 DEF ClientMessage
<1>6. Settles(m) /\ m.round.id = u.round.id /\ m.round.id # 0 =>
         /\ Quiet(u)
         /\ m.terminal = "Result" => u.round.stage = "Playing"
  BY <1>1, <1>2, <1>3, <1>4 DEF ClientMessage
<1>7. m.type = "Finalized" /\ m.round.id = u.round.id /\ u.round.mine => Fit(u)
  BY <1>1, <1>3, <1>4 DEF ClientMessage
<1>8. m.type = "RoomSnapshot" =>
         /\ u.state # "InRoom"
         /\ m.round.id = u.round.id => m.round.mine = u.round.mine
  BY <1>1, <1>4 DEF ClientMessage
<1>9. u.retained # 0 => Watched(m.round)
  BY <1>3, <1>4 DEF ClientMessage
<1>10. m.round.id = u.round.id => Rank(u.round.stage) <= Rank(m.round.stage)
  BY <1>1
<1>11. ClientMessage(u, m)
  BY <1>5, <1>6, <1>7, <1>8, <1>9, <1>10 DEF ClientMessage
<1>12. RoomMessage(u, sv, m)
  BY <1>1 DEF Fits, RoomMessage
<1>13. QED
  BY <1>11, <1>12 DEF Fits

LEMMA OrderedStay ==
    ASSUME NEW w, NEW u, u.round.id = w.round.id, NEW a, NEW b,
           Ordered(w, a, b)
    PROVE  Ordered(u, a, b)
BY DEF Ordered, OpenPair

LEMMA RoomStay ==
    ASSUME NEW w \in Session, Local(w), NEW u \in Session, Stay(w, u),
           NEW sv \in Server, ServerWhole(sv), Room(w, sv),
           w.round.id = sv.round /\ sv.phase # "Selecting" =>
             Rank(u.round.stage) <= Rank(sv.phase)
    PROVE  Room(u, sv)
<1>1. u.round.id = w.round.id /\ u.round.mine = w.round.mine
  BY StayRanks
<1>2. w.round.stage = "Playing" => u.round.stage = "Playing"
  BY StayRanks
<1>3. /\ w.submitted => u.submitted
      /\ w.submitted => u.terminal \in {w.terminal, NoTerminal}
      /\ Fit(w) /\ w.round.mine => Fit(u)
      /\ u.retained \in {0, w.retained}
  BY DEF Stay
<1>4. u.round.id <= sv.round
  BY <1>1 DEF Room
<1>5. u.round.id = sv.round /\ sv.phase # "Selecting" =>
         /\ Rank(u.round.stage) <= Rank(sv.phase)
         /\ sv.member => u.round.mine = sv.mine
  BY <1>1 DEF Room
<1>6. Engaged(sv) => u.round.id = sv.round
  BY <1>1 DEF Room
<1>7. ASSUME sv.mine,
             \/ sv.phase = "Loading" /\ sv.loaded
             \/ sv.phase \in {"Scheduled", "Playing"}
      PROVE  Fit(u)
  <2>1. Engaged(sv)
    BY <1>7 DEF Engaged
  <2>2. w.round.id = sv.round /\ sv.member
    BY <1>7, <2>1 DEF Room, ServerWhole
  <2>3. w.round.mine
    BY <1>7, <2>2 DEF Room
  <2>4. Fit(w)
    BY <1>7 DEF Room
  <2>5. QED
    BY <1>3, <2>3, <2>4
<1>8. sv.mine /\ sv.phase \in {"Loading", "Scheduled"} /\ sv.terminal # "None" =>
         u.submitted
  BY <1>3 DEF Room
<1>9. sv.mine /\ sv.phase # "Selecting" /\ sv.terminal = "Result" =>
         u.round.stage = "Playing"
  BY <1>2 DEF Room
<1>10. \A t \in sv.heard : u.round.mine /\ t.round = u.round.id =>
         /\ u.submitted
         /\ u.terminal.kind # "None" => u.terminal = t
  <2>1. \A t \in sv.heard : w.round.mine /\ t.round = w.round.id =>
         /\ w.submitted
         /\ w.terminal.kind # "None" => w.terminal = t
    BY DEF Room
  <2>2. QED
    BY <1>1, <1>3, <2>1, NoVerdict
<1>11. u.retained # 0 => sv.phase = "Selecting" \/ ~sv.mine
  BY <1>3 DEF Room
<1>12. QED
  BY <1>4, <1>5, <1>6, <1>7, <1>8, <1>9, <1>10, <1>11 DEF Room

\* A player's step leaves the session in its round.
LEMMA StayInv ==
    ASSUME NEW w \in Session, NEW u \in Session, NEW sv \in Server,
           NEW q \in Seq(Messages), NEW lk,
           InvOf(w, sv, q, lk), Stay(w, u), Local(u), u.state = w.state,
           u.round = w.round
    PROVE  InvOf(u, sv, q, lk)
<1>1. /\ Local(w) /\ ServerWhole(sv) /\ Room(w, sv) /\ Queue(w, sv, q)
      /\ Linked(w, sv, q, lk) /\ Told(w, sv, q, lk) /\ ToldPlay(w, sv, q, lk)
  BY DEF InvOf
<1>2. Room(u, sv)
  <2>1. w.round.id = sv.round /\ sv.phase # "Selecting" =>
             Rank(u.round.stage) <= Rank(sv.phase)
    BY <1>1 DEF Room
  <2>2. QED
    BY <1>1, <2>1, RoomStay
<1>3. Queue(u, sv, q)
  <2>1. ASSUME NEW i \in 1..Len(q)
        PROVE  Fits(u, sv, q[i])
    <3>1. q[i] \in Messages
      OBVIOUS
    <3>2. Fits(w, sv, q[i])
      BY <1>1 DEF Queue
    <3>3. q[i].round.id = w.round.id =>
            Rank(u.round.stage) <= Rank(q[i].round.stage)
      BY <3>2 DEF Fits, ClientMessage
    <3>4. QED
      BY <3>1, <3>2, <3>3, FitsStay
  <2>2. ASSUME NEW i \in 1..Len(q), NEW j \in 1..Len(q), i < j
        PROVE  Ordered(u, q[i], q[j])
    BY <1>1, <2>2, OrderedStay DEF Queue
  <2>3. QED
    BY <2>1, <2>2 DEF Queue
<1>4. Linked(u, sv, q, lk)
  <2>1. Chain(w, q, ServerRound(sv).id) => Chain(u, q, ServerRound(sv).id)
    BY DEF Chain
  <2>2. QED
    BY <1>1, <2>1 DEF Linked
<1>5. w.abandoned => u.abandoned \/ u.round.stage = "Playing"
  BY DEF Stay
<1>6. Told(u, sv, q, lk)
  <2>1. SetToStart(w) => SetToStart(u)
    BY <1>5 DEF SetToStart
  <2>2. QED
    BY <1>1, <2>1 DEF Told
<1>7. ToldPlay(u, sv, q, lk)
  <2>1. TakesPart(w, sv) => TakesPart(u, sv)
    BY <1>5 DEF TakesPart
  <2>2. QED
    BY <1>1, <2>1 DEF ToldPlay
<1>8. QED
  BY <1>1, <1>2, <1>3, <1>4, <1>6, <1>7 DEF InvOf

\* What the handler of a message achieves for the start and for the play.
Heeds(w, u, m) ==
    /\ m.type = "StartScheduled" /\ m.round.id = w.round.id /\ Fit(w) =>
         u.abandoned \/ u.round.stage \in {"Scheduled", "Playing"}
    /\ /\ m.type = "Started"
       /\ m.round.id = w.round.id
       /\ w.round.mine => \/ w.abandoned
                          \/ w.round.stage \in {"Scheduled", "Playing"}
       => u.round.stage = "Playing" \/ (u.round.mine /\ u.abandoned)
    /\ m.type = "RoomSnapshot" => u.round = m.round

\* The link is up for a session that has something to read.
LEMMA Reading ==
    ASSUME NEW w \in Session, NEW sv \in Server, NEW q \in Seq(Messages),
           q # <<>>, NEW lk, Linked(w, sv, q, lk)
    PROVE  /\ lk # "Down"
           /\ w.state = "InRoom" \/ q[1].type = "RoomSnapshot"
           /\ sv.member => Chain(w, q, ServerRound(sv).id)
           /\ sv.member => \/ q[1].type = "RoomSnapshot"
                           \/ Before(q[1]) = w.round.id
BY DEF Linked, Chain

\* The links of a session in the room that has read a message.
LEMMA LinkedTail ==
    ASSUME NEW w \in Session, NEW u \in Session, NEW sv \in Server,
           NEW q \in Seq(Messages), q # <<>>, NEW lk, Linked(w, sv, q, lk),
           q[1].type # "Removed", u.state = "InRoom",
           sv.member => u.round.id = After(q[1])
    PROVE  Linked(u, sv, Tail(q), lk)
<1>1. lk # "Down"
  BY Reading
<1>2. ~sv.member => \E i \in 1..Len(Tail(q)) : Tail(q)[i].type = "Removed"
  <2>1. SUFFICES ASSUME ~sv.member
                 PROVE  \E i \in 1..Len(Tail(q)) : Tail(q)[i].type = "Removed"
    OBVIOUS
  <2>2. PICK i \in 1..Len(q) : q[i].type = "Removed"
    BY <1>1, <2>1 DEF Linked
  <2>3. i # 1 /\ Len(q) \in Nat /\ Len(Tail(q)) = Len(q) - 1
    BY <2>2, TailIs
  <2>4. i - 1 \in 1..Len(Tail(q))
    BY <2>3
  <2>5. Tail(q)[i - 1] = q[(i - 1) + 1] /\ (i - 1) + 1 = i
    BY <2>4, TailIs
  <2>6. QED
    BY <2>2, <2>4, <2>5
<1>3. sv.member => Chain(u, Tail(q), ServerRound(sv).id)
  BY Reading, ChainTail
<1>4. QED
  BY <1>1, <1>2, <1>3 DEF Linked

LEMMA InTail ==
    ASSUME NEW q \in Seq(Messages), NEW i \in 1..Len(q), i # 1
    PROVE  /\ i - 1 \in 1..Len(Tail(q))
           /\ Tail(q)[i - 1] = q[i]
           /\ q # <<>>
<1>1. q # <<>> /\ Len(q) \in Nat
  OBVIOUS
<1>2. Len(Tail(q)) = Len(q) - 1
  BY <1>1, TailIs
<1>3. i - 1 \in 1..Len(Tail(q))
  BY <1>1, <1>2
<1>4. Tail(q)[i - 1] = q[(i - 1) + 1] /\ (i - 1) + 1 = i
  BY <1>1, <1>3, TailIs
<1>5. QED
  BY <1>1, <1>3, <1>4

LEMMA ToldTail ==
    ASSUME NEW w \in Session, NEW u \in Session, NEW sv \in Server,
           NEW q \in Seq(Messages), q # <<>>, NEW lk,
           InvOf(w, sv, q, lk), Stay(w, u), u.state = "InRoom",
           Heeds(w, u, q[1])
    PROVE  Told(u, sv, Tail(q), lk)
<1> SUFFICES ASSUME lk # "Down", sv.mine, sv.phase \in {"Scheduled", "Playing"},
                    ~SetToStart(u)
             PROVE  \E i \in 1..Len(Tail(q)) : TellsStart(Tail(q)[i], sv.round)
  BY DEF Told
<1>1. /\ ServerWhole(sv) /\ Room(w, sv) /\ Linked(w, sv, q, lk)
      /\ Told(w, sv, q, lk)
  BY DEF InvOf
<1>2. ~SetToStart(w)
  <2>1. w.round.stage \in {"Scheduled", "Playing"} =>
          u.round.stage \in {"Scheduled", "Playing"}
    BY StayRanks
  <2>2. QED
    BY <2>1 DEF SetToStart, Stay
<1>3. PICK i \in 1..Len(q) : TellsStart(q[i], sv.round)
  BY <1>1, <1>2 DEF Told
<1>4. i # 1
  <2>1. SUFFICES ASSUME i = 1 PROVE FALSE
    OBVIOUS
  <2>2. CASE q[1].type = "RoomSnapshot"
    <3>1. u.round = q[1].round
      BY <2>2 DEF Heeds
    <3>2. q[1].round.stage \in {"Scheduled", "Playing"}
      BY <1>3, <2>1, <2>2 DEF TellsStart
    <3>3. QED
      BY <3>1, <3>2 DEF SetToStart
  <2>3. CASE q[1].type # "RoomSnapshot"
    <3>1. q[1].type = "StartScheduled"
      BY <1>3, <2>1, <2>3 DEF TellsStart
    <3>2. sv.member
      BY <1>1 DEF ServerWhole
    <3>3. q[1].round.id = w.round.id
      BY <1>1, <3>1, <3>2, Reading DEF Before
    <3>4. Fit(w)
      BY <1>1 DEF Room
    <3>5. QED
      BY <3>1, <3>3, <3>4 DEF Heeds, SetToStart
  <2>4. QED
    BY <2>2, <2>3
<1>5. QED
  BY <1>3, <1>4, InTail

LEMMA ToldPlayTail ==
    ASSUME NEW w \in Session, NEW u \in Session, NEW sv \in Server,
           NEW q \in Seq(Messages), q # <<>>, NEW lk,
           InvOf(w, sv, q, lk), Stay(w, u), u.state = "InRoom",
           Heeds(w, u, q[1])
    PROVE  ToldPlay(u, sv, Tail(q), lk)
<1> SUFFICES ASSUME lk # "Down", sv.member, sv.phase = "Playing",
                    ~TakesPart(u, sv)
             PROVE  \E i \in 1..Len(Tail(q)) : TellsPlay(Tail(q)[i], sv.round)
  BY DEF ToldPlay
<1>1. /\ ServerWhole(sv) /\ Room(w, sv) /\ Linked(w, sv, q, lk)
      /\ Told(w, sv, q, lk) /\ ToldPlay(w, sv, q, lk) /\ Queue(w, sv, q)
  BY DEF InvOf
<1>2. u.round.id = w.round.id /\ u.round.mine = w.round.mine
  BY StayRanks
<1>3. ~TakesPart(w, sv)
  <2>1. w.round.stage = "Playing" => u.round.stage = "Playing"
    BY StayRanks
  <2>2. QED
    BY <1>2, <2>1 DEF TakesPart, Stay
<1>4. PICK i \in 1..Len(q) : TellsPlay(q[i], sv.round)
  BY <1>1, <1>3 DEF ToldPlay
<1>5. i # 1
  <2>1. SUFFICES ASSUME i = 1 PROVE FALSE
    OBVIOUS
  <2>2. CASE q[1].type = "RoomSnapshot"
    <3>1. u.round = q[1].round
      BY <2>2 DEF Heeds
    <3>2. q[1].round.stage = "Playing" /\ q[1].round.id = sv.round
      BY <1>4, <2>1, <2>2 DEF TellsPlay
    <3>3. QED
      BY <3>1, <3>2 DEF TakesPart
  <2>3. CASE q[1].type # "RoomSnapshot"
    <3>1. q[1].type = "Started" /\ q[1].round.id = sv.round
      BY <1>4, <2>1, <2>3 DEF TellsPlay
    <3>2. q[1].round.id = w.round.id
      BY <1>1, <3>1, Reading DEF Before
    <3>3. w.round.mine = sv.mine
      BY <1>1, <3>1, <3>2 DEF Room
    <3>4. ASSUME sv.mine
          PROVE  w.abandoned \/ w.round.stage \in {"Scheduled", "Playing"}
      <4>1. SUFFICES ASSUME ~SetToStart(w) PROVE FALSE
        BY DEF SetToStart
      <4>2. PICK j \in 1..Len(q) : TellsStart(q[j], sv.round)
        BY <1>1, <3>4, <4>1 DEF Told
      <4>3. j # 1
        BY <3>1, <4>2 DEF TellsStart
      <4>4. 1 \in 1..Len(q) /\ 1 < j
        BY <4>3
      <4>5. Ordered(w, q[1], q[j]) /\ Fits(w, sv, q[1]) /\ Fits(w, sv, q[j])
        BY <1>1, <4>4 DEF Queue
      <4>6. q[j].type = "StartScheduled" /\ q[j].round.id = q[1].round.id
        BY <3>1, <4>2, <4>5 DEF TellsStart, Ordered, Pair
      <4>7. q[j].round.stage = "Scheduled" /\ q[1].round.stage = "Playing"
        BY <3>1, <4>5, <4>6 DEF Fits, MessageFits
      <4>8. Rank(q[1].round.stage) <= Rank(q[j].round.stage)
        BY <4>5, <4>6 DEF Ordered, Pair
      <4>9. QED
        BY <4>7, <4>8 DEF Rank
    <3>5. u.round.stage = "Playing" \/ (u.round.mine /\ u.abandoned)
      BY <3>1, <3>2, <3>3, <3>4 DEF Heeds
    <3>6. QED
      BY <1>2, <3>1, <3>2, <3>3, <3>5 DEF TakesPart
  <2>4. QED
    BY <2>2, <2>3
<1>6. QED
  BY <1>4, <1>5, InTail

\* A message is handled by a step within the round.
LEMMA StayReads ==
    ASSUME NEW w \in Session, NEW u \in Session, NEW sv \in Server,
           NEW q \in Seq(Messages), q # <<>>, NEW lk,
           InvOf(w, sv, q, lk), Stay(w, u), Local(u), u.state = "InRoom",
           Reaches(w, u, q[1]), Heeds(w, u, q[1]), q[1].type # "Removed",
           sv.member => u.round.id = After(q[1])
    PROVE  InvOf(u, sv, Tail(q), lk)
<1>1. /\ Local(w) /\ ServerWhole(sv) /\ Room(w, sv) /\ Queue(w, sv, q)
      /\ Linked(w, sv, q, lk)
  BY DEF InvOf
<1>2. /\ Fits(w, sv, q[1])
      /\ \A i \in 1..Len(Tail(q)) : /\ Fits(w, sv, Tail(q)[i])
                                    /\ Ordered(w, q[1], Tail(q)[i])
      /\ \A i \in 1..Len(Tail(q)), j \in 1..Len(Tail(q)) :
           i < j => Ordered(w, Tail(q)[i], Tail(q)[j])
  BY <1>1, QueueTail
<1>3. u.round.id = w.round.id
  BY StayRanks
<1>4. Room(u, sv)
  <2>1. w.round.id = sv.round /\ sv.phase # "Selecting" =>
             Rank(u.round.stage) <= Rank(sv.phase)
    <3>1. CASE u.round.stage = w.round.stage
      BY <1>1, <3>1 DEF Room
    <3>2. CASE u.round.stage = q[1].round.stage /\ q[1].round.id = w.round.id
      BY <1>2, <3>2 DEF Fits, ServerMessage
    <3>3. QED
      BY <3>1, <3>2 DEF Reaches
  <2>2. QED
    BY <1>1, <2>1, RoomStay
<1>5. Queue(u, sv, Tail(q))
  <2>1. ASSUME NEW i \in 1..Len(Tail(q))
        PROVE  Fits(u, sv, Tail(q)[i])
    <3> DEFINE b == Tail(q)[i]
    <3>1. b \in Messages
      BY TailIs
    <3>2. Fits(w, sv, b) /\ Ordered(w, q[1], b)
      BY <1>2
    <3> HIDE DEF b
    <3>3. b.round.id = w.round.id =>
            Rank(u.round.stage) <= Rank(b.round.stage)
      <4>1. CASE u.round.stage = w.round.stage
        BY <3>2, <4>1 DEF Fits, ClientMessage
      <4>2. CASE u.round.stage = q[1].round.stage /\ q[1].round.id = w.round.id
        BY <3>2, <4>2 DEF Ordered, Pair
      <4>3. QED
        BY <4>1, <4>2 DEF Reaches
    <3>4. b.type # "RoomSnapshot"
      BY <3>2 DEF Ordered, Pair
    <3>5. Fits(u, sv, b)
      BY <3>1, <3>2, <3>3, <3>4, FitsStay
    <3>6. QED
      BY <3>5 DEF b
  <2>2. ASSUME NEW i \in 1..Len(Tail(q)), NEW j \in 1..Len(Tail(q)), i < j
        PROVE  Ordered(u, Tail(q)[i], Tail(q)[j])
    BY <1>2, <1>3, <2>2, OrderedStay
  <2>3. QED
    BY <2>1, <2>2 DEF Queue
<1>6. Linked(u, sv, Tail(q), lk)
  BY <1>1, LinkedTail
<1>7. Told(u, sv, Tail(q), lk)
  BY ToldTail
<1>8. ToldPlay(u, sv, Tail(q), lk)
  BY ToldPlayTail
<1>9. QED
  BY <1>1, <1>4, <1>5, <1>6, <1>7, <1>8 DEF InvOf

-----------------------------------------------------------------------------
(* A handler that enters a round or leaves it.                             *)

\* A message takes the session into a round or out of one.
Enters(w, u, m) ==
    /\ u.state = "InRoom"
    /\ u.terminal = NoTerminal
    /\ u.retained \in {0, w.retained} \/ m.type = "Finalized"
    /\ \/ /\ m.type \in {"Finalized", "LaunchCancelled"}
          /\ m.round.id = w.round.id
          /\ u.round = NoRound
       \/ /\ m.type = "LoadingStarted"
          /\ w.round.id = 0
          /\ u.round = m.round
       \/ /\ m.type = "RoomSnapshot"
          /\ ~(w.state = "Reconnecting" /\ SameRound(w, m))
          /\ u.round = m.round

LEMMA EntersForeign ==
    ASSUME NEW w \in Session, Local(w), NEW u \in Session, NEW sv \in Server,
           ServerWhole(sv), Room(w, sv), NEW m \in Messages, Fits(w, sv, m),
           Enters(w, u, m)
    PROVE  /\ \/ u.round = NoRound
              \/ /\ u.round = m.round
                 /\ Opens(m)
                 /\ m.round.id # w.round.id
           /\ ~Engaged(sv)
           /\ u.round = NoRound \/ u.round = m.round
<1>1. MessageFits(m) /\ ClientMessage(w, m) /\ ServerMessage(sv, m) /\ RoomMessage(w, sv, m)
  BY DEF Fits
<1>2. Engaged(sv) => w.round.id = sv.round /\ sv.phase # "Selecting" /\ sv.round # 0
  BY DEF Room, Engaged, ServerWhole
<1>3. CASE /\ m.type \in {"Finalized", "LaunchCancelled"}
           /\ m.round.id = w.round.id
           /\ u.round = NoRound
  <2>1. sv.round \in Nat
    BY DEF Server
  <2>2. ~Engaged(sv)
    BY <1>1, <1>2, <1>3, <2>1 DEF ServerMessage
  <2>3. QED
    BY <1>3, <2>2
<1>4. CASE m.type = "LoadingStarted" /\ w.round.id = 0 /\ u.round = m.round
  <2>1. m.round.id # w.round.id
    BY <1>1, <1>4 DEF ClientMessage
  <2>2. QED
    BY <1>2, <1>4, <2>1 DEF Opens
<1>5. CASE /\ m.type = "RoomSnapshot"
           /\ ~(w.state = "Reconnecting" /\ SameRound(w, m))
           /\ u.round = m.round
  <2>1. w.state \in {"Reconnecting", "Out"}
    BY <1>1, <1>5 DEF ClientMessage, Session
  <2>2. w.state = "Out" => w.round.id = 0
    BY DEF Local, RoundWhole
  <2>3. m.round.id = w.round.id => m.round.id = 0
    BY <1>5, <2>1, <2>2 DEF SameRound
  <2>4. m.round.id = 0 => m.round = NoRound
    BY <1>1 DEF MessageFits, WholeRound
  <2>5. ~Engaged(sv)
    <3>1. SUFFICES ASSUME Engaged(sv) PROVE FALSE
      OBVIOUS
    <3>2. m.round.id = sv.round
      BY <1>1, <1>2, <1>5, <3>1 DEF RoomMessage
    <3>3. QED
      BY <1>2, <2>3, <3>1, <3>2
  <2>6. QED
    BY <1>5, <2>3, <2>4, <2>5 DEF Opens
<1>6. QED
  BY <1>3, <1>4, <1>5 DEF Enters

\* A session outside the server's round, which has heard nothing of it.
LEMMA RoomForeign ==
    ASSUME NEW u \in Session, NEW sv \in Server, ServerWhole(sv),
           ~Engaged(sv), u.round.id <= sv.round,
           u.round.id = sv.round /\ sv.phase # "Selecting" =>
             /\ Rank(u.round.stage) <= Rank(sv.phase)
             /\ sv.member => u.round.mine = sv.mine,
           \A t \in sv.heard : ~(u.round.mine /\ t.round = u.round.id),
           u.retained # 0 => sv.phase = "Selecting" \/ ~sv.mine
    PROVE  Room(u, sv)
<1>1. ~(sv.mine /\ \/ sv.phase = "Loading" /\ sv.loaded
                   \/ sv.phase \in {"Scheduled", "Playing"})
  BY DEF Engaged
<1>2. ~(sv.mine /\ sv.phase \in {"Loading", "Scheduled"})
  BY DEF Engaged
<1>3. ~(sv.mine /\ sv.phase # "Selecting" /\ sv.terminal = "Result")
  BY DEF Engaged, ServerWhole
<1>4. QED
  BY <1>1, <1>2, <1>3 DEF Room

LEMMA EntersRoom ==
    ASSUME NEW w \in Session, Local(w), NEW u \in Session, NEW sv \in Server,
           ServerWhole(sv), Room(w, sv), NEW m \in Messages, Fits(w, sv, m),
           Enters(w, u, m)
    PROVE  Room(u, sv)
<1>1. /\ \/ u.round = NoRound
         \/ /\ u.round = m.round
            /\ Opens(m)
            /\ m.round.id # w.round.id
      /\ ~Engaged(sv)
  BY EntersForeign
<1>2. MessageFits(m) /\ ServerMessage(sv, m) /\ RoomMessage(w, sv, m)
  BY DEF Fits
<1>3. sv.round \in Nat
  BY DEF Server
<1>4. NoRound.id = 0 /\ NoRound.mine = FALSE /\ NoRound.stage = "None"
  BY DEF NoRound
<1>5. u.round.id <= sv.round
  BY <1>1, <1>2, <1>3, <1>4 DEF ServerMessage
<1>6. u.round.id = sv.round /\ sv.phase # "Selecting" =>
        /\ Rank(u.round.stage) <= Rank(sv.phase)
        /\ sv.member => u.round.mine = sv.mine
  <2>1. CASE u.round = NoRound
    BY <1>4, <2>1 DEF ServerWhole
  <2>2. CASE u.round = m.round
    BY <1>2, <2>2 DEF ServerMessage
  <2>3. QED
    BY <1>1, <2>1, <2>2
<1>7. \A t \in sv.heard : ~(u.round.mine /\ t.round = u.round.id)
  BY <1>1, <1>2, <1>4 DEF RoomMessage
<1>8. u.retained # 0 => sv.phase = "Selecting" \/ ~sv.mine
  <2>1. m.type = "Finalized" => sv.phase = "Selecting" \/ ~sv.mine
    BY <1>2 DEF ServerMessage
  <2>2. QED
    BY <2>1 DEF Enters, Room
<1>9. QED
  BY <1>1, <1>5, <1>6, <1>7, <1>8, RoomForeign

LEMMA EntersFits ==
    ASSUME NEW w \in Session, Local(w), NEW u \in Session, NEW sv \in Server,
           ServerWhole(sv), Room(w, sv), NEW m \in Messages, Fits(w, sv, m),
           Enters(w, u, m), NEW b \in Messages, Fits(w, sv, b),
           Ordered(w, m, b)
    PROVE  Fits(u, sv, b)
<1>1. /\ \/ u.round = NoRound
         \/ /\ u.round = m.round
            /\ Opens(m)
            /\ m.round.id # w.round.id
  BY EntersForeign
<1>2. MessageFits(b) /\ ClientMessage(w, b) /\ RoomMessage(w, sv, b)
  BY DEF Fits
<1>3. Pair(m, b) /\ OpenPair(w, m, b)
  BY DEF Ordered
<1>4. NoRound.id = 0 /\ NoRound.mine = FALSE /\ NoRound.stage = "None"
  BY DEF NoRound
<1>5. b.round.stage \in Stage /\ b.round.id \in Nat /\ m.round.id \in Nat
  BY DEF Messages, RoundType
<1>6. b.round.id = u.round.id => Rank(u.round.stage) <= Rank(b.round.stage)
  <2>1. CASE u.round = NoRound
    <3>1. Rank(u.round.stage) = 0
      BY <1>4, <2>1 DEF Rank
    <3>2. Rank(b.round.stage) \in 0..4
      BY <1>5, RankNat
    <3>3. QED
      BY <3>1, <3>2
  <2>2. CASE u.round = m.round
    BY <1>3, <2>2 DEF Pair
  <2>3. QED
    BY <1>1, <2>1, <2>2
<1>7. b.type = "LoadingStarted" => u.round.id < b.round.id
  <2>1. CASE u.round = NoRound
    <3>1. b.type = "LoadingStarted" => b.round.id # 0
      BY <1>2, <1>4 DEF MessageFits, WholeRound
    <3>2. QED
      BY <1>4, <1>5, <2>1, <3>1
  <2>2. CASE u.round = m.round
    BY <1>3, <2>2 DEF Pair
  <2>3. QED
    BY <1>1, <2>1, <2>2
<1>8. Settles(b) /\ b.round.id = u.round.id /\ b.round.id # 0 =>
        /\ Quiet(u)
        /\ b.terminal = "Result" => u.round.stage = "Playing"
  BY <1>1, <1>3, <1>4 DEF OpenPair
<1>9. b.type = "Finalized" /\ b.round.id = u.round.id /\ u.round.mine => Fit(u)
  <2>1. CASE u.round = NoRound
    BY <1>4, <2>1
  <2>2. CASE u.round = m.round /\ Opens(m) /\ m.round.id # w.round.id
    <3>1. m.round.id = 0 => m.round = NoRound
      BY DEF Fits, MessageFits, WholeRound
    <3>2. QED
      BY <1>3, <1>4, <2>2, <3>1 DEF OpenPair
  <2>3. QED
    BY <1>1, <2>1, <2>2
<1>10. b.type # "RoomSnapshot"
  BY <1>3 DEF Pair
<1>11. u.retained # 0 => Watched(b.round)
  <2>1. CASE u.retained \in {0, w.retained}
    BY <1>2, <2>1 DEF ClientMessage
  <2>2. CASE m.type = "Finalized"
    BY <1>3, <2>2 DEF Pair
  <2>3. QED
    BY <2>1, <2>2 DEF Enters
<1>12. ClientMessage(u, b)
  BY <1>6, <1>7, <1>8, <1>9, <1>10, <1>11 DEF ClientMessage
<1>13. RoomMessage(u, sv, b)
  <2>1. b.type = "LoadingStarted" => b.round.id # w.round.id
    <3>1. w.round.id \in Nat
      BY DEF Session
    <3>2. QED
      BY <1>2, <1>5, <3>1 DEF ClientMessage
  <2>2. QED
    BY <1>2, <1>10, <2>1 DEF RoomMessage, Opens
<1>14. QED
  BY <1>12, <1>13 DEF Fits

LEMMA EntersOrdered ==
    ASSUME NEW w \in Session, NEW u, NEW sv, NEW a \in Messages,
           Fits(w, sv, a), a.type # "RoomSnapshot",
           NEW b, Ordered(w, a, b)
    PROVE  Ordered(u, a, b)
<1>1. a.type = "LoadingStarted" => a.round.id # w.round.id
  <2>1. w.round.id \in Nat /\ a.round.id \in Nat
    BY DEF Session, Messages, RoundType
  <2>2. QED
    BY <2>1 DEF Fits, ClientMessage
<1>2. QED
  BY <1>1 DEF Ordered, OpenPair, Opens

\* A message is handled by entering or leaving a round.
LEMMA EntersReads ==
    ASSUME NEW w \in Session, NEW u \in Session, NEW sv \in Server,
           NEW q \in Seq(Messages), q # <<>>, NEW lk,
           InvOf(w, sv, q, lk), Local(u), Enters(w, u, q[1])
    PROVE  InvOf(u, sv, Tail(q), lk)
<1>1. /\ Local(w) /\ ServerWhole(sv) /\ Room(w, sv) /\ Queue(w, sv, q)
      /\ Linked(w, sv, q, lk) /\ ToldPlay(w, sv, q, lk)
  BY DEF InvOf
<1>2. /\ Fits(w, sv, q[1])
      /\ \A i \in 1..Len(Tail(q)) : /\ Fits(w, sv, Tail(q)[i])
                                    /\ Ordered(w, q[1], Tail(q)[i])
      /\ \A i \in 1..Len(Tail(q)), j \in 1..Len(Tail(q)) :
           i < j => Ordered(w, Tail(q)[i], Tail(q)[j])
  BY <1>1, QueueTail
<1>3. q[1] \in Messages
  BY TailIs
<1>4. Room(u, sv)
  BY <1>1, <1>2, <1>3, EntersRoom
<1>5. /\ u.round = NoRound \/ u.round = q[1].round
      /\ ~Engaged(sv)
  BY <1>1, <1>2, <1>3, EntersForeign
<1>6. Queue(u, sv, Tail(q))
  <2>1. ASSUME NEW i \in 1..Len(Tail(q))
        PROVE  Fits(u, sv, Tail(q)[i])
    <3>1. Tail(q)[i] \in Messages
      BY TailIs
    <3>2. Fits(w, sv, Tail(q)[i]) /\ Ordered(w, q[1], Tail(q)[i])
      BY <1>2
    <3>3. QED
      BY <1>1, <1>2, <1>3, <3>1, <3>2, EntersFits
  <2>2. ASSUME NEW i \in 1..Len(Tail(q)), NEW j \in 1..Len(Tail(q)), i < j
        PROVE  Ordered(u, Tail(q)[i], Tail(q)[j])
    <3>1. Tail(q)[i] \in Messages
      BY TailIs
    <3>2. /\ Fits(w, sv, Tail(q)[i]) /\ Ordered(w, q[1], Tail(q)[i])
          /\ Ordered(w, Tail(q)[i], Tail(q)[j])
      BY <1>2, <2>2
    <3>3. Tail(q)[i].type # "RoomSnapshot"
      BY <3>2 DEF Ordered, Pair
    <3>4. QED
      BY <3>1, <3>2, <3>3, EntersOrdered
  <2>3. QED
    BY <2>1, <2>2 DEF Queue
<1>7. Linked(u, sv, Tail(q), lk)
  <2>1. u.round.id = After(q[1])
    BY DEF Enters, After, NoRound
  <2>2. u.state = "InRoom" /\ q[1].type # "Removed"
    BY DEF Enters
  <2>3. QED
    BY <1>1, <2>1, <2>2, LinkedTail
<1>8. Told(u, sv, Tail(q), lk)
  BY <1>5 DEF Told, Engaged
<1>9. ToldPlay(u, sv, Tail(q), lk)
  <2>1. SUFFICES ASSUME lk # "Down", sv.member, sv.phase = "Playing",
                    ~TakesPart(u, sv)
             PROVE  \E i \in 1..Len(Tail(q)) : TellsPlay(Tail(q)[i], sv.round)
    BY DEF ToldPlay
  <2>2. sv.round # 0 /\ sv.round \in Nat
    BY <1>1, <2>1 DEF ServerWhole, Server
  <2>3. ~TakesPart(w, sv)
    <3>1. SUFFICES ASSUME w.state = "InRoom", w.round.id = sv.round PROVE FALSE
      BY DEF TakesPart
    <3>2. CASE q[1].type \in {"Finalized", "LaunchCancelled"}
               /\ q[1].round.id = w.round.id
      BY <1>2, <2>1, <2>2, <3>1, <3>2 DEF Fits, ServerMessage
    <3>3. CASE q[1].type = "LoadingStarted" /\ w.round.id = 0
      BY <2>2, <3>1, <3>3
    <3>4. CASE q[1].type = "RoomSnapshot"
      BY <1>2, <3>1, <3>4 DEF Fits, ClientMessage
    <3>5. QED
      BY <3>2, <3>3, <3>4 DEF Enters
  <2>4. PICK i \in 1..Len(q) : TellsPlay(q[i], sv.round)
    BY <1>1, <2>1, <2>3 DEF ToldPlay
  <2>5. i # 1
    <3>1. SUFFICES ASSUME i = 1 PROVE FALSE
      OBVIOUS
    <3>2. q[1].type = "RoomSnapshot" /\ q[1].round.id = sv.round
          /\ q[1].round.stage = "Playing"
      BY <2>4, <3>1 DEF TellsPlay, Enters
    <3>3. u.round = q[1].round /\ u.state = "InRoom"
      BY <3>2 DEF Enters
    <3>4. QED
      BY <2>1, <3>2, <3>3 DEF TakesPart
  <2>6. QED
    BY <2>4, <2>5, InTail
<1>10. QED
  BY <1>1, <1>4, <1>6, <1>7, <1>8, <1>9 DEF InvOf

\* The session has left the room.
LEMMA LeaveInv ==
    ASSUME NEW u \in Session, NEW sv \in Server, ServerWhole(sv), ~sv.mine,
           Local(u), Free(u), u.state = "Out",
           u.retained # 0 => sv.phase = "Selecting" \/ ~sv.mine
    PROVE  InvOf(u, sv, <<>>, "Down")
<1>1. u.round.id = 0 /\ u.round.mine = FALSE
  BY DEF Free, NoRound
<1>2. sv.round \in Nat
  BY DEF Server
<1>3. Room(u, sv)
  <2>1. ~Engaged(sv)
    BY DEF Engaged
  <2>2. u.round.id = sv.round => sv.phase = "Selecting"
    BY <1>1 DEF ServerWhole
  <2>3. QED
    BY <1>1, <1>2, <2>1, <2>2, RoomForeign
<1>4. Queue(u, sv, <<>>)
  BY DEF Queue
<1>5. Linked(u, sv, <<>>, "Down")
  BY DEF Linked
<1>6. Told(u, sv, <<>>, "Down") /\ ToldPlay(u, sv, <<>>, "Down")
  BY DEF Told, ToldPlay
<1>7. QED
  BY <1>3, <1>4, <1>5, <1>6 DEF InvOf

\* The link of the session is lost.
LEMMA ReconnectInv ==
    ASSUME NEW w \in Session, NEW u \in Session, NEW sv \in Server,
           Local(w), ServerWhole(sv), Room(w, sv),
           Stay(w, u), Local(u), u.round = w.round, u.state # "InRoom"
    PROVE  InvOf(u, sv, <<>>, "Down")
<1>1. Room(u, sv)
  <2>1. w.round.id = sv.round /\ sv.phase # "Selecting" =>
             Rank(u.round.stage) <= Rank(sv.phase)
    BY DEF Room
  <2>2. QED
    BY <2>1, RoomStay
<1>2. Queue(u, sv, <<>>)
  BY DEF Queue
<1>3. Linked(u, sv, <<>>, "Down")
  BY DEF Linked
<1>4. Told(u, sv, <<>>, "Down") /\ ToldPlay(u, sv, <<>>, "Down")
  BY DEF Told, ToldPlay
<1>5. QED
  BY <1>1, <1>2, <1>3, <1>4 DEF InvOf

-----------------------------------------------------------------------------
(* Every message.                                                          *)

\* Where a handler of the session leaves the invariant.
Lands(w, u, sv, q, lk) ==
    /\ Local(u)
    /\ RunningKept(w, u)
    /\ \/ u.state = "InRoom" /\ OutFits(u) /\ InvOf(u, sv, Tail(q), lk)
       \/ /\ u.state # "InRoom" /\ u.state # w.state
          /\ InvOf(u, sv, <<>>, "Down")

LEMMA SilentFits ==
    ASSUME NEW u, u.out = Silent
    PROVE  OutFits(u)
BY DEF OutFits, Silent

LEMMA SoundReads ==
    ASSUME NEW w \in Session, NEW u \in Session, NEW sv \in Server,
           NEW q \in Seq(Messages), q # <<>>, NEW lk,
           InvOf(w, sv, q, lk), w.state = "InRoom", Sound(w, u),
           Reaches(w, u, q[1]), Heeds(w, u, q[1]),
           q[1].type \notin {"Removed", "LoadingStarted", "Finalized",
                             "LaunchCancelled", "RoomSnapshot"}
    PROVE  Lands(w, u, sv, q, lk)
<1>1. /\ Local(u) /\ Stay(w, u) /\ u.state = "InRoom" /\ OutFits(u)
      /\ RunningKept(w, u)
  BY DEF Sound
<1>2. sv.member => u.round.id = After(q[1])
  <2>1. Linked(w, sv, q, lk)
    BY DEF InvOf
  <2>2. sv.member => Before(q[1]) = w.round.id
    BY <2>1, Reading
  <2>3. Before(q[1]) = q[1].round.id /\ After(q[1]) = q[1].round.id
    BY DEF Before, After
  <2>4. QED
    BY <1>1, <2>2, <2>3 DEF Stay
<1>3. InvOf(u, sv, Tail(q), lk)
  BY <1>1, <1>2, StayReads
<1>4. QED
  BY <1>1, <1>3 DEF Lands

LEMMA RequestsLand ==
    ASSUME NEW w \in Session, w.out = Silent, NEW sv \in Server,
           NEW q \in Seq(Messages), q # <<>>, NEW lk,
           InvOf(w, sv, q, lk), w.state = "InRoom",
           NEW attaches \in BOOLEAN
    PROVE  /\ q[1].type = "ProbeRequested" =>
                Lands(w, HandleProbeRequested(w, q[1]), sv, q, lk)
           /\ q[1].type = "LoadRequested" =>
                Lands(w, HandleLoadRequested(w, q[1]), sv, q, lk)
           /\ q[1].type = "StartScheduled" =>
                Lands(w, HandleRoundStartScheduled(w, q[1], attaches), sv, q, lk)
           /\ q[1].type = "Started" =>
                Lands(w, HandleRoundStarted(w, q[1]), sv, q, lk)
<1>1. PICK m : m = q[1]
  OBVIOUS
<1>2. m \in Messages
  BY <1>1, TailIs
<1>3. Local(w) /\ MessageFits(m)
  <2>1. Queue(w, sv, q) /\ Local(w)
    BY DEF InvOf
  <2>2. QED
    BY <1>1, <2>1, QueueTail DEF Fits
<1>4. ASSUME m.type = "ProbeRequested"
      PROVE  Lands(w, HandleProbeRequested(w, m), sv, q, lk)
  <2>1. PICK u : u = HandleProbeRequested(w, m)
    OBVIOUS
  <2>2. Sound(w, u) /\ u.round = w.round
    BY <1>2, <1>3, <2>1, ProbeRequestedSound
  <2>3. u \in Session
    BY <1>2, <2>1, HandlersType
  <2>4. Reaches(w, u, m) /\ Heeds(w, u, m)
    BY <1>4, <2>2 DEF Reaches, Heeds
  <2>5. Lands(w, u, sv, q, lk)
    BY <1>1, <1>4, <2>2, <2>3, <2>4, SoundReads
  <2>6. QED
    BY <2>1, <2>5
<1>5. ASSUME m.type = "LoadRequested"
      PROVE  Lands(w, HandleLoadRequested(w, m), sv, q, lk)
  <2>1. PICK u : u = HandleLoadRequested(w, m)
    OBVIOUS
  <2>2. Sound(w, u) /\ Reaches(w, u, m)
    BY <1>2, <1>3, <1>5, <2>1, LoadRequestedSound
  <2>3. u \in Session
    BY <1>2, <2>1, HandlersType
  <2>4. Heeds(w, u, m)
    BY <1>5 DEF Heeds
  <2>5. Lands(w, u, sv, q, lk)
    BY <1>1, <1>5, <2>2, <2>3, <2>4, SoundReads
  <2>6. QED
    BY <2>1, <2>5
<1>6. ASSUME m.type = "StartScheduled"
      PROVE  Lands(w, HandleRoundStartScheduled(w, m, attaches), sv, q, lk)
  <2>1. PICK u : u = HandleRoundStartScheduled(w, m, attaches)
    OBVIOUS
  <2>2. /\ Sound(w, u) /\ Reaches(w, u, m)
        /\ (m.round.id = w.round.id /\ Fit(w)) =>
              (u.abandoned \/ u.round.stage \in {"Scheduled", "Playing"})
    BY <1>2, <1>3, <1>6, <2>1, StartScheduledSound
  <2>3. u \in Session
    BY <1>2, <2>1, HandlersType
  <2>4. Heeds(w, u, m)
    BY <1>6, <2>2 DEF Heeds
  <2>5. Lands(w, u, sv, q, lk)
    BY <1>1, <1>6, <2>2, <2>3, <2>4, SoundReads
  <2>6. QED
    BY <2>1, <2>5
<1>7. ASSUME m.type = "Started"
      PROVE  Lands(w, HandleRoundStarted(w, m), sv, q, lk)
  <2>1. PICK u : u = HandleRoundStarted(w, m)
    OBVIOUS
  <2>2. /\ Sound(w, u) /\ Reaches(w, u, m)
        /\ (/\ m.round.id = w.round.id
            /\ w.round.mine =>
                 (w.abandoned \/ w.round.stage \in {"Scheduled", "Playing"}))
           => (u.round.stage = "Playing" \/ (u.round.mine /\ u.abandoned))
    BY <1>2, <1>3, <1>7, <2>1, StartedSound
  <2>3. u \in Session
    BY <1>2, <2>1, HandlersType
  <2>4. Heeds(w, u, m)
    BY <1>7, <2>2 DEF Heeds
  <2>5. Lands(w, u, sv, q, lk)
    BY <1>1, <1>7, <2>2, <2>3, <2>4, SoundReads
  <2>6. QED
    BY <2>1, <2>5
<1>8. QED
  BY <1>1, <1>4, <1>5, <1>6, <1>7

LEMMA VerdictsLand ==
    ASSUME NEW w \in Session, w.out = Silent, NEW sv \in Server,
           NEW q \in Seq(Messages), q # <<>>, NEW lk,
           InvOf(w, sv, q, lk), w.state = "InRoom"
    PROVE  /\ q[1].type = "Standings" =>
                Lands(w, HandleStandings(w, q[1]), sv, q, lk)
           /\ q[1].type = "Accepted" =>
                Lands(w, HandleTerminalAccepted(w, q[1]), sv, q, lk)
           /\ q[1].type = "Refused" =>
                Lands(w, HandleTerminalRefused(w, q[1]), sv, q, lk)
<1>1. PICK m : m = q[1]
  OBVIOUS
<1>2. m \in Messages
  BY <1>1, TailIs
<1>3. /\ Local(w) /\ ServerWhole(sv) /\ Room(w, sv)
      /\ MessageFits(m) /\ ClientMessage(w, m)
  <2>1. Queue(w, sv, q) /\ Local(w) /\ ServerWhole(sv) /\ Room(w, sv)
    BY DEF InvOf
  <2>2. QED
    BY <1>1, <2>1, QueueTail DEF Fits
<1>4. ASSUME m.type = "Standings"
      PROVE  Lands(w, HandleStandings(w, m), sv, q, lk)
  <2>1. PICK u : u = HandleStandings(w, m)
    OBVIOUS
  <2>2. SameRound(w, m) /\ m.terminal # "None" =>
             /\ Quiet(w)
             /\ m.terminal = "Result" => w.round.stage = "Playing"
    BY <1>3, <1>4 DEF SameRound, ClientMessage, Settles
  <2>3. Sound(w, u) /\ u.round = w.round
    BY <1>2, <1>3, <2>1, <2>2, StandingsSound
  <2>4. u \in Session
    BY <1>2, <2>1, HandlersType
  <2>5. Reaches(w, u, m) /\ Heeds(w, u, m)
    BY <1>4, <2>3 DEF Reaches, Heeds
  <2>6. Lands(w, u, sv, q, lk)
    BY <1>1, <1>4, <2>3, <2>4, <2>5, SoundReads
  <2>7. QED
    BY <2>1, <2>6
<1>5. ASSUME m.type = "Accepted"
      PROVE  Lands(w, HandleTerminalAccepted(w, m), sv, q, lk)
  <2>1. PICK u : u = HandleTerminalAccepted(w, m)
    OBVIOUS
  <2>2. Sound(w, u) /\ u.round = w.round
    BY <1>2, <1>3, <2>1, TerminalAcceptedSound
  <2>3. u \in Session
    BY <1>2, <2>1, HandlersType
  <2>4. Reaches(w, u, m) /\ Heeds(w, u, m)
    BY <1>5, <2>2 DEF Reaches, Heeds
  <2>5. Lands(w, u, sv, q, lk)
    BY <1>1, <1>5, <2>2, <2>3, <2>4, SoundReads
  <2>6. QED
    BY <2>1, <2>5
<1>6. ASSUME m.type = "Refused"
      PROVE  Lands(w, HandleTerminalRefused(w, m), sv, q, lk)
  <2>1. PICK u : u = HandleTerminalRefused(w, m)
    OBVIOUS
  <2>2. \/ Sound(w, u) /\ u.round = w.round
        \/ u = BeginReconnect(w)
    BY <1>2, <1>3, <2>1, TerminalRefusedSound
  <2>3. u \in Session
    BY <1>2, <2>1, HandlersType
  <2>4. ASSUME Sound(w, u), u.round = w.round
        PROVE  Lands(w, u, sv, q, lk)
    <3>1. Reaches(w, u, m) /\ Heeds(w, u, m)
      BY <1>6, <2>4 DEF Reaches, Heeds
    <3>2. QED
      BY <1>1, <1>6, <2>3, <2>4, <3>1, SoundReads
  <2>5. ASSUME u = BeginReconnect(w)
        PROVE  Lands(w, u, sv, q, lk)
    <3>1. /\ Local(u) /\ Stay(w, u) /\ RunningKept(w, u)
          /\ u.state = "Reconnecting" /\ u.round = w.round
      BY <1>3, <2>5, BeginReconnectSound
    <3>2. InvOf(u, sv, <<>>, "Down")
      BY <1>3, <2>3, <3>1, ReconnectInv
    <3>3. QED
      BY <3>1, <3>2 DEF Lands
  <2>6. Lands(w, u, sv, q, lk)
    BY <2>2, <2>4, <2>5
  <2>7. QED
    BY <2>1, <2>6
<1>7. QED
  BY <1>1, <1>4, <1>5, <1>6

\* A message of another round changes nothing: it is behind the removal of the
\* player.
LEMMA IgnoredLands ==
    ASSUME NEW w \in Session, w.out = Silent, NEW sv \in Server,
           NEW q \in Seq(Messages), q # <<>>, NEW lk,
           InvOf(w, sv, q, lk), w.state = "InRoom",
           q[1].type \in {"LoadingStarted", "Finalized", "LaunchCancelled"},
           ~sv.member
    PROVE  Lands(w, w, sv, q, lk)
<1>1. Local(w)
  BY DEF InvOf
<1>2. Stay(w, w) /\ RunningKept(w, w) /\ OutFits(w)
  BY <1>1, SilentFits, SoundSame DEF Sound
<1>3. Reaches(w, w, q[1]) /\ Heeds(w, w, q[1])
  BY DEF Reaches, Heeds
<1>4. InvOf(w, sv, Tail(q), lk)
  BY <1>1, <1>2, <1>3, StayReads
<1>5. QED
  BY <1>1, <1>2, <1>4 DEF Lands

LEMMA RoundsLand ==
    ASSUME NEW w \in Session, w.out = Silent, NEW sv \in Server,
           NEW q \in Seq(Messages), q # <<>>, NEW lk,
           InvOf(w, sv, q, lk), w.state = "InRoom"
    PROVE  /\ q[1].type = "LoadingStarted" =>
                Lands(w, HandleRoundLoadingStarted(w, q[1]), sv, q, lk)
           /\ q[1].type = "Finalized" =>
                Lands(w, HandleRoundFinalized(w, q[1]), sv, q, lk)
           /\ q[1].type = "LaunchCancelled" =>
                Lands(w, HandleRoundLaunchCancelled(w, q[1]), sv, q, lk)
<1>1. PICK m : m = q[1]
  OBVIOUS
<1>2. m \in Messages
  BY <1>1, TailIs
<1>3. /\ Local(w) /\ ServerWhole(sv) /\ Room(w, sv) /\ Linked(w, sv, q, lk)
      /\ MessageFits(m) /\ ClientMessage(w, m)
  <2>1. /\ Queue(w, sv, q) /\ Local(w) /\ ServerWhole(sv) /\ Room(w, sv)
        /\ Linked(w, sv, q, lk)
    BY DEF InvOf
  <2>2. QED
    BY <1>1, <2>1, QueueTail DEF Fits
<1>4. sv.member => m.type = "RoomSnapshot" \/ Before(m) = w.round.id
  BY <1>1, <1>3, Reading
<1>5. ASSUME m.type = "LoadingStarted"
      PROVE  Lands(w, HandleRoundLoadingStarted(w, m), sv, q, lk)
  <2>1. PICK u : u = HandleRoundLoadingStarted(w, m)
    OBVIOUS
  <2>2. w.retained = 0 \/ Watched(m.round)
    BY <1>3 DEF ClientMessage
  <2>3. \/ u = w /\ w.round.id # 0
        \/ /\ Local(u) /\ RunningKept(w, u)
           /\ u.round = m.round /\ w.round.id = 0
           /\ u.terminal = NoTerminal
           /\ u.state = "InRoom" /\ u.retained = w.retained
           /\ u.out = Silent
    BY <1>2, <1>3, <1>5, <2>1, <2>2, LoadingStartedSound
  <2>4. u \in Session
    BY <1>2, <2>1, HandlersType
  <2>5. ASSUME u = w, w.round.id # 0
        PROVE  Lands(w, u, sv, q, lk)
    <3>1. ~sv.member
      BY <1>4, <1>5, <2>5 DEF Before
    <3>2. QED
      BY <1>1, <1>5, <2>5, <3>1, IgnoredLands
  <2>6. ASSUME Local(u), RunningKept(w, u), u.round = m.round,
               w.round.id = 0, u.terminal = NoTerminal,
               u.state = "InRoom", u.retained = w.retained, u.out = Silent
        PROVE  Lands(w, u, sv, q, lk)
    <3>1. Enters(w, u, m)
      BY <1>5, <2>6 DEF Enters
    <3>2. InvOf(u, sv, Tail(q), lk)
      BY <1>1, <2>4, <2>6, <3>1, EntersReads
    <3>3. QED
      BY <2>6, <3>2, SilentFits DEF Lands
  <2>7. Lands(w, u, sv, q, lk)
    BY <2>3, <2>5, <2>6
  <2>8. QED
    BY <2>1, <2>7
<1>6. ASSUME NEW u \in Session, m.type \in {"Finalized", "LaunchCancelled"},
             Local(u), RunningKept(w, u), Free(u), u.state = "InRoom",
             m.round.id = w.round.id,
             u.retained = w.retained \/ m.type = "Finalized"
      PROVE  Lands(w, u, sv, q, lk)
  <2>1. Enters(w, u, m)
    BY <1>6 DEF Enters, Free
  <2>2. InvOf(u, sv, Tail(q), lk)
    BY <1>1, <1>6, <2>1, EntersReads
  <2>3. QED
    BY <1>6, <2>2, SilentFits DEF Lands, Free
<1>7. ASSUME m.type = "Finalized"
      PROVE  Lands(w, HandleRoundFinalized(w, m), sv, q, lk)
  <2>1. PICK u : u = HandleRoundFinalized(w, m)
    OBVIOUS
  <2>2. (m.round.id = w.round.id /\ w.round.mine) => Fit(w)
    BY <1>3, <1>7 DEF ClientMessage
  <2>3. \/ u = w /\ m.round.id # w.round.id
        \/ /\ Local(u) /\ RunningKept(w, u) /\ Free(u)
           /\ u.state = "InRoom" /\ m.round.id = w.round.id
    BY <1>2, <1>3, <1>7, <2>1, <2>2, FinalizedSound
  <2>4. u \in Session
    BY <1>2, <2>1, HandlersType
  <2>5. ASSUME u = w, m.round.id # w.round.id
        PROVE  Lands(w, u, sv, q, lk)
    <3>1. ~sv.member
      BY <1>4, <1>7, <2>5 DEF Before
    <3>2. QED
      BY <1>1, <1>7, <2>5, <3>1, IgnoredLands
  <2>6. Lands(w, u, sv, q, lk)
    BY <1>6, <1>7, <2>3, <2>4, <2>5
  <2>7. QED
    BY <2>1, <2>6
<1>8. ASSUME m.type = "LaunchCancelled"
      PROVE  Lands(w, HandleRoundLaunchCancelled(w, m), sv, q, lk)
  <2>1. PICK u : u = HandleRoundLaunchCancelled(w, m)
    OBVIOUS
  <2>2. \/ /\ u = w
           /\ m.round.id # w.round.id \/ w.round.stage = "Playing"
        \/ /\ Local(u) /\ RunningKept(w, u) /\ Free(u)
           /\ u.state = "InRoom" /\ u.retained = w.retained
           /\ m.round.id = w.round.id
    BY <1>2, <1>3, <1>8, <2>1, LaunchCancelledSound
  <2>3. u \in Session
    BY <1>2, <2>1, HandlersType
  <2>4. ASSUME u = w, m.round.id # w.round.id \/ w.round.stage = "Playing"
        PROVE  Lands(w, u, sv, q, lk)
    <3>1. w.round.stage = "Playing" => m.round.id # w.round.id
      <4>1. m.round.stage \in {"Probing", "Loading", "Scheduled"}
        BY <1>3, <1>8 DEF MessageFits
      <4>2. m.round.id = w.round.id =>
              Rank(w.round.stage) <= Rank(m.round.stage)
        BY <1>3 DEF ClientMessage
      <4>3. QED
        BY <4>1, <4>2 DEF Rank
    <3>2. ~sv.member
      BY <1>4, <1>8, <2>4, <3>1 DEF Before
    <3>3. QED
      BY <1>1, <1>8, <2>4, <3>2, IgnoredLands
  <2>5. Lands(w, u, sv, q, lk)
    BY <1>6, <1>8, <2>2, <2>3, <2>4
  <2>6. QED
    BY <2>1, <2>5
<1>9. QED
  BY <1>1, <1>5, <1>7, <1>8

LEMMA SnapshotLands ==
    ASSUME NEW w \in Session, w.out = Silent, NEW sv \in Server,
           NEW q \in Seq(Messages), q # <<>>, NEW lk,
           InvOf(w, sv, q, lk), q[1].type = "RoomSnapshot",
           NEW attaches \in BOOLEAN
    PROVE  Lands(w, ApplyRoomSnapshot(w, q[1], attaches), sv, q, lk)
<1>1. PICK m : m = q[1]
  OBVIOUS
<1>2. m \in Messages
  BY <1>1, TailIs
<1>3. Local(w) /\ MessageFits(m) /\ ClientMessage(w, m)
  <2>1. Queue(w, sv, q) /\ Local(w)
    BY DEF InvOf
  <2>2. QED
    BY <1>1, <2>1, QueueTail DEF Fits
<1>4. PICK u : u = ApplyRoomSnapshot(w, m, attaches)
  OBVIOUS
<1>5. u \in Session
  BY <1>2, <1>4, ApplyRoomSnapshotType
<1>6. m.type = "RoomSnapshot"
  BY <1>1
<1>7. CASE w.state = "Reconnecting" /\ SameRound(w, m)
  <2>1. m.round.mine = w.round.mine /\ Rank(w.round.stage) <= Rank(m.round.stage)
    BY <1>3, <1>6, <1>7 DEF ClientMessage, SameRound
  <2>2. /\ Local(u) /\ Stay(w, u) /\ RunningKept(w, u) /\ OutFits(u)
        /\ u.state = "InRoom" /\ u.round = m.round
    BY <1>2, <1>3, <1>4, <1>7, <2>1, SnapshotSame
  <2>3. Reaches(w, u, m) /\ Heeds(w, u, m) /\ u.round.id = After(m)
    BY <1>6, <1>7, <2>2 DEF Reaches, Heeds, After, SameRound
  <2>4. InvOf(u, sv, Tail(q), lk)
    BY <1>1, <1>5, <1>6, <2>2, <2>3, StayReads
  <2>5. Lands(w, u, sv, q, lk)
    BY <2>2, <2>4 DEF Lands
  <2>6. QED
    BY <1>1, <1>4, <2>5
<1>8. CASE ~(w.state = "Reconnecting" /\ SameRound(w, m))
  <2>1. w.retained = 0 \/ Watched(m.round)
    BY <1>3 DEF ClientMessage
  <2>2. /\ Local(u) /\ RunningKept(w, u)
        /\ u.state = "InRoom" /\ u.round = m.round
        /\ u.terminal = NoTerminal /\ u.out = Silent
        /\ u.retained = w.retained
    BY <1>2, <1>3, <1>4, <1>8, <2>1, SnapshotOther
  <2>3. Enters(w, u, m)
    BY <1>6, <1>8, <2>2 DEF Enters
  <2>4. InvOf(u, sv, Tail(q), lk)
    BY <1>1, <1>5, <2>2, <2>3, EntersReads
  <2>5. Lands(w, u, sv, q, lk)
    BY <2>2, <2>4, SilentFits DEF Lands
  <2>6. QED
    BY <1>1, <1>4, <2>5
<1>9. QED
  BY <1>7, <1>8

LEMMA RemovedLands ==
    ASSUME NEW w \in Session, w.out = Silent, NEW sv \in Server,
           NEW q \in Seq(Messages), q # <<>>, NEW lk,
           InvOf(w, sv, q, lk), q[1].type = "Removed", w.state = "InRoom"
    PROVE  Lands(w, ClearRoom(w), sv, q, lk)
<1>1. PICK m : m = q[1]
  OBVIOUS
<1>2. Local(w) /\ ServerWhole(sv) /\ Room(w, sv) /\ ServerMessage(sv, m)
  <2>1. Queue(w, sv, q) /\ Local(w) /\ ServerWhole(sv) /\ Room(w, sv)
    BY DEF InvOf
  <2>2. QED
    BY <1>1, <2>1, QueueTail DEF Fits
<1>3. ~sv.mine
  BY <1>1, <1>2 DEF ServerMessage, ServerWhole
<1>4. PICK u : u = ClearRoom(w)
  OBVIOUS
<1>5. u \in Session
  BY <1>4, ClearRoomType
<1>6. /\ Local(u) /\ RunningKept(w, u) /\ Free(u)
      /\ u.state = "Out" /\ u.retained = w.retained
  BY <1>2, <1>4, ClearRoomSound
<1>7. u.retained # 0 => sv.phase = "Selecting" \/ ~sv.mine
  BY <1>2, <1>6 DEF Room
<1>8. InvOf(u, sv, <<>>, "Down")
  BY <1>2, <1>3, <1>5, <1>6, <1>7, LeaveInv
<1>9. Lands(w, u, sv, q, lk)
  BY <1>6, <1>8 DEF Lands
<1>10. QED
  BY <1>4, <1>9

\* Every message that heads the inbox is handled into the invariant, and starts
\* no runner.
LEMMA HandleLands ==
    ASSUME NEW w \in Session, w.out = Silent, NEW sv \in Server,
           NEW q \in Seq(Messages), q # <<>>, NEW lk,
           InvOf(w, sv, q, lk), NEW attaches \in BOOLEAN
    PROVE  /\ Lands(w, HandleServerMessage(w, q[1], attaches), sv, q, lk)
           /\ HandleServerMessage(w, q[1], attaches) \in Session
<1>1. q[1] \in Messages
  BY TailIs
<1>2. q[1].type \in MessageType
  BY <1>1 DEF Messages
<1>3. w.state = "InRoom" \/ q[1].type = "RoomSnapshot"
  BY Reading DEF InvOf
<1>4. Lands(w, HandleServerMessage(w, q[1], attaches), sv, q, lk)
  <2>1. CASE q[1].type = "RoomSnapshot"
    BY <2>1, SnapshotLands DEF HandleServerMessage
  <2>2. CASE q[1].type # "RoomSnapshot"
    <3>1. w.state = "InRoom"
      BY <1>3, <2>2
    <3>2. CASE q[1].type = "Removed"
      BY <3>1, <3>2, RemovedLands DEF HandleServerMessage
    <3>3. CASE q[1].type \in {"ProbeRequested", "LoadRequested",
                              "StartScheduled", "Started"}
      BY <3>1, <3>3, RequestsLand DEF HandleServerMessage
    <3>4. CASE q[1].type \in {"Standings", "Accepted", "Refused"}
      BY <3>1, <3>4, VerdictsLand DEF HandleServerMessage
    <3>5. CASE q[1].type \in {"LoadingStarted", "Finalized", "LaunchCancelled"}
      BY <3>1, <3>5, RoundsLand DEF HandleServerMessage
    <3>6. QED
      BY <1>2, <2>2, <3>2, <3>3, <3>4, <3>5 DEF MessageType
  <2>3. QED
    BY <2>1, <2>2
<1>5. QED
  BY <1>1, <1>4, HandleServerMessageType

-----------------------------------------------------------------------------
(* The server speaks.                                                      *)

\* A server message of a type that opens no round.
Spoken(sv, m) ==
    /\ m.round = ServerRound(sv)
    /\ m.terminal = sv.terminal
    /\ m.type \notin {"LoadingStarted", "RoomSnapshot"}
    /\ m.type = "LoadRequested" => sv.phase = "Loading"
    /\ m.type = "StartScheduled" => sv.phase = "Scheduled"
    /\ m.type \in {"Started", "Finalized"} => sv.phase = "Playing"
    /\ m.type = "LaunchCancelled" =>
          sv.phase \in {"Probing", "Loading", "Scheduled"}

LEMMA ServerRoundIs ==
    ASSUME NEW sv \in Server, ServerWhole(sv)
    PROVE  /\ sv.round \in Nat
           /\ sv.phase \in Stage \cup {"Selecting"}
           /\ sv.phase = "Selecting" => ServerRound(sv) = NoRound
           /\ sv.phase # "Selecting" =>
                /\ sv.round # 0
                /\ ServerRound(sv).id = sv.round
                /\ ServerRound(sv).stage = sv.phase
                /\ ServerRound(sv).mine = sv.mine
           /\ ServerRound(sv).id <= sv.round
           /\ ServerRound(sv).id \in Nat
           /\ WholeRound(ServerRound(sv))
           /\ NoRound.id = 0 /\ NoRound.stage = "None" /\ NoRound.mine = FALSE
<1>1. sv.round \in Nat /\ sv.phase \in Stage \cup {"Selecting"} /\ sv.phase # "None"
  BY DEF Server, Stage
<1>2. NoRound.id = 0 /\ NoRound.stage = "None" /\ NoRound.mine = FALSE
  BY DEF NoRound
<1>3. CASE sv.phase = "Selecting"
  BY <1>1, <1>2, <1>3 DEF ServerRound, WholeRound
<1>4. CASE sv.phase # "Selecting"
  <2>1. sv.round # 0
    BY <1>4 DEF ServerWhole
  <2>2. QED
    BY <1>1, <1>2, <1>4, <2>1 DEF ServerRound, WholeRound
<1>5. QED
  BY <1>3, <1>4

\* What the server says of its round fits the session.
LEMMA SpokenFits ==
    ASSUME NEW w \in Session, Local(w), NEW sv \in Server, ServerWhole(sv),
           Room(w, sv), NEW m \in Messages, Spoken(sv, m),
           Settles(m) /\ m.round.id = w.round.id /\ m.round.id # 0 =>
             /\ Quiet(w)
             /\ m.terminal = "Result" => w.round.stage = "Playing",
           m.type = "Finalized" /\ m.round.id = w.round.id /\ w.round.mine =>
             Fit(w)
    PROVE  MessageFits(m) /\ ClientMessage(w, m)
<1>1. /\ sv.round \in Nat
      /\ sv.phase \in Stage \cup {"Selecting"}
      /\ sv.phase = "Selecting" => m.round = NoRound
      /\ sv.phase # "Selecting" =>
           /\ sv.round # 0
           /\ m.round.id = sv.round
           /\ m.round.stage = sv.phase
           /\ m.round.mine = sv.mine
      /\ WholeRound(m.round)
      /\ NoRound.id = 0 /\ NoRound.stage = "None" /\ NoRound.mine = FALSE
  BY ServerRoundIs DEF Spoken
<1>2. MessageFits(m)
  <2>1. m.terminal # "None" => m.round.stage # "Probing"
    BY <1>1 DEF Spoken, ServerWhole
  <2>2. m.terminal = "Result" => m.round.stage \in {"Playing", "None"}
    BY <1>1 DEF Spoken, ServerWhole
  <2>3. /\ m.type = "LoadRequested" => m.round.stage = "Loading"
        /\ m.type = "StartScheduled" => m.round.stage = "Scheduled"
        /\ m.type \in {"Started", "Finalized"} => m.round.stage = "Playing"
        /\ m.type = "LaunchCancelled" =>
              m.round.stage \in {"Probing", "Loading", "Scheduled"}
        /\ m.type # "LoadingStarted"
    BY <1>1 DEF Spoken
  <2>4. QED
    BY <1>1, <2>1, <2>2, <2>3 DEF MessageFits
<1>3. m.round.id = w.round.id => Rank(w.round.stage) <= Rank(m.round.stage)
  <2>1. CASE sv.phase = "Selecting"
    <3>1. m.round.id = w.round.id => w.round.stage = "None"
      BY <1>1, <2>1 DEF Local, RoundWhole, WholeRound
    <3>2. Rank("None") <= Rank("None")
      BY DEF Rank
    <3>3. QED
      BY <1>1, <2>1, <3>1, <3>2
  <2>2. CASE sv.phase # "Selecting"
    BY <1>1, <2>2 DEF Room
  <2>3. QED
    BY <2>1, <2>2
<1>4. w.retained # 0 => Watched(m.round)
  BY <1>1 DEF Room, Watched
<1>5. m.type \notin {"LoadingStarted", "RoomSnapshot"}
  BY DEF Spoken
<1>6. ClientMessage(w, m)
  BY <1>3, <1>4, <1>5 DEF ClientMessage
<1>7. QED
  BY <1>2, <1>6

LEMMA SpokenServer ==
    ASSUME NEW sv \in Server, ServerWhole(sv), NEW m \in Messages,
           Spoken(sv, m),
           m.type \notin {"Finalized", "LaunchCancelled", "Removed"}
    PROVE  ServerMessage(sv, m)
<1>1. /\ sv.round \in Nat
      /\ sv.phase # "Selecting" =>
           /\ m.round.stage = sv.phase
           /\ m.round.mine = sv.mine
      /\ sv.phase \in Stage \cup {"Selecting"}
      /\ m.round.id <= sv.round
  BY ServerRoundIs DEF Spoken
<1>2. m.round.id = sv.round /\ sv.phase # "Selecting" =>
           Rank(m.round.stage) <= Rank(sv.phase)
  <2>1. sv.phase # "Selecting" => Rank(sv.phase) \in 0..4
    BY <1>1, RankNat
  <2>2. QED
    BY <1>1, <2>1
<1>3. QED
  BY <1>1, <1>2 DEF ServerMessage

LEMMA SpokenRoom ==
    ASSUME NEW sv, NEW m, Spoken(sv, m), NEW w, NEW s2
    PROVE  RoomMessage(w, s2, m)
BY DEF Spoken, RoomMessage, Opens

\* It comes after all that the server has sent before.
LEMMA SpokenLast ==
    ASSUME NEW w \in Session, NEW sv \in Server, ServerWhole(sv),
           NEW q \in Seq(Messages), Queue(w, sv, q), NEW m \in Messages,
           Spoken(sv, m),
           Settles(m) => w.round.id = m.round.id,
           m.type = "Finalized" =>
             sv.member /\ (sv.mine => w.round.id = m.round.id)
    PROVE  \A i \in 1..Len(q) : Ordered(w, q[i], m)
<1> TAKE i \in 1..Len(q)
<1>1. PICK a : a = q[i]
  OBVIOUS
<1>2. a \in Messages
  BY <1>1
<1>3. Fits(w, sv, a)
  BY <1>1 DEF Queue
<1>4. MessageFits(a) /\ ServerMessage(sv, a)
  BY <1>3 DEF Fits
<1>5. /\ sv.round \in Nat
      /\ sv.phase = "Selecting" => m.round = NoRound
      /\ sv.phase # "Selecting" =>
           /\ sv.round # 0
           /\ m.round.id = sv.round
           /\ m.round.stage = sv.phase
           /\ m.round.mine = sv.mine
      /\ NoRound.id = 0 /\ NoRound.stage = "None" /\ NoRound.mine = FALSE
  BY ServerRoundIs DEF Spoken
<1>6. a.round.id = m.round.id => Rank(a.round.stage) <= Rank(m.round.stage)
  <2>1. CASE sv.phase = "Selecting"
    <3>1. a.round.id = m.round.id => a.round = NoRound
      BY <1>4, <1>5, <2>1 DEF MessageFits, WholeRound
    <3>2. Rank("None") <= Rank("None")
      BY DEF Rank
    <3>3. QED
      BY <1>5, <2>1, <3>1, <3>2
  <2>2. CASE sv.phase # "Selecting"
    BY <1>4, <1>5, <2>2 DEF ServerMessage
  <2>3. QED
    BY <2>1, <2>2
<1>7. a.type = "Finalized" => Watched(m.round) /\ m.round.id # a.round.id
  <2>1. ASSUME a.type = "Finalized"
        PROVE  Watched(m.round) /\ m.round.id # a.round.id
    <3>1. a.round.id # 0
      BY <1>4, <2>1 DEF MessageFits, WholeRound, NoRound
    <3>2. CASE sv.phase = "Selecting"
      BY <1>5, <3>1, <3>2 DEF Watched
    <3>3. CASE sv.phase # "Selecting"
      <4>1. ~sv.mine /\ a.round.id < sv.round
        BY <1>4, <2>1, <3>3 DEF ServerMessage
      <4>2. a.round.id \in Nat
        BY <1>2 DEF Messages, RoundType
      <4>3. QED
        BY <1>5, <3>3, <4>1, <4>2 DEF Watched
    <3>4. QED
      BY <3>2, <3>3
  <2>2. QED
    BY <2>1
<1>8. Pair(a, m)
  BY <1>6, <1>7 DEF Pair, Spoken
<1>9. OpenPair(w, a, m)
  <2>1. SUFFICES ASSUME a.round.id # w.round.id, a.round.id = m.round.id,
                        a.round.id # 0, a.round.mine, m.type = "Finalized"
                 PROVE  FALSE
    BY DEF OpenPair
  <2>2. sv.phase # "Selecting"
    BY <1>5, <2>1
  <2>3. a.round.mine = sv.mine
    BY <1>4, <1>5, <2>1, <2>2 DEF ServerMessage
  <2>4. QED
    BY <2>1, <2>3
<1>10. QED
  BY <1>1, <1>8, <1>9 DEF Ordered

\* The messages on their way when the server goes on in its round.
LEMMA QueueServer ==
    ASSUME NEW w \in Session, NEW sv \in Server, NEW s2 \in Server,
           NEW q \in Seq(Messages), Queue(w, sv, q),
           s2.round = sv.round,
           s2.member => sv.member /\ s2.mine = sv.mine,
           s2.mine => sv.mine,
           \A t \in s2.heard : t \in sv.heard \/ t.round = w.round.id,
           \/ s2.phase = "Selecting"
           \/ /\ sv.phase # "Selecting"
              /\ Rank(sv.phase) <= Rank(s2.phase)
    PROVE  Queue(w, s2, q)
<1>1. ASSUME NEW i \in 1..Len(q)
      PROVE  Fits(w, s2, q[i])
  <2>1. PICK a : a = q[i]
    OBVIOUS
  <2>2. a \in Messages
    BY <2>1
  <2>3. Fits(w, sv, a)
    BY <2>1 DEF Queue
  <2>4. MessageFits(a) /\ ClientMessage(w, a) /\ ServerMessage(sv, a) /\ RoomMessage(w, sv, a)
    BY <2>3 DEF Fits
  <2>5. a.round.id = s2.round /\ s2.phase # "Selecting" =>
         Rank(a.round.stage) <= Rank(s2.phase)
    <3>1. SUFFICES ASSUME a.round.id = s2.round, s2.phase # "Selecting"
                   PROVE  Rank(a.round.stage) <= Rank(s2.phase)
      OBVIOUS
    <3>2. Rank(a.round.stage) <= Rank(sv.phase) /\ Rank(sv.phase) <= Rank(s2.phase)
      BY <2>4, <3>1 DEF ServerMessage
    <3>3. a.round.stage \in Stage /\ sv.phase \in Stage /\ s2.phase \in Stage
      BY <2>2, <3>1 DEF Messages, RoundType, Server, Stage
    <3>4. /\ Rank(a.round.stage) \in 0..4 /\ Rank(sv.phase) \in 0..4
          /\ Rank(s2.phase) \in 0..4
      BY <3>3, RankNat
    <3>5. QED
      BY <3>2, <3>4
  <2>6. ServerMessage(s2, a)
    BY <2>4, <2>5 DEF ServerMessage
  <2>7. RoomMessage(w, s2, a)
    BY <2>4 DEF RoomMessage
  <2>8. Fits(w, s2, a)
    BY <2>4, <2>6, <2>7 DEF Fits
  <2>9. QED
    BY <2>1, <2>8
<1>2. QED
  BY <1>1 DEF Queue

\* The links with one message more.
LEMMA LinkedAppend ==
    ASSUME NEW w \in Session, NEW sv \in Server, NEW s2 \in Server,
           NEW q \in Seq(Messages), NEW lk, Linked(w, sv, q, lk),
           lk # "Down", s2.member = sv.member, NEW m \in Messages,
           sv.member => /\ Before(m) = ServerRound(sv).id
                        /\ After(m) = ServerRound(s2).id
    PROVE  Linked(w, s2, q \o <<m>>, lk)
<1> DEFINE r == q \o <<m>>
<1>1. /\ Len(q) \in Nat
      /\ Len(r) = Len(q) + 1
      /\ r # <<>>
      /\ \A i \in 1..Len(q) : r[i] = q[i] /\ i < Len(r)
  BY AppendIs
<1>2. sv.member => Chain(w, r, ServerRound(s2).id)
  BY ChainAppend DEF Linked
<1> HIDE DEF r
<1>3. w.state # "InRoom" => r # <<>> /\ r[1].type = "RoomSnapshot"
  <2>1. SUFFICES ASSUME w.state # "InRoom"
                 PROVE  r # <<>> /\ r[1].type = "RoomSnapshot"
    OBVIOUS
  <2>2. q # <<>> /\ q[1].type = "RoomSnapshot"
    BY <2>1 DEF Linked
  <2>3. 1 \in 1..Len(q)
    BY <2>2
  <2>4. QED
    BY <1>1, <2>2, <2>3
<1>4. ~sv.member => \E i \in 1..Len(r) : r[i].type = "Removed"
  <2>1. SUFFICES ASSUME ~sv.member
                 PROVE  \E i \in 1..Len(r) : r[i].type = "Removed"
    OBVIOUS
  <2>2. PICK i \in 1..Len(q) : q[i].type = "Removed"
    BY <2>1 DEF Linked
  <2>3. i \in 1..Len(r) /\ r[i] = q[i]
    BY <1>1
  <2>4. QED
    BY <2>2, <2>3
<1>5. Linked(w, s2, r, lk)
  BY <1>2, <1>3, <1>4 DEF Linked
<1>6. QED
  BY <1>5 DEF r

LEMMA LinkedSame ==
    ASSUME NEW w, NEW sv, NEW s2, NEW q, NEW lk, Linked(w, sv, q, lk),
           s2.member = sv.member,
           \/ lk = "Down" \/ ~sv.member
           \/ ServerRound(s2).id = ServerRound(sv).id
    PROVE  Linked(w, s2, q, lk)
BY DEF Linked

\* What has been told stays told.
LEMMA ToldAppend ==
    ASSUME NEW w, NEW sv \in Server, NEW s2 \in Server,
           NEW q \in Seq(Messages), NEW lk, NEW m \in Messages,
           s2.round = sv.round,
           \/ TellsStart(m, s2.round)
           \/ /\ Told(w, sv, q, lk)
              /\ s2.mine /\ s2.phase \in {"Scheduled", "Playing"} =>
                   sv.mine /\ sv.phase \in {"Scheduled", "Playing"}
    PROVE  Told(w, s2, q \o <<m>>, lk)
<1> DEFINE r == q \o <<m>>
<1>1. /\ Len(q) \in Nat
      /\ Len(r) = Len(q) + 1
      /\ \A i \in 1..Len(q) : r[i] = q[i] /\ i < Len(r)
      /\ r[Len(r)] = m
  BY AppendIs
<1> HIDE DEF r
<1>2. CASE TellsStart(m, s2.round)
  <2>1. Len(r) \in 1..Len(r)
    BY <1>1
  <2>2. Told(w, s2, r, lk)
    BY <1>1, <1>2, <2>1 DEF Told
  <2>3. QED
    BY <2>2 DEF r
<1>3. CASE /\ Told(w, sv, q, lk)
           /\ s2.mine /\ s2.phase \in {"Scheduled", "Playing"} =>
                sv.mine /\ sv.phase \in {"Scheduled", "Playing"}
  <2>1. SUFFICES ASSUME lk # "Down", s2.mine,
                        s2.phase \in {"Scheduled", "Playing"},
                        ~SetToStart(w)
                 PROVE  \E i \in 1..Len(r) : TellsStart(r[i], s2.round)
    BY DEF Told, r
  <2>2. PICK i \in 1..Len(q) : TellsStart(q[i], sv.round)
    BY <1>3, <2>1 DEF Told
  <2>3. i \in 1..Len(r) /\ r[i] = q[i]
    BY <1>1
  <2>4. QED
    BY <2>2, <2>3
<1>4. QED
  BY <1>2, <1>3

LEMMA ToldPlayAppend ==
    ASSUME NEW w, NEW sv \in Server, NEW s2 \in Server,
           NEW q \in Seq(Messages), NEW lk, NEW m \in Messages,
           s2.round = sv.round,
           \/ TellsPlay(m, s2.round)
           \/ /\ ToldPlay(w, sv, q, lk)
              /\ s2.mine = sv.mine
              /\ s2.member /\ s2.phase = "Playing" =>
                   sv.member /\ sv.phase = "Playing"
           \/ s2.phase # "Playing" \/ ~s2.member
    PROVE  ToldPlay(w, s2, q \o <<m>>, lk)
<1> DEFINE r == q \o <<m>>
<1>1. /\ Len(q) \in Nat
      /\ Len(r) = Len(q) + 1
      /\ \A i \in 1..Len(q) : r[i] = q[i] /\ i < Len(r)
      /\ r[Len(r)] = m
  BY AppendIs
<1> HIDE DEF r
<1>2. CASE TellsPlay(m, s2.round)
  <2>1. Len(r) \in 1..Len(r)
    BY <1>1
  <2>2. ToldPlay(w, s2, r, lk)
    BY <1>1, <1>2, <2>1 DEF ToldPlay
  <2>3. QED
    BY <2>2 DEF r
<1>3. CASE /\ ToldPlay(w, sv, q, lk)
           /\ s2.mine = sv.mine
           /\ s2.member /\ s2.phase = "Playing" =>
                sv.member /\ sv.phase = "Playing"
  <2>1. SUFFICES ASSUME lk # "Down", s2.member, s2.phase = "Playing",
                        ~TakesPart(w, s2)
                 PROVE  \E i \in 1..Len(r) : TellsPlay(r[i], s2.round)
    BY DEF ToldPlay, r
  <2>2. ~TakesPart(w, sv)
    BY <1>3, <2>1 DEF TakesPart
  <2>3. PICK i \in 1..Len(q) : TellsPlay(q[i], sv.round)
    BY <1>3, <2>1, <2>2 DEF ToldPlay
  <2>4. i \in 1..Len(r) /\ r[i] = q[i]
    BY <1>1
  <2>5. QED
    BY <2>3, <2>4
<1>4. CASE s2.phase # "Playing" \/ ~s2.member
  BY <1>4 DEF ToldPlay
<1>5. QED
  BY <1>2, <1>3, <1>4

\* The server moves on and says one thing more.
LEMMA SayInv ==
    ASSUME NEW w \in Session, NEW sv \in Server, NEW s2 \in Server,
           NEW q \in Seq(Messages), NEW lk, InvOf(w, sv, q, lk), lk # "Down",
           ServerWhole(s2), Room(w, s2), Queue(w, s2, q),
           s2.round = sv.round, s2.member = sv.member, s2.mine = sv.mine,
           NEW m \in Messages, Fits(w, s2, m),
           \A i \in 1..Len(q) : Ordered(w, q[i], m),
           sv.member => /\ Before(m) = ServerRound(sv).id
                        /\ After(m) = ServerRound(s2).id,
           \/ TellsStart(m, s2.round)
           \/ s2.mine /\ s2.phase \in {"Scheduled", "Playing"} =>
                   sv.phase \in {"Scheduled", "Playing"},
           \/ TellsPlay(m, s2.round)
           \/ s2.member /\ s2.phase = "Playing" => sv.phase = "Playing"
    PROVE  InvOf(w, s2, q \o <<m>>, lk)
<1>1. /\ Local(w) /\ Linked(w, sv, q, lk) /\ Told(w, sv, q, lk)
      /\ ToldPlay(w, sv, q, lk)
  BY DEF InvOf
<1>2. Queue(w, s2, q \o <<m>>)
  BY QueueAppend
<1>3. Linked(w, s2, q \o <<m>>, lk)
  BY <1>1, LinkedAppend
<1>4. Told(w, s2, q \o <<m>>, lk)
  BY <1>1, ToldAppend
<1>5. ToldPlay(w, s2, q \o <<m>>, lk)
  BY <1>1, ToldPlayAppend
<1>6. QED
  BY <1>1, <1>2, <1>3, <1>4, <1>5 DEF InvOf

\* Or nothing at all.
LEMMA SilenceInv ==
    ASSUME NEW w \in Session, NEW sv \in Server, NEW s2 \in Server,
           NEW q \in Seq(Messages), NEW lk, InvOf(w, sv, q, lk),
           ServerWhole(s2), Room(w, s2), Queue(w, s2, q),
           s2.round = sv.round, s2.member = sv.member, s2.mine = sv.mine,
           \/ lk = "Down" \/ ~sv.member
           \/ /\ ServerRound(s2).id = ServerRound(sv).id
              /\ s2.mine /\ s2.phase \in {"Scheduled", "Playing"} =>
                   sv.phase \in {"Scheduled", "Playing"}
              /\ s2.phase = "Playing" => sv.phase = "Playing"
    PROVE  InvOf(w, s2, q, lk)
<1>1. /\ Local(w) /\ Linked(w, sv, q, lk) /\ Told(w, sv, q, lk)
      /\ ToldPlay(w, sv, q, lk)
  BY DEF InvOf
<1>2. Linked(w, s2, q, lk)
  BY <1>1, LinkedSame
<1>3. s2.mine => s2.member
  BY DEF ServerWhole
<1>4. CASE lk = "Down" \/ ~sv.member
  <2>1. Told(w, s2, q, lk) /\ ToldPlay(w, s2, q, lk)
    BY <1>3, <1>4 DEF Told, ToldPlay
  <2>2. QED
    BY <1>1, <1>2, <2>1 DEF InvOf
<1>5. CASE /\ ServerRound(s2).id = ServerRound(sv).id
           /\ s2.mine /\ s2.phase \in {"Scheduled", "Playing"} =>
                sv.phase \in {"Scheduled", "Playing"}
           /\ s2.phase = "Playing" => sv.phase = "Playing"
  <2>1. Told(w, s2, q, lk)
    BY <1>1, <1>5 DEF Told
  <2>2. TakesPart(w, sv) => TakesPart(w, s2)
    BY DEF TakesPart
  <2>3. ToldPlay(w, s2, q, lk)
    BY <1>1, <1>5, <2>2 DEF ToldPlay
  <2>4. QED
    BY <1>1, <1>2, <2>1, <2>3 DEF InvOf
<1>6. QED
  BY <1>4, <1>5

LEMMA MessageIs ==
    ASSUME NEW sv \in Server, NEW type \in MessageType
    PROVE  LET m == Message(sv, type)
           IN  /\ m \in Messages
               /\ m.type = type
               /\ m.round = ServerRound(sv)
               /\ m.terminal = sv.terminal
BY MessageTyped DEF Message

\* The launch is cancelled.
LEMMA CancelInv ==
    ASSUME NEW w \in Session, NEW sv \in Server, NEW q \in Seq(Messages),
           NEW lk, InvOf(w, sv, q, lk),
           sv.phase \in {"Probing", "Loading", "Scheduled"}
    PROVE  LET s2 == Cancelled(sv)
               m  == Message(sv, "LaunchCancelled")
           IN  /\ lk # "Down" => InvOf(w, s2, q \o <<m>>, lk)
               /\ lk = "Down" \/ ~sv.member => InvOf(w, s2, q, lk)
<1>1. /\ Local(w) /\ ServerWhole(sv) /\ Room(w, sv) /\ Queue(w, sv, q)
  BY DEF InvOf
<1>2. PICK s2 : s2 = Cancelled(sv)
  OBVIOUS
<1>3. s2 \in Server
  BY <1>2, CancelledType
<1>4. /\ s2.phase = "Selecting" /\ s2.terminal = "None"
      /\ s2.round = sv.round /\ s2.member = sv.member /\ s2.mine = sv.mine
      /\ s2.heard = sv.heard
  BY <1>2 DEF Cancelled, Server
<1>5. "LaunchCancelled" \in MessageType
  BY DEF MessageType
<1>6. PICK m : m = Message(sv, "LaunchCancelled")
  OBVIOUS
<1>7. /\ m \in Messages /\ m.type = "LaunchCancelled"
      /\ m.round = ServerRound(sv) /\ m.terminal = sv.terminal
  BY <1>5, <1>6, MessageIs
<1>8. Spoken(sv, m) /\ ~Settles(m)
  BY <1>7 DEF Spoken, Settles
<1>9. ServerWhole(s2)
  BY <1>1, <1>4 DEF ServerWhole
<1>10. Room(w, s2)
  BY <1>1, <1>4 DEF Room, Engaged
<1>11. Queue(w, s2, q)
  BY <1>1, <1>3, <1>4, QueueServer
<1>12. Fits(w, s2, m)
  <2>1. MessageFits(m) /\ ClientMessage(w, m)
    BY <1>1, <1>7, <1>8, SpokenFits
  <2>2. RoomMessage(w, s2, m)
    BY <1>8, SpokenRoom
  <2>3. m.round.id <= s2.round
    BY <1>1, <1>4, <1>7, ServerRoundIs
  <2>4. ServerMessage(s2, m)
    BY <1>4, <1>7, <2>3 DEF ServerMessage
  <2>5. QED
    BY <2>1, <2>2, <2>4 DEF Fits
<1>13. \A i \in 1..Len(q) : Ordered(w, q[i], m)
  BY <1>1, <1>7, <1>8, SpokenLast
<1>14. Before(m) = ServerRound(sv).id /\ After(m) = ServerRound(s2).id
  BY <1>4, <1>7 DEF Before, After, ServerRound, NoRound
<1>15. lk # "Down" => InvOf(w, s2, q \o <<m>>, lk)
  <2>1. ~(s2.phase \in {"Scheduled", "Playing"}) /\ s2.phase # "Playing"
    BY <1>4
  <2>2. QED
    BY <1>3, <1>4, <1>7, <1>9, <1>10, <1>11, <1>12, <1>13, <1>14, <2>1, SayInv
<1>16. lk = "Down" \/ ~sv.member => InvOf(w, s2, q, lk)
  BY <1>3, <1>4, <1>9, <1>10, <1>11, SilenceInv
<1>17. QED
  BY <1>2, <1>6, <1>15, <1>16

\* Nothing is kept back from a player who takes part.
LEMMA EngagedSeat ==
    ASSUME NEW w \in Session, NEW sv \in Server, ServerWhole(sv), Room(w, sv),
           sv.mine,
           \/ sv.phase \in {"Loading", "Scheduled", "Playing"}
           \/ sv.phase = "Probing" /\ sv.probed
    PROVE  w.round.id = sv.round /\ w.round.mine /\ w.retained = 0
<1>1. Engaged(sv)
  BY DEF Engaged
<1>2. w.round.id = sv.round /\ sv.phase # "Selecting" /\ sv.member
  BY <1>1 DEF Room, ServerWhole
<1>3. QED
  BY <1>2 DEF Room

\* The server goes on in its round.
GoesOn(sv, s2) ==
    /\ s2.round = sv.round
    /\ s2.member = sv.member
    /\ s2.mine = sv.mine
    /\ s2.probed = sv.probed
    /\ s2.loaded = sv.loaded
    /\ s2.heard = sv.heard

LEMMA RanksUp ==
    /\ Rank("Probing") <= Rank("Loading")
    /\ Rank("Loading") <= Rank("Scheduled")
    /\ Rank("Scheduled") <= Rank("Playing")
    /\ Rank("Playing") <= Rank("Playing")
BY DEF Rank

LEMMA GoesOnRank ==
    ASSUME NEW w \in Session, NEW sv \in Server, NEW s2 \in Server,
           Room(w, sv), s2.round = sv.round, s2.member => sv.member,
           s2.member => s2.mine = sv.mine, sv.phase # "Selecting",
           Rank(sv.phase) <= Rank(s2.phase)
    PROVE  /\ w.round.id <= s2.round
           /\ w.round.id = s2.round /\ s2.phase # "Selecting" =>
                /\ Rank(w.round.stage) <= Rank(s2.phase)
                /\ s2.member => w.round.mine = s2.mine
<1>1. SUFFICES ASSUME w.round.id = s2.round, s2.phase # "Selecting"
               PROVE  Rank(w.round.stage) <= Rank(s2.phase)
  BY DEF Room
<1>2. Rank(w.round.stage) <= Rank(sv.phase)
  BY <1>1 DEF Room
<1>3. w.round.stage \in Stage /\ sv.phase \in Stage /\ s2.phase \in Stage
  BY <1>1 DEF Session, Server, Stage
<1>4. /\ Rank(w.round.stage) \in 0..4 /\ Rank(sv.phase) \in 0..4
      /\ Rank(s2.phase) \in 0..4
  BY <1>3, RankNat
<1>5. QED
  BY <1>2, <1>4

\* Every participant has answered the probe: the charts are loaded.
LEMMA LoadsRoom ==
    ASSUME NEW w \in Session, NEW sv \in Server, NEW s2 \in Server,
           ServerWhole(sv), Room(w, sv), GoesOn(sv, s2),
           sv.phase = "Probing", s2.phase = "Loading",
           s2.terminal = sv.terminal,
           sv.mine => sv.probed \/ sv.terminal # "None"
    PROVE  Room(w, s2) /\ ServerWhole(s2)
<1>1. ServerWhole(s2)
  BY DEF ServerWhole, GoesOn
<1>2. /\ w.round.id <= s2.round
      /\ w.round.id = s2.round /\ s2.phase # "Selecting" =>
           /\ Rank(w.round.stage) <= Rank(s2.phase)
           /\ s2.member => w.round.mine = s2.mine
  BY GoesOnRank, RanksUp DEF GoesOn
<1>3. Engaged(s2) => w.round.id = s2.round
  <2>1. sv.mine => sv.probed
    BY DEF ServerWhole
  <2>2. QED
    BY <2>1, EngagedSeat DEF Engaged, GoesOn
<1>4. ~sv.loaded /\ sv.terminal = "None"
  BY DEF ServerWhole
<1>5. QED
  BY <1>1, <1>2, <1>3, <1>4 DEF Room, GoesOn

\* Every participant has loaded its chart or given up: the start is set.
LEMMA SchedulesRoom ==
    ASSUME NEW w \in Session, Local(w), NEW sv \in Server, NEW s2 \in Server,
           ServerWhole(sv), Room(w, sv), GoesOn(sv, s2),
           sv.phase = "Loading", s2.phase = "Scheduled",
           s2.terminal = sv.terminal,
           sv.mine => sv.loaded \/ sv.terminal # "None"
    PROVE  Room(w, s2) /\ ServerWhole(s2)
<1>1. ServerWhole(s2)
  BY DEF ServerWhole, GoesOn
<1>2. /\ w.round.id <= s2.round
      /\ w.round.id = s2.round /\ s2.phase # "Selecting" =>
           /\ Rank(w.round.stage) <= Rank(s2.phase)
           /\ s2.member => w.round.mine = s2.mine
  BY GoesOnRank, RanksUp DEF GoesOn
<1>3. Engaged(s2) => w.round.id = s2.round
  BY EngagedSeat DEF Engaged, GoesOn
<1>4. sv.mine => Fit(w)
  <2>1. CASE sv.mine /\ sv.loaded
    BY <2>1 DEF Room
  <2>2. CASE sv.mine /\ sv.terminal # "None"
    <3>1. w.submitted
      BY <2>2 DEF Room
    <3>2. QED
      BY <3>1 DEF Local, RoundWhole, Fit
  <2>3. QED
    BY <2>1, <2>2
<1>5. sv.terminal # "Result"
  BY DEF ServerWhole
<1>6. QED
  BY <1>1, <1>2, <1>3, <1>4, <1>5 DEF Room, GoesOn

LEMMA StartsRoom ==
    ASSUME NEW w \in Session, NEW sv \in Server, NEW s2 \in Server,
           ServerWhole(sv), Room(w, sv), GoesOn(sv, s2),
           sv.phase = "Scheduled", s2.phase = "Playing",
           s2.terminal = sv.terminal
    PROVE  Room(w, s2) /\ ServerWhole(s2)
<1>1. ServerWhole(s2)
  BY DEF ServerWhole, GoesOn
<1>2. /\ w.round.id <= s2.round
      /\ w.round.id = s2.round /\ s2.phase # "Selecting" =>
           /\ Rank(w.round.stage) <= Rank(s2.phase)
           /\ s2.member => w.round.mine = s2.mine
  BY GoesOnRank, RanksUp DEF GoesOn
<1>3. Engaged(s2) => w.round.id = s2.round
  BY EngagedSeat DEF Engaged, GoesOn
<1>4. sv.terminal # "Result"
  BY DEF ServerWhole
<1>5. QED
  BY <1>1, <1>2, <1>3, <1>4 DEF Room, GoesOn

\* The play deadline passes.
LEMMA SettlesRoom ==
    ASSUME NEW w \in Session, NEW sv \in Server, NEW s2 \in Server,
           ServerWhole(sv), Room(w, sv), GoesOn(sv, s2),
           sv.phase = "Playing", s2.phase = "Playing", s2.terminal = "Dnf"
    PROVE  Room(w, s2) /\ ServerWhole(s2)
<1>1. ServerWhole(s2)
  BY DEF ServerWhole, GoesOn
<1>2. /\ w.round.id <= s2.round
      /\ w.round.id = s2.round /\ s2.phase # "Selecting" =>
           /\ Rank(w.round.stage) <= Rank(s2.phase)
           /\ s2.member => w.round.mine = s2.mine
  BY GoesOnRank, RanksUp DEF GoesOn
<1>3. Engaged(s2) => w.round.id = s2.round
  BY EngagedSeat DEF Engaged, GoesOn
<1>4. QED
  BY <1>1, <1>2, <1>3 DEF Room, GoesOn

\* Everybody has finished.
LEMMA FinalizesRoom ==
    ASSUME NEW w \in Session, NEW sv \in Server, NEW s2 \in Server,
           ServerWhole(sv), Room(w, sv), GoesOn(sv, s2),
           s2.phase = "Selecting", s2.terminal = sv.terminal
    PROVE  Room(w, s2) /\ ServerWhole(s2)
<1>1. ServerWhole(s2)
  BY DEF ServerWhole, GoesOn
<1>2. ~Engaged(s2)
  BY DEF Engaged
<1>3. QED
  BY <1>1, <1>2 DEF Room, GoesOn

-----------------------------------------------------------------------------
(* The actions of the server.                                              *)

\* The inductive invariant of ArenaRound.
RInv ==
    /\ TypeInv
    /\ InvOf(client, server, inbox, link)
    /\ Tidy(client)

\* The same of the next state, beside the types.
RInvNext == InvOf(client', server', inbox', link')

LEMMA RInvParts ==
    ASSUME RInv
    PROVE  /\ client \in Session /\ client.out = Silent
           /\ server \in Server
           /\ inbox \in Seq(Messages)
           /\ InvOf(client, server, inbox, link)
           /\ Local(client) /\ ServerWhole(server) /\ Room(client, server)
           /\ Queue(client, server, inbox)
           /\ link = "Down" => inbox = <<>>
<1>1. client \in Client /\ server \in Server /\ inbox \in Seq(Messages)
  BY DEF RInv, TypeInv, TypeOK
<1>2. client \in Session /\ client.out = Silent
  BY <1>1, ClientIsSession DEF Client
<1>3. InvOf(client, server, inbox, link)
  BY DEF RInv
<1>4. QED
  BY <1>1, <1>2, <1>3 DEF InvOf, Linked

LEMMA SaysOne ==
    ASSUME NEW s2, NEW m, Says(s2, <<m>>)
    PROVE  /\ client' = client /\ server' = s2 /\ link' = link
           /\ s2.member /\ link # "Down" => inbox' = inbox \o <<m>>
           /\ ~(s2.member /\ link # "Down") => inbox' = inbox
BY DEF Says

LEMMA SaysNone ==
    ASSUME inbox \in Seq(Messages), NEW s2, Says(s2, <<>>)
    PROVE  client' = client /\ server' = s2 /\ link' = link /\ inbox' = inbox
BY DEF Says

LEMMA SaysTwo ==
    ASSUME inbox \in Seq(Messages), NEW s2, NEW a \in Messages,
           NEW b \in Messages, Says(s2, <<a>> \o <<b>>)
    PROVE  /\ client' = client /\ server' = s2 /\ link' = link
           /\ s2.member /\ link # "Down" => inbox' = (inbox \o <<a>>) \o <<b>>
           /\ ~(s2.member /\ link # "Down") => inbox' = inbox
<1>1. inbox \o (<<a>> \o <<b>>) = (inbox \o <<a>>) \o <<b>>
  OBVIOUS
<1>2. QED
  BY <1>1 DEF Says

\* A server that says m, when what it says of its round fits.
LEMMA SpokenStep ==
    ASSUME RInv, NEW s2 \in Server, NEW m \in Messages, Says(s2, <<m>>),
           ServerWhole(s2), Room(client, s2), Queue(client, s2, inbox),
           s2.round = server.round, s2.member = server.member,
           s2.mine = server.mine,
           s2.member /\ link # "Down" =>
             /\ Fits(client, s2, m)
             /\ \A i \in 1..Len(inbox) : Ordered(client, inbox[i], m),
           /\ Before(m) = ServerRound(server).id
           /\ After(m) = ServerRound(s2).id,
           \/ TellsStart(m, s2.round)
           \/ s2.mine /\ s2.phase \in {"Scheduled", "Playing"} =>
                   server.phase \in {"Scheduled", "Playing"},
           \/ TellsPlay(m, s2.round)
           \/ s2.member /\ s2.phase = "Playing" => server.phase = "Playing"
    PROVE  RInvNext
<1>1. /\ client' = client /\ server' = s2 /\ link' = link
      /\ s2.member /\ link # "Down" => inbox' = inbox \o <<m>>
      /\ ~(s2.member /\ link # "Down") => inbox' = inbox
  BY SaysOne
<1>2. /\ client \in Session /\ server \in Server /\ inbox \in Seq(Messages)
      /\ InvOf(client, server, inbox, link)
  BY RInvParts
<1>3. CASE s2.member /\ link # "Down"
  <2>1. /\ Fits(client, s2, m)
        /\ \A i \in 1..Len(inbox) : Ordered(client, inbox[i], m)
    BY <1>3
  <2>2. InvOf(client, s2, inbox \o <<m>>, link)
    BY <1>2, <1>3, <2>1, SayInv
  <2>3. QED
    BY <1>1, <1>3, <2>2 DEF RInvNext
<1>4. CASE ~(s2.member /\ link # "Down")
  <2>1. InvOf(client, s2, inbox, link)
    BY <1>2, <1>4, SilenceInv
  <2>2. QED
    BY <1>1, <1>4, <2>1 DEF RInvNext
<1>5. QED
  BY <1>3, <1>4

LEMMA SilentStep ==
    ASSUME RInv, NEW s2 \in Server, Says(s2, <<>>),
           ServerWhole(s2), Room(client, s2), Queue(client, s2, inbox),
           s2.round = server.round, s2.member = server.member,
           s2.mine = server.mine,
           ServerRound(s2).id = ServerRound(server).id,
           s2.mine /\ s2.phase \in {"Scheduled", "Playing"} =>
                   server.phase \in {"Scheduled", "Playing"},
           s2.phase = "Playing" => server.phase = "Playing"
    PROVE  RInvNext
<1>1. /\ client \in Session /\ server \in Server /\ inbox \in Seq(Messages)
      /\ InvOf(client, server, inbox, link)
  BY RInvParts
<1>2. client' = client /\ server' = s2 /\ link' = link /\ inbox' = inbox
  BY <1>1, SaysNone
<1>3. InvOf(client, s2, inbox, link)
  BY <1>1, SilenceInv
<1>4. QED
  BY <1>2, <1>3 DEF RInvNext

\* What a server says in its new state.
LEMMA SpokenNow ==
    ASSUME NEW w \in Session, Local(w), NEW sv \in Server, ServerWhole(sv),
           Room(w, sv), NEW q \in Seq(Messages), Queue(w, sv, q),
           NEW m \in Messages, Spoken(sv, m),
           m.type \notin {"Finalized", "LaunchCancelled", "Removed"},
           Settles(m) => /\ w.round.id = m.round.id
                         /\ Quiet(w)
                         /\ m.terminal = "Result" => w.round.stage = "Playing"
    PROVE  /\ Fits(w, sv, m)
           /\ \A i \in 1..Len(q) : Ordered(w, q[i], m)
<1>1. MessageFits(m) /\ ClientMessage(w, m)
  BY SpokenFits
<1>2. ServerMessage(sv, m)
  BY SpokenServer
<1>3. RoomMessage(w, sv, m)
  BY SpokenRoom
<1>4. Fits(w, sv, m)
  BY <1>1, <1>2, <1>3 DEF Fits
<1>5. \A i \in 1..Len(q) : Ordered(w, q[i], m)
  BY SpokenLast
<1>6. QED
  BY <1>4, <1>5

LEMMA RequestIs ==
    ASSUME NEW sv \in Server, sv.phase \in {"Probing", "Loading", "Scheduled"}
    PROVE  /\ sv.mine = FALSE => PhaseRequest(sv) = <<>>
           /\ sv.mine /\ sv.phase = "Probing" =>
                PhaseRequest(sv) = <<Message(sv, "ProbeRequested")>>
           /\ sv.mine /\ sv.phase = "Loading" =>
                PhaseRequest(sv) = <<Message(sv, "LoadRequested")>>
           /\ sv.mine /\ sv.phase = "Scheduled" =>
                PhaseRequest(sv) = <<Message(sv, "StartScheduled")>>
BY DEF PhaseRequest

LEMMA LoadsStep ==
    ASSUME RInv, ServerLoads
    PROVE  RInvNext
<1>1. PICK s2 : s2 = [server EXCEPT !.phase = "Loading"]
  OBVIOUS
<1>2. /\ client \in Session /\ Local(client) /\ server \in Server
      /\ inbox \in Seq(Messages)
      /\ ServerWhole(server) /\ Room(client, server)
      /\ Queue(client, server, inbox)
  BY RInvParts
<1>3. /\ server.phase = "Probing"
      /\ server.mine => server.probed \/ server.terminal # "None"
      /\ Says(s2, PhaseRequest(s2))
  BY <1>1 DEF ServerLoads
<1>4. s2 \in Server
  BY <1>1, <1>2, ServerFields
<1>5. GoesOn(server, s2) /\ s2.phase = "Loading" /\ s2.terminal = server.terminal
  BY <1>1, <1>2 DEF GoesOn, Server
<1>6. Room(client, s2) /\ ServerWhole(s2)
  BY <1>2, <1>3, <1>4, <1>5, LoadsRoom
<1>7. Queue(client, s2, inbox)
  BY <1>2, <1>3, <1>4, <1>5, RanksUp, QueueServer DEF GoesOn
<1>8. ServerRound(s2).id = ServerRound(server).id
  BY <1>3, <1>5 DEF ServerRound, GoesOn
<1>9. CASE s2.mine = FALSE
  <2>1. Says(s2, <<>>)
    BY <1>3, <1>4, <1>5, <1>9, RequestIs
  <2>2. QED
    BY <1>4, <1>5, <1>6, <1>7, <1>8, <2>1, SilentStep DEF GoesOn
<1>10. CASE s2.mine
  <2>1. PICK m : m = Message(s2, "LoadRequested")
    OBVIOUS
  <2>2. Says(s2, <<m>>)
    BY <1>3, <1>4, <1>5, <1>10, <2>1, RequestIs
  <2>3. "LoadRequested" \in MessageType
    BY DEF MessageType
  <2>4. /\ m \in Messages /\ m.type = "LoadRequested"
        /\ m.round = ServerRound(s2) /\ m.terminal = s2.terminal
    BY <1>4, <2>1, <2>3, MessageIs
  <2>5. Spoken(s2, m) /\ ~Settles(m)
    BY <1>5, <2>4 DEF Spoken, Settles
  <2>6. /\ Fits(client, s2, m)
        /\ \A i \in 1..Len(inbox) : Ordered(client, inbox[i], m)
    BY <1>2, <1>4, <1>6, <1>7, <2>4, <2>5, SpokenNow
  <2>7. Before(m) = ServerRound(server).id /\ After(m) = ServerRound(s2).id
    BY <1>8, <2>4 DEF Before, After
  <2>8. QED
    BY <1>4, <1>5, <1>6, <1>7, <2>2, <2>4, <2>6, <2>7, SpokenStep DEF GoesOn
<1>11. QED
  BY <1>4, <1>9, <1>10 DEF Server

LEMMA SchedulesStep ==
    ASSUME RInv, ServerSchedules
    PROVE  RInvNext
<1>1. PICK s2 : s2 = [server EXCEPT !.phase = "Scheduled",
                                    !.scheduled = @ \cup {server.round}]
  OBVIOUS
<1>2. /\ client \in Session /\ Local(client) /\ server \in Server
      /\ inbox \in Seq(Messages)
      /\ ServerWhole(server) /\ Room(client, server)
      /\ Queue(client, server, inbox)
  BY RInvParts
<1>3. /\ server.phase = "Loading"
      /\ server.mine => server.loaded \/ server.terminal # "None"
      /\ Says(s2, PhaseRequest(s2))
  BY <1>1 DEF ServerSchedules
<1>4. s2 \in Server
  <2>1. server.round # 0
    BY <1>2, <1>3 DEF ServerWhole
  <2>2. QED
    BY <1>1, <1>2, <2>1, ScheduledFields
<1>5. GoesOn(server, s2) /\ s2.phase = "Scheduled" /\ s2.terminal = server.terminal
  BY <1>1, <1>2 DEF GoesOn, Server
<1>6. Room(client, s2) /\ ServerWhole(s2)
  BY <1>2, <1>3, <1>4, <1>5, SchedulesRoom
<1>7. Queue(client, s2, inbox)
  BY <1>2, <1>3, <1>4, <1>5, RanksUp, QueueServer DEF GoesOn
<1>8. ServerRound(s2).id = ServerRound(server).id
  BY <1>3, <1>5 DEF ServerRound, GoesOn
<1>9. CASE s2.mine = FALSE
  <2>1. Says(s2, <<>>)
    BY <1>3, <1>4, <1>5, <1>9, RequestIs
  <2>2. QED
    BY <1>4, <1>5, <1>6, <1>7, <1>8, <1>9, <2>1, SilentStep DEF GoesOn
<1>10. CASE s2.mine
  <2>1. PICK m : m = Message(s2, "StartScheduled")
    OBVIOUS
  <2>2. Says(s2, <<m>>)
    BY <1>3, <1>4, <1>5, <1>10, <2>1, RequestIs
  <2>3. "StartScheduled" \in MessageType
    BY DEF MessageType
  <2>4. /\ m \in Messages /\ m.type = "StartScheduled"
        /\ m.round = ServerRound(s2) /\ m.terminal = s2.terminal
    BY <1>4, <2>1, <2>3, MessageIs
  <2>5. Spoken(s2, m) /\ ~Settles(m)
    BY <1>5, <2>4 DEF Spoken, Settles
  <2>6. /\ Fits(client, s2, m)
        /\ \A i \in 1..Len(inbox) : Ordered(client, inbox[i], m)
    BY <1>2, <1>4, <1>6, <1>7, <2>4, <2>5, SpokenNow
  <2>7. Before(m) = ServerRound(server).id /\ After(m) = ServerRound(s2).id
    BY <1>8, <2>4 DEF Before, After
  <2>8. TellsStart(m, s2.round)
    BY <1>5, <2>4 DEF TellsStart, ServerRound
  <2>9. QED
    BY <1>4, <1>5, <1>6, <1>7, <2>2, <2>4, <2>6, <2>7, <2>8, SpokenStep DEF GoesOn
<1>11. QED
  BY <1>4, <1>9, <1>10 DEF Server

LEMMA StartsStep ==
    ASSUME RInv, ServerStarts
    PROVE  RInvNext
<1>1. PICK s2 : s2 = [server EXCEPT !.phase = "Playing"]
  OBVIOUS
<1>2. /\ client \in Session /\ Local(client) /\ server \in Server
      /\ inbox \in Seq(Messages)
      /\ ServerWhole(server) /\ Room(client, server)
      /\ Queue(client, server, inbox)
  BY RInvParts
<1>3. PICK m : m = Message(s2, "Started")
  OBVIOUS
<1>4. server.phase = "Scheduled" /\ Says(s2, <<m>>)
  BY <1>1, <1>3 DEF ServerStarts
<1>5. s2 \in Server
  BY <1>1, <1>2, ServerFields
<1>6. GoesOn(server, s2) /\ s2.phase = "Playing" /\ s2.terminal = server.terminal
  BY <1>1, <1>2 DEF GoesOn, Server
<1>7. Room(client, s2) /\ ServerWhole(s2)
  BY <1>2, <1>4, <1>5, <1>6, StartsRoom
<1>8. Queue(client, s2, inbox)
  BY <1>2, <1>4, <1>5, <1>6, RanksUp, QueueServer DEF GoesOn
<1>9. "Started" \in MessageType
  BY DEF MessageType
<1>10. /\ m \in Messages /\ m.type = "Started"
       /\ m.round = ServerRound(s2) /\ m.terminal = s2.terminal
  BY <1>3, <1>5, <1>9, MessageIs
<1>11. Spoken(s2, m) /\ ~Settles(m)
  BY <1>6, <1>10 DEF Spoken, Settles
<1>12. /\ Fits(client, s2, m)
       /\ \A i \in 1..Len(inbox) : Ordered(client, inbox[i], m)
  BY <1>2, <1>5, <1>7, <1>8, <1>10, <1>11, SpokenNow
<1>13. Before(m) = ServerRound(server).id /\ After(m) = ServerRound(s2).id
  BY <1>4, <1>6, <1>10 DEF Before, After, ServerRound, GoesOn
<1>14. TellsPlay(m, s2.round)
  BY <1>6, <1>10 DEF TellsPlay, ServerRound
<1>15. server.phase \in {"Scheduled", "Playing"}
  BY <1>4
<1>16. QED
  BY <1>4, <1>5, <1>6, <1>7, <1>8, <1>10, <1>12, <1>13, <1>14, <1>15,
     SpokenStep DEF GoesOn

LEMMA CancelsStep ==
    ASSUME RInv, ServerCancels
    PROVE  RInvNext
<1>1. /\ client \in Session /\ server \in Server /\ inbox \in Seq(Messages)
      /\ InvOf(client, server, inbox, link)
  BY RInvParts
<1>2. PICK s2 : s2 = Cancelled(server)
  OBVIOUS
<1>3. PICK m : m = Message(server, "LaunchCancelled")
  OBVIOUS
<1>4. server.phase \in {"Probing", "Loading", "Scheduled"} /\ Says(s2, <<m>>)
  BY <1>2, <1>3 DEF ServerCancels
<1>5. /\ link # "Down" => InvOf(client, s2, inbox \o <<m>>, link)
      /\ link = "Down" \/ ~server.member => InvOf(client, s2, inbox, link)
  BY <1>1, <1>2, <1>3, <1>4, CancelInv
<1>6. s2.member = server.member
  BY <1>1, <1>2 DEF Cancelled, Server
<1>7. /\ client' = client /\ server' = s2 /\ link' = link
      /\ s2.member /\ link # "Down" => inbox' = inbox \o <<m>>
      /\ ~(s2.member /\ link # "Down") => inbox' = inbox
  BY <1>4, SaysOne
<1>8. CASE s2.member /\ link # "Down"
  BY <1>5, <1>7, <1>8 DEF RInvNext
<1>9. CASE ~(s2.member /\ link # "Down")
  BY <1>5, <1>6, <1>7, <1>9 DEF RInvNext
<1>10. QED
  BY <1>8, <1>9

\* A player who has not started its chart by the deadline has given up.
LEMMA SettledIsQuiet ==
    ASSUME NEW w \in Session, Local(w), Fit(w), w.round.id # 0,
           \A o \in w.ops : o.status # "Ready"
    PROVE  Quiet(w)
<1>1. Status(w, w.prepared) # "Ready"
  <2>1. CASE OpsOf(w, w.prepared) = {}
    BY <2>1 DEF Status
  <2>2. CASE OpsOf(w, w.prepared) # {}
    <3>1. (CHOOSE o \in OpsOf(w, w.prepared) : TRUE) \in w.ops
      BY <2>2, ChosenOp
    <3>2. QED
      BY <2>2, <3>1 DEF Status
  <2>3. QED
    BY <2>1, <2>2
<1>2. w.round.stage \in Stage /\ w.round.stage # "None"
  <2>1. w.round.stage \in Stage
    BY DEF Session
  <2>2. w.round.stage # "None"
    BY DEF Local, RoundWhole, WholeRound
  <2>3. QED
    BY <2>1, <2>2
<1>3. CASE w.round.stage \in {"Scheduled", "Playing"}
  BY <1>1, <1>3 DEF Quiet
<1>4. CASE w.round.stage = "Loading"
  <2>1. w.abandoned
    BY <1>1, <1>4 DEF Fit, LoadedUp
  <2>2. w.submitted
    BY <2>1 DEF Local, RoundWhole
  <2>3. QED
    BY <2>2 DEF Quiet
<1>5. QED
  BY <1>2, <1>3, <1>4 DEF Fit, Stage

LEMMA SettlesStep ==
    ASSUME RInv, ServerSettles
    PROVE  RInvNext
<1>1. PICK s2 : s2 = [server EXCEPT !.terminal = "Dnf"]
  OBVIOUS
<1>2. /\ client \in Session /\ Local(client) /\ server \in Server
      /\ inbox \in Seq(Messages)
      /\ ServerWhole(server) /\ Room(client, server)
      /\ Queue(client, server, inbox)
  BY RInvParts
<1>3. PICK m : m = Message(s2, "Standings")
  OBVIOUS
<1>4. /\ server.phase = "Playing" /\ server.mine
      /\ link = "Down" \/ \A o \in client.ops : o.status # "Ready"
      /\ Says(s2, <<m>>)
  BY <1>1, <1>3 DEF ServerSettles
<1>5. s2 \in Server
  <2>1. server.phase \in {"Selecting", "Probing", "Loading", "Scheduled",
                          "Playing"}
    BY <1>2 DEF Server
  <2>2. QED
    BY <1>1, <1>2, <2>1, ServerFields
<1>6. GoesOn(server, s2) /\ s2.phase = "Playing" /\ s2.terminal = "Dnf"
  BY <1>1, <1>2, <1>4 DEF GoesOn, Server
<1>7. Room(client, s2) /\ ServerWhole(s2)
  BY <1>2, <1>4, <1>5, <1>6, SettlesRoom
<1>8. Queue(client, s2, inbox)
  BY <1>2, <1>4, <1>5, <1>6, RanksUp, QueueServer DEF GoesOn
<1>9. "Standings" \in MessageType
  BY DEF MessageType
<1>10. /\ m \in Messages /\ m.type = "Standings"
       /\ m.round = ServerRound(s2) /\ m.terminal = s2.terminal
  BY <1>3, <1>5, <1>9, MessageIs
<1>11. Spoken(s2, m)
  BY <1>6, <1>10 DEF Spoken
<1>12. s2.member /\ link # "Down" =>
         /\ Fits(client, s2, m)
         /\ \A i \in 1..Len(inbox) : Ordered(client, inbox[i], m)
  <2>1. SUFFICES ASSUME link # "Down"
                 PROVE  /\ Fits(client, s2, m)
                        /\ \A i \in 1..Len(inbox) : Ordered(client, inbox[i], m)
    OBVIOUS
  <2>2. client.round.id = server.round /\ m.round.id = server.round
        /\ server.round # 0
    <3>1. client.round.id = server.round
      BY <1>2, <1>4, EngagedSeat
    <3>2. server.round # 0
      BY <1>2, <1>4 DEF ServerWhole
    <3>3. m.round.id = server.round
      BY <1>6, <1>10 DEF ServerRound, GoesOn
    <3>4. QED
      BY <3>1, <3>2, <3>3
  <2>3. Fit(client)
    BY <1>2, <1>4 DEF Room
  <2>4. Quiet(client)
    BY <1>2, <1>4, <2>1, <2>2, <2>3, SettledIsQuiet
  <2>5. m.terminal # "Result"
    BY <1>6, <1>10
  <2>6. m.type \notin {"Finalized", "LaunchCancelled", "Removed"}
    BY <1>10
  <2>7. QED
    BY <1>2, <1>5, <1>7, <1>8, <1>10, <1>11, <2>2, <2>4, <2>5, <2>6, SpokenNow
<1>13. Before(m) = ServerRound(server).id /\ After(m) = ServerRound(s2).id
  BY <1>4, <1>6, <1>10 DEF Before, After, ServerRound, GoesOn
<1>14. QED
  BY <1>4, <1>5, <1>6, <1>7, <1>8, <1>10, <1>12, <1>13, SpokenStep DEF GoesOn

LEMMA FinalizesStep ==
    ASSUME RInv, ServerFinalizes
    PROVE  RInvNext
<1>1. PICK s2 : s2 = [server EXCEPT !.phase = "Selecting"]
  OBVIOUS
<1>2. /\ client \in Session /\ Local(client) /\ server \in Server
      /\ inbox \in Seq(Messages)
      /\ ServerWhole(server) /\ Room(client, server)
      /\ Queue(client, server, inbox)
  BY RInvParts
<1>3. PICK m : m = Message(server, "Finalized")
  OBVIOUS
<1>4. server.phase = "Playing" /\ Says(s2, <<m>>)
  BY <1>1, <1>3 DEF ServerFinalizes
<1>5. s2 \in Server
  BY <1>1, <1>2, ServerFields
<1>6. /\ GoesOn(server, s2) /\ s2.phase = "Selecting"
      /\ s2.terminal = server.terminal
  BY <1>1, <1>2 DEF GoesOn, Server
<1>7. Room(client, s2) /\ ServerWhole(s2)
  BY <1>2, <1>5, <1>6, FinalizesRoom
<1>8. Queue(client, s2, inbox)
  BY <1>2, <1>5, <1>6, QueueServer DEF GoesOn
<1>9. "Finalized" \in MessageType
  BY DEF MessageType
<1>10. /\ m \in Messages /\ m.type = "Finalized"
       /\ m.round = ServerRound(server) /\ m.terminal = server.terminal
  BY <1>2, <1>3, <1>9, MessageIs
<1>11. Spoken(server, m) /\ ~Settles(m)
  BY <1>4, <1>10 DEF Spoken, Settles
<1>12. m.round.id = server.round
  BY <1>4, <1>10 DEF ServerRound
<1>13. s2.member /\ link # "Down" =>
         /\ Fits(client, s2, m)
         /\ \A i \in 1..Len(inbox) : Ordered(client, inbox[i], m)
  <2>1. SUFFICES ASSUME s2.member
                 PROVE  /\ Fits(client, s2, m)
                        /\ \A i \in 1..Len(inbox) : Ordered(client, inbox[i], m)
    OBVIOUS
  <2>2. server.member
    BY <1>6, <2>1 DEF GoesOn
  <2>3. m.round.id = client.round.id /\ client.round.mine => Fit(client)
    BY <1>2, <1>4, <1>12, <2>2 DEF Room
  <2>4. MessageFits(m) /\ ClientMessage(client, m)
    BY <1>2, <1>10, <1>11, <2>3, SpokenFits
  <2>5. RoomMessage(client, s2, m)
    BY <1>11, SpokenRoom
  <2>6. ServerMessage(s2, m)
    <3>1. m.round.id <= s2.round
      BY <1>2, <1>6, <1>10, ServerRoundIs DEF GoesOn
    <3>2. QED
      BY <1>6, <1>10, <3>1 DEF ServerMessage
  <2>7. server.mine => client.round.id = m.round.id
    BY <1>2, <1>4, <1>12, EngagedSeat
  <2>8. \A i \in 1..Len(inbox) : Ordered(client, inbox[i], m)
    BY <1>2, <1>10, <1>11, <2>2, <2>7, SpokenLast
  <2>9. QED
    BY <2>4, <2>5, <2>6, <2>8 DEF Fits
<1>14. Before(m) = ServerRound(server).id /\ After(m) = ServerRound(s2).id
  BY <1>6, <1>10 DEF Before, After, ServerRound, NoRound
<1>15. s2.phase \notin {"Scheduled", "Playing"}
  BY <1>6
<1>16. QED
  BY <1>4, <1>5, <1>6, <1>7, <1>8, <1>10, <1>13, <1>14, <1>15, SpokenStep
     DEF GoesOn

LEMMA UnseatedIs ==
    ASSUME NEW w \in Session, NEW sv \in Server, ServerWhole(sv), Room(w, sv)
    PROVE  LET s2 == Unseated(sv)
           IN  /\ s2 \in Server /\ ServerWhole(s2) /\ Room(w, s2)
               /\ s2.member = FALSE /\ s2.mine = FALSE
               /\ s2.round = sv.round /\ s2.phase = sv.phase
               /\ s2.heard = sv.heard
<1>1. PICK s2 : s2 = Unseated(sv)
  OBVIOUS
<1>2. s2 \in Server
  BY <1>1, UnseatedType
<1>3. /\ s2.member = FALSE /\ s2.mine = FALSE
      /\ s2.round = sv.round /\ s2.phase = sv.phase /\ s2.heard = sv.heard
      /\ s2.loaded = sv.loaded /\ s2.terminal = sv.terminal
  BY <1>1 DEF Unseated, Server
<1>4. ServerWhole(s2)
  BY <1>3 DEF ServerWhole
<1>5. Room(w, s2)
  BY <1>3 DEF Room, Engaged
<1>6. QED
  BY <1>1, <1>2, <1>3, <1>4, <1>5

LEMMA RemovesStep ==
    ASSUME RInv, ServerRemoves
    PROVE  RInvNext
<1>1. PICK s2 : s2 = Unseated(server)
  OBVIOUS
<1>2. /\ client \in Session /\ Local(client) /\ server \in Server
      /\ inbox \in Seq(Messages)
      /\ InvOf(client, server, inbox, link)
      /\ ServerWhole(server) /\ Room(client, server)
      /\ Queue(client, server, inbox)
  BY RInvParts
<1>3. PICK m : m = Message(server, "Removed")
  OBVIOUS
<1>4. /\ client' = client /\ server' = s2 /\ link' = link
      /\ link = "Down" => inbox' = inbox
      /\ link # "Down" => inbox' = inbox \o <<m>>
  <2>1. Append(inbox, m) = inbox \o <<m>>
    BY <1>2
  <2>2. QED
    BY <1>1, <1>3, <2>1 DEF ServerRemoves
<1>5. /\ s2 \in Server /\ ServerWhole(s2) /\ Room(client, s2)
      /\ s2.member = FALSE /\ s2.mine = FALSE
      /\ s2.round = server.round /\ s2.phase = server.phase
      /\ s2.heard = server.heard
  BY <1>1, <1>2, UnseatedIs
<1>6. Queue(client, s2, inbox)
  <2>1. s2.phase # "Selecting" => Rank(server.phase) <= Rank(s2.phase)
    <3>1. s2.phase # "Selecting" => s2.phase \in Stage
      BY <1>5 DEF Server, Stage
    <3>2. s2.phase # "Selecting" => Rank(s2.phase) \in 0..4
      BY <3>1, RankNat
    <3>3. QED
      BY <1>5, <3>2
  <2>2. QED
    BY <1>2, <1>5, <2>1, QueueServer
<1>7. "Removed" \in MessageType
  BY DEF MessageType
<1>8. /\ m \in Messages /\ m.type = "Removed"
      /\ m.round = ServerRound(server) /\ m.terminal = server.terminal
  BY <1>2, <1>3, <1>7, MessageIs
<1>9. Spoken(server, m) /\ ~Settles(m)
  BY <1>8 DEF Spoken, Settles
<1>10. Fits(client, s2, m)
  <2>1. MessageFits(m) /\ ClientMessage(client, m)
    BY <1>2, <1>8, <1>9, SpokenFits
  <2>2. RoomMessage(client, s2, m)
    BY <1>9, SpokenRoom
  <2>3. m.type \notin {"Finalized", "LaunchCancelled", "Removed"}
        \/ m.type = "Removed"
    BY <1>8
  <2>4. ServerMessage(s2, m)
    <3>1. /\ server.round \in Nat
          /\ server.phase \in Stage \cup {"Selecting"}
          /\ server.phase # "Selecting" => m.round.stage = server.phase
          /\ m.round.id <= server.round
      BY <1>2, <1>8, ServerRoundIs
    <3>2. server.phase # "Selecting" => Rank(server.phase) \in 0..4
      BY <3>1, RankNat
    <3>3. m.round.id = s2.round /\ s2.phase # "Selecting" =>
             Rank(m.round.stage) <= Rank(s2.phase)
      BY <1>5, <3>1, <3>2
    <3>4. QED
      BY <1>5, <1>8, <3>1, <3>3 DEF ServerMessage
  <2>5. QED
    BY <2>1, <2>2, <2>4 DEF Fits
<1>11. \A i \in 1..Len(inbox) : Ordered(client, inbox[i], m)
  BY <1>2, <1>8, <1>9, SpokenLast
<1>12. CASE link = "Down"
  <2>1. Linked(client, s2, inbox, link)
    BY <1>2, <1>12 DEF InvOf, Linked
  <2>2. Told(client, s2, inbox, link) /\ ToldPlay(client, s2, inbox, link)
    BY <1>12 DEF Told, ToldPlay
  <2>3. QED
    BY <1>2, <1>4, <1>5, <1>6, <1>12, <2>1, <2>2 DEF RInvNext, InvOf
<1>13. CASE link # "Down"
  <2> DEFINE r == inbox \o <<m>>
  <2>1. Queue(client, s2, r)
    BY <1>2, <1>6, <1>8, <1>10, <1>11, QueueAppend
  <2>2. /\ r # <<>> /\ Len(inbox) \in Nat /\ Len(r) = Len(inbox) + 1
        /\ \A i \in 1..Len(inbox) : r[i] = inbox[i]
        /\ r[Len(r)] = m
    BY <1>2, <1>8, AppendIs
  <2> HIDE DEF r
  <2>3. client.state # "InRoom" => r # <<>> /\ r[1].type = "RoomSnapshot"
    <3>1. SUFFICES ASSUME client.state # "InRoom"
                   PROVE  r # <<>> /\ r[1].type = "RoomSnapshot"
      OBVIOUS
    <3>2. inbox # <<>> /\ inbox[1].type = "RoomSnapshot"
      BY <1>2, <1>13, <3>1 DEF InvOf, Linked
    <3>3. 1 \in 1..Len(inbox)
      BY <1>2, <3>2
    <3>4. QED
      BY <2>2, <3>2, <3>3
  <2>4. \E i \in 1..Len(r) : r[i].type = "Removed"
    <3>1. Len(r) \in 1..Len(r)
      BY <2>2
    <3>2. QED
      BY <1>8, <2>2, <3>1
  <2>5. Linked(client, s2, r, link)
    BY <1>5, <1>13, <2>3, <2>4 DEF Linked
  <2>6. Told(client, s2, r, link) /\ ToldPlay(client, s2, r, link)
    BY <1>5 DEF Told, ToldPlay
  <2>7. InvOf(client, s2, r, link)
    BY <1>2, <1>5, <2>1, <2>5, <2>6 DEF InvOf
  <2>8. QED
    BY <1>4, <1>13, <2>7 DEF RInvNext, r
<1>14. QED
  BY <1>12, <1>13

\* The server opens the next round.
Opened(sv, s2) ==
    /\ s2.phase = "Probing"
    /\ s2.round = sv.round + 1
    /\ s2.member = sv.member
    /\ s2.mine => s2.member
    /\ s2.probed = FALSE
    /\ s2.loaded = FALSE
    /\ s2.terminal = "None"
    /\ s2.heard = sv.heard

LEMMA OpenedWhole ==
    ASSUME NEW w \in Session, NEW sv \in Server, NEW s2 \in Server,
           ServerWhole(sv), Room(w, sv), w.retained = 0 \/ ~s2.mine, Opened(sv, s2)
    PROVE  /\ ServerWhole(s2) /\ Room(w, s2)
           /\ sv.round \in Nat /\ s2.round \in Nat /\ s2.round # 0
           /\ w.round.id < s2.round
           /\ \A t \in s2.heard : t.round < s2.round
<1>1. sv.round \in Nat /\ s2.round \in Nat /\ w.round.id \in Nat
  BY DEF Server, Session
<1>2. s2.round # 0 /\ w.round.id < s2.round
  BY <1>1 DEF Opened, Room
<1>3. \A t \in s2.heard : t.round < s2.round
  <2> TAKE t \in s2.heard
  <2>1. t.round \in Nat
    BY DEF Server, Terminal
  <2>2. t.round <= sv.round
    BY DEF Opened, ServerWhole
  <2>3. QED
    BY <1>1, <2>1, <2>2 DEF Opened
<1>4. \A t \in s2.heard : t.round # s2.round /\ t.round <= s2.round
  <2> TAKE t \in s2.heard
  <2>1. t.round \in Nat
    BY DEF Server, Terminal
  <2>2. QED
    BY <1>1, <1>3, <2>1
<1>5. ServerWhole(s2)
  <2>1. s2.terminal # "Result"
    BY DEF Opened
  <2>2. /\ \A a, b \in s2.heard : a.round = b.round => a = b
        /\ \A t \in s2.heard : t.kind = "Result" => t.chart = t.round
    BY DEF Opened, ServerWhole
  <2>3. QED
    BY <1>2, <1>4, <2>1, <2>2 DEF ServerWhole, Opened
<1>6. ~Engaged(s2)
  BY <1>4 DEF Engaged, Opened
<1>7. Room(w, s2)
  <2>1. w.round.id # s2.round /\ w.round.id <= s2.round
    BY <1>1, <1>2
  <2>2. \A t \in s2.heard : w.round.mine /\ t.round = w.round.id =>
         /\ w.submitted
         /\ w.terminal.kind # "None" => w.terminal = t
    BY DEF Opened, Room
  <2>3. QED
    BY <1>6, <2>1, <2>2 DEF Room, Opened
<1>8. QED
  BY <1>1, <1>2, <1>3, <1>5, <1>7

LEMMA OpenedQueue ==
    ASSUME NEW w \in Session, NEW sv \in Server, NEW s2 \in Server,
           ServerWhole(sv), Room(w, sv), w.retained = 0 \/ ~s2.mine, Opened(sv, s2),
           sv.phase = "Selecting",
           NEW q \in Seq(Messages), Queue(w, sv, q),
           \A i \in 1..Len(q) : q[i].type # "Finalized" \/ ~s2.mine
    PROVE  /\ Queue(w, s2, q)
           /\ \A i \in 1..Len(q) : q[i].round.id < s2.round
<1>1. /\ sv.round \in Nat /\ s2.round \in Nat
      /\ w.round.id < s2.round
  BY OpenedWhole
<1>2. ASSUME NEW i \in 1..Len(q)
      PROVE  Fits(w, s2, q[i]) /\ q[i].round.id < s2.round
  <2>1. PICK a : a = q[i]
    OBVIOUS
  <2>2. a \in Messages /\ a.round.id \in Nat
    <3>1. a \in Messages
      BY <2>1
    <3>2. QED
      BY <3>1 DEF Messages, RoundType
  <2>3. Fits(w, sv, a) /\ (a.type # "Finalized" \/ ~s2.mine)
    BY <2>1 DEF Queue
  <2>4. /\ MessageFits(a) /\ ClientMessage(w, a) /\ ServerMessage(sv, a)
        /\ RoomMessage(w, sv, a)
    BY <2>3 DEF Fits
  <2>5. a.round.id < s2.round /\ a.round.id <= s2.round /\ a.round.id # s2.round
    BY <1>1, <2>2, <2>4 DEF ServerMessage, Opened
  <2>6. ServerMessage(s2, a)
    BY <2>3, <2>4, <2>5 DEF ServerMessage, Opened
  <2>7. w.round.id # s2.round
    <3>1. w.round.id \in Nat
      BY DEF Session
    <3>2. QED
      BY <1>1, <3>1
  <2>8. RoomMessage(w, s2, a)
    BY <2>4, <2>7 DEF RoomMessage, Opened
  <2>9. QED
    BY <2>1, <2>4, <2>5, <2>6, <2>8 DEF Fits
<1>3. QED
  BY <1>2 DEF Queue

LEMMA OpenedInv ==
    ASSUME NEW w \in Session, NEW sv \in Server, NEW s2 \in Server,
           NEW q \in Seq(Messages), NEW lk, InvOf(w, sv, q, lk),
           w.retained = 0 \/ ~s2.mine, Opened(sv, s2), sv.phase = "Selecting",
           \A i \in 1..Len(q) : q[i].type # "Finalized" \/ ~s2.mine
    PROVE  LET m == Message(s2, "LoadingStarted")
           IN  /\ lk # "Down" => InvOf(w, s2, q \o <<m>>, lk)
               /\ lk = "Down" \/ ~sv.member => InvOf(w, s2, q, lk)
<1>1. /\ Local(w) /\ ServerWhole(sv) /\ Room(w, sv) /\ Queue(w, sv, q)
      /\ Linked(w, sv, q, lk)
  BY DEF InvOf
<1>2. /\ ServerWhole(s2) /\ Room(w, s2)
      /\ sv.round \in Nat /\ s2.round \in Nat /\ s2.round # 0
      /\ w.round.id < s2.round
      /\ \A t \in s2.heard : t.round < s2.round
  BY <1>1, OpenedWhole
<1>3. /\ Queue(w, s2, q)
      /\ \A i \in 1..Len(q) : q[i].round.id < s2.round
  BY <1>1, OpenedQueue
<1>4. PICK m : m = Message(s2, "LoadingStarted")
  OBVIOUS
<1>5. "LoadingStarted" \in MessageType
  BY DEF MessageType
<1>6. /\ m \in Messages /\ m.type = "LoadingStarted"
      /\ m.round = ServerRound(s2) /\ m.terminal = "None"
  <2>1. m.terminal = s2.terminal /\ m \in Messages /\ m.type = "LoadingStarted"
        /\ m.round = ServerRound(s2)
    BY <1>4, <1>5, MessageIs
  <2>2. QED
    BY <2>1 DEF Opened
<1>7. /\ m.round.id = s2.round /\ m.round.stage = "Probing"
      /\ m.round.mine = s2.mine /\ WholeRound(m.round)
  BY <1>2, <1>6, ServerRoundIs DEF Opened
<1>8. w.round.id # m.round.id
  <2>1. w.round.id \in Nat
    BY DEF Session
  <2>2. QED
    BY <1>2, <1>7, <2>1
<1>9. Fits(w, s2, m)
  <2>1. MessageFits(m)
    BY <1>6, <1>7 DEF MessageFits
  <2>2. ClientMessage(w, m)
    BY <1>2, <1>6, <1>7, <1>8 DEF ClientMessage, Settles, Watched
  <2>3. ServerMessage(s2, m)
    <3>1. Rank("Probing") <= Rank("Probing")
      BY DEF Rank
    <3>2. QED
      BY <1>2, <1>6, <1>7, <3>1 DEF ServerMessage, Opened
  <2>4. RoomMessage(w, s2, m)
    <3>1. \A t \in s2.heard : t.round # m.round.id
      <4> TAKE t \in s2.heard
      <4>1. t.round \in Nat
        BY DEF Server, Terminal
      <4>2. QED
        BY <1>2, <1>7, <4>1
    <3>2. QED
      BY <1>6, <3>1 DEF RoomMessage
  <2>5. QED
    BY <2>1, <2>2, <2>3, <2>4 DEF Fits
<1>10. ASSUME NEW i \in 1..Len(q)
       PROVE  Ordered(w, q[i], m)
  <2>1. PICK a : a = q[i]
    OBVIOUS
  <2>2. a \in Messages /\ a.round.id \in Nat
    <3>1. a \in Messages
      BY <2>1
    <3>2. QED
      BY <3>1 DEF Messages, RoundType
  <2>3. a.round.id < m.round.id /\ (a.type # "Finalized" \/ ~s2.mine)
    BY <1>3, <1>7, <2>1
  <2>4. a.round.id # m.round.id
    BY <1>2, <1>7, <2>2, <2>3
  <2>5. Pair(a, m)
    BY <1>6, <1>7, <2>3, <2>4 DEF Pair, Watched
  <2>6. OpenPair(w, a, m)
    BY <2>4 DEF OpenPair
  <2>7. QED
    BY <2>1, <2>5, <2>6 DEF Ordered
<1>11. ASSUME lk # "Down"
       PROVE  InvOf(w, s2, q \o <<m>>, lk)
  <2>1. Queue(w, s2, q \o <<m>>)
    BY <1>3, <1>6, <1>9, <1>10, QueueAppend
  <2>2. Before(m) = ServerRound(sv).id /\ After(m) = ServerRound(s2).id
    BY <1>6 DEF Before, After, ServerRound, NoRound
  <2>3. s2.member = sv.member
    BY DEF Opened
  <2>4. Linked(w, s2, q \o <<m>>, lk)
    BY <1>1, <1>6, <1>11, <2>2, <2>3, LinkedAppend
  <2>5. Told(w, s2, q \o <<m>>, lk) /\ ToldPlay(w, s2, q \o <<m>>, lk)
    BY DEF Told, ToldPlay, Opened
  <2>6. QED
    BY <1>1, <1>2, <2>1, <2>4, <2>5 DEF InvOf
<1>12. ASSUME lk = "Down" \/ ~sv.member
       PROVE  InvOf(w, s2, q, lk)
  <2>1. Linked(w, s2, q, lk)
    BY <1>1, <1>12, LinkedSame DEF Opened
  <2>2. Told(w, s2, q, lk) /\ ToldPlay(w, s2, q, lk)
    BY DEF Told, ToldPlay, Opened
  <2>3. QED
    BY <1>1, <1>2, <1>3, <2>1, <2>2 DEF InvOf
<1>13. QED
  BY <1>4, <1>11, <1>12

LEMMA LaunchesStep ==
    ASSUME RInv, ServerLaunches
    PROVE  RInvNext
<1>1. /\ client \in Session /\ server \in Server /\ inbox \in Seq(Messages)
      /\ InvOf(client, server, inbox, link)
      /\ link = "Down" => inbox = <<>>
  BY RInvParts
<1>2. /\ server.phase = "Selecting" /\ server.round < MaxRounds
  BY DEF ServerLaunches
<1>3. ScreensSettled =>
        /\ client.retained = 0
        /\ \A i \in 1..Len(inbox) : inbox[i].type # "Finalized"
  BY <1>1 DEF ScreensSettled
<1>4. PICK mine \in {FALSE, server.member /\ ScreensSettled} :
         LET sv == [server EXCEPT !.phase = "Probing", !.round = @ + 1,
                                  !.mine = mine, !.probed = FALSE,
                                  !.loaded = FALSE, !.terminal = "None"]
         IN  Says(sv, <<Message(sv, "LoadingStarted")>> \o PhaseRequest(sv))
  BY DEF ServerLaunches
<1>5. mine \in BOOLEAN /\ (mine => server.member) /\ (mine => ScreensSettled)
  BY <1>1, <1>4 DEF Server
<1>6. PICK s2 : s2 = [server EXCEPT !.phase = "Probing", !.round = @ + 1,
                                    !.mine = mine, !.probed = FALSE,
                                    !.loaded = FALSE, !.terminal = "None"]
  OBVIOUS
<1>7. s2 \in Server
  BY <1>1, <1>2, <1>5, <1>6, LaunchedType
<1>8. Opened(server, s2) /\ s2.mine = mine /\ s2.member = server.member
      /\ s2.phase = "Probing"
  BY <1>1, <1>5, <1>6 DEF Opened, Server
<1>17. /\ client.retained = 0 \/ ~s2.mine
       /\ \A i \in 1..Len(inbox) :
            inbox[i].type # "Finalized" \/ ~s2.mine
  BY <1>2, <1>3, <1>5, <1>8
<1>9. PICK a : a = Message(s2, "LoadingStarted")
  OBVIOUS
<1>10. "LoadingStarted" \in MessageType /\ "ProbeRequested" \in MessageType
  BY DEF MessageType
<1>11. a \in Messages
  BY <1>7, <1>9, <1>10, MessageIs
<1>12. Says(s2, <<a>> \o PhaseRequest(s2))
  BY <1>4, <1>6, <1>9
<1>13. /\ link # "Down" => InvOf(client, s2, inbox \o <<a>>, link)
       /\ link = "Down" \/ ~server.member => InvOf(client, s2, inbox, link)
  BY <1>1, <1>2, <1>7, <1>8, <1>9, <1>17, OpenedInv
<1>14. CASE s2.mine = FALSE
  <2>1. <<a>> \o PhaseRequest(s2) = <<a>>
    <3>1. PhaseRequest(s2) = <<>>
      BY <1>7, <1>8, <1>14, RequestIs
    <3>2. <<a>> \o <<>> = <<a>>
      BY <1>11
    <3>3. QED
      BY <3>1, <3>2
  <2>2. /\ client' = client /\ server' = s2 /\ link' = link
        /\ s2.member /\ link # "Down" => inbox' = inbox \o <<a>>
        /\ ~(s2.member /\ link # "Down") => inbox' = inbox
    BY <1>12, <2>1, SaysOne
  <2>3. CASE s2.member /\ link # "Down"
    BY <1>13, <2>2, <2>3 DEF RInvNext
  <2>4. CASE ~(s2.member /\ link # "Down")
    BY <1>8, <1>13, <2>2, <2>4 DEF RInvNext
  <2>5. QED
    BY <2>3, <2>4
<1>15. CASE s2.mine
  <2>1. PICK b : b = Message(s2, "ProbeRequested")
    OBVIOUS
  <2>2. /\ b \in Messages /\ b.type = "ProbeRequested"
        /\ b.round = ServerRound(s2) /\ b.terminal = s2.terminal
    BY <1>7, <1>10, <2>1, MessageIs
  <2>3. Says(s2, <<a>> \o <<b>>)
    BY <1>7, <1>8, <1>12, <1>15, <2>1, RequestIs
  <2>4. /\ client' = client /\ server' = s2 /\ link' = link
        /\ s2.member /\ link # "Down" => inbox' = (inbox \o <<a>>) \o <<b>>
        /\ ~(s2.member /\ link # "Down") => inbox' = inbox
    BY <1>1, <1>11, <2>2, <2>3, SaysTwo
  <2>5. CASE s2.member /\ link # "Down"
    <3>1. PICK r : r = inbox \o <<a>>
      OBVIOUS
    <3>2. r \in Seq(Messages) /\ InvOf(client, s2, r, link)
      BY <1>1, <1>11, <1>13, <2>5, <3>1, AppendIs
    <3>3. Spoken(s2, b) /\ ~Settles(b)
      BY <2>2 DEF Spoken, Settles
    <3>4. /\ Local(client) /\ ServerWhole(s2) /\ Room(client, s2)
          /\ Queue(client, s2, r)
      BY <3>2 DEF InvOf
    <3>5. /\ Fits(client, s2, b)
          /\ \A i \in 1..Len(r) : Ordered(client, r[i], b)
      BY <1>1, <1>7, <2>2, <3>2, <3>3, <3>4, SpokenNow
    <3>6. Before(b) = ServerRound(s2).id /\ After(b) = ServerRound(s2).id
      BY <2>2 DEF Before, After
    <3>7. InvOf(client, s2, r \o <<b>>, link)
      BY <1>1, <1>7, <2>2, <2>5, <3>2, <3>4, <3>5, <3>6, SayInv
    <3>8. QED
      BY <2>4, <2>5, <3>1, <3>7 DEF RInvNext
  <2>6. CASE ~(s2.member /\ link # "Down")
    BY <1>8, <1>13, <2>4, <2>6 DEF RInvNext
  <2>7. QED
    BY <2>5, <2>6
<1>16. QED
  BY <1>7, <1>14, <1>15 DEF Server

\* Every step of the server keeps the invariant.
LEMMA ServerStep ==
    ASSUME RInv, ServerNext
    PROVE  RInvNext
BY LaunchesStep, LoadsStep, SchedulesStep, StartsStep, CancelsStep,
   SettlesStep, FinalizesStep, RemovesStep DEF ServerNext

-----------------------------------------------------------------------------
(* The seat and the link.                                                  *)

\* The snapshot that greets a player who takes a seat or comes back to one.
LEMMA SnapshotFits ==
    ASSUME NEW w \in Session, Local(w), NEW sv \in Server, ServerWhole(sv),
           Room(w, sv), sv.member, w.state # "InRoom",
           NEW m \in Messages, m.type = "RoomSnapshot",
           m.round = ServerRound(sv), m.terminal = sv.terminal
    PROVE  Fits(w, sv, m)
<1>1. /\ sv.round \in Nat
      /\ sv.phase \in Stage \cup {"Selecting"}
      /\ sv.phase = "Selecting" => m.round = NoRound
      /\ sv.phase # "Selecting" =>
           /\ sv.round # 0
           /\ m.round.id = sv.round
           /\ m.round.stage = sv.phase
           /\ m.round.mine = sv.mine
      /\ m.round.id <= sv.round
      /\ WholeRound(m.round)
      /\ NoRound.id = 0 /\ NoRound.stage = "None" /\ NoRound.mine = FALSE
  BY ServerRoundIs
<1>2. MessageFits(m)
  <2>1. m.terminal # "None" => m.round.stage # "Probing"
    BY <1>1 DEF ServerWhole
  <2>2. m.terminal = "Result" => m.round.stage \in {"Playing", "None"}
    BY <1>1 DEF ServerWhole
  <2>3. QED
    BY <1>1, <2>1, <2>2 DEF MessageFits
<1>3. m.round.id = w.round.id =>
        /\ Rank(w.round.stage) <= Rank(m.round.stage)
        /\ m.round.mine = w.round.mine
  <2>1. CASE sv.phase = "Selecting"
    <3>1. m.round.id = w.round.id => w.round = NoRound
      BY <1>1, <2>1 DEF Local, RoundWhole, WholeRound
    <3>2. Rank("None") <= Rank("None")
      BY DEF Rank
    <3>3. QED
      BY <1>1, <2>1, <3>1, <3>2
  <2>2. CASE sv.phase # "Selecting"
    BY <1>1, <2>2 DEF Room
  <2>3. QED
    BY <2>1, <2>2
<1>4. w.retained # 0 => Watched(m.round)
  BY <1>1 DEF Room, Watched
<1>5. ClientMessage(w, m)
  BY <1>3, <1>4 DEF ClientMessage, Settles
<1>6. ServerMessage(sv, m)
  <2>1. sv.phase # "Selecting" => Rank(sv.phase) \in 0..4
    BY <1>1, RankNat
  <2>2. m.round.id = sv.round /\ sv.phase # "Selecting" =>
             Rank(m.round.stage) <= Rank(sv.phase)
    BY <1>1, <2>1
  <2>3. QED
    BY <1>1, <2>2 DEF ServerMessage
<1>7. RoomMessage(w, sv, m)
  <2>1. m.round.mine /\ m.round.id # w.round.id =>
          \A t \in sv.heard : t.round # m.round.id
    <3>1. SUFFICES ASSUME m.round.mine, m.round.id # w.round.id,
                          NEW t \in sv.heard, t.round = m.round.id
                   PROVE  FALSE
      OBVIOUS
    <3>2. sv.phase # "Selecting"
      BY <1>1, <3>1
    <3>3. Engaged(sv)
      BY <1>1, <3>1, <3>2 DEF Engaged
    <3>4. QED
      BY <1>1, <3>1, <3>2, <3>3 DEF Room
  <2>2. QED
    BY <1>1, <2>1 DEF RoomMessage
<1>8. QED
  BY <1>2, <1>5, <1>6, <1>7 DEF Fits

LEMMA SnapshotInv ==
    ASSUME NEW w \in Session, Local(w), NEW sv \in Server, ServerWhole(sv),
           Room(w, sv), sv.member, w.state # "InRoom",
           NEW m \in Messages, m.type = "RoomSnapshot",
           m.round = ServerRound(sv), m.terminal = sv.terminal
    PROVE  InvOf(w, sv, <<m>>, "Up")
<1> DEFINE q == <<m>>
<1>1. Len(q) = 1 /\ q[1] = m /\ q # <<>> /\ 1 \in 1..Len(q)
  OBVIOUS
<1>2. \A i \in 1..Len(q) : i = 1
  BY <1>1
<1> HIDE DEF q
<1>3. Fits(w, sv, m)
  BY SnapshotFits
<1>4. Queue(w, sv, q)
  <2>1. \A i \in 1..Len(q) : Fits(w, sv, q[i])
    BY <1>1, <1>2, <1>3
  <2>2. \A i \in 1..Len(q), j \in 1..Len(q) : i < j => Ordered(w, q[i], q[j])
    BY <1>1
  <2>3. QED
    BY <2>1, <2>2 DEF Queue
<1>5. Linked(w, sv, q, "Up")
  <2>1. After(m) = ServerRound(sv).id
    BY DEF After
  <2>2. \A i \in 1..(Len(q) - 1) : After(q[i]) = Before(q[i + 1])
    BY <1>1
  <2>3. Chain(w, q, ServerRound(sv).id)
    BY <1>1, <2>1, <2>2 DEF Chain
  <2>4. QED
    BY <1>1, <2>3 DEF Linked
<1>6. /\ sv.phase # "Selecting" => m.round.id = sv.round
      /\ sv.phase # "Selecting" => m.round.stage = sv.phase
  BY DEF ServerRound
<1>7. Told(w, sv, q, "Up")
  <2>1. sv.phase \in {"Scheduled", "Playing"} => TellsStart(q[1], sv.round)
    BY <1>1, <1>6 DEF TellsStart
  <2>2. QED
    BY <1>1, <2>1 DEF Told
<1>8. ToldPlay(w, sv, q, "Up")
  <2>1. sv.phase = "Playing" => TellsPlay(q[1], sv.round)
    BY <1>1, <1>6 DEF TellsPlay
  <2>2. QED
    BY <1>1, <2>1 DEF ToldPlay
<1>9. InvOf(w, sv, q, "Up")
  BY <1>4, <1>5, <1>7, <1>8 DEF InvOf
<1>10. QED
  BY <1>9 DEF q

\* A seat is taken, and the snapshot is on its way.
LEMMA EnterStep ==
    ASSUME RInv, Enter
    PROVE  RInvNext
<1>1. /\ client \in Session /\ server \in Server /\ Local(client)
      /\ ServerWhole(server) /\ Room(client, server)
  BY RInvParts
<1>2. PICK m : m = Message(server, "RoomSnapshot")
  OBVIOUS
<1>3. PICK s2 : s2 = [server EXCEPT !.member = TRUE]
  OBVIOUS
<1>4. /\ client.state = "Out" /\ ~server.member
      /\ server' = s2 /\ inbox' = <<m>> /\ link' = "Up" /\ client' = client
  BY <1>2, <1>3 DEF Enter
<1>5. s2 \in Server
  <2>1. server.phase \in {"Selecting", "Probing", "Loading", "Scheduled",
                          "Playing"}
    BY <1>1 DEF Server
  <2>2. QED
    BY <1>1, <1>3, <2>1, ServerFields
<1>6. /\ s2.member /\ ~s2.mine /\ s2.round = server.round
      /\ s2.phase = server.phase /\ s2.heard = server.heard
      /\ s2.loaded = server.loaded /\ s2.terminal = server.terminal
  BY <1>1, <1>3, <1>4 DEF Server, ServerWhole
<1>7. ServerWhole(s2)
  BY <1>1, <1>6 DEF ServerWhole
<1>8. Room(client, s2)
  <2>1. client.round.id = 0
    BY <1>1, <1>4 DEF Local, RoundWhole
  <2>2. client.round.id = s2.round => s2.phase = "Selecting"
    BY <1>7, <2>1 DEF ServerWhole
  <2>3. ~Engaged(s2)
    BY <1>6 DEF Engaged
  <2>4. QED
    BY <1>1, <1>6, <2>2, <2>3 DEF Room
<1>9. "RoomSnapshot" \in MessageType
  BY DEF MessageType
<1>10. /\ m \in Messages /\ m.type = "RoomSnapshot"
       /\ m.round = ServerRound(server) /\ m.terminal = server.terminal
  BY <1>1, <1>2, <1>9, MessageIs
<1>11. m.round = ServerRound(s2)
  <2>1. ServerRound(s2) = ServerRound(server)
    <3>1. s2.mine = server.mine
      BY <1>1, <1>3 DEF Server
    <3>2. QED
      BY <1>6, <3>1 DEF ServerRound
  <2>2. QED
    BY <1>10, <2>1
<1>12. InvOf(client, s2, <<m>>, "Up")
  BY <1>1, <1>4, <1>5, <1>6, <1>7, <1>8, <1>10, <1>11, SnapshotInv
<1>13. QED
  BY <1>4, <1>12 DEF RInvNext

\* The session is back on its seat; the snapshot comes first.
LEMMA ResumeStep ==
    ASSUME RInv, Resume
    PROVE  RInvNext
<1>1. /\ client \in Session /\ server \in Server /\ Local(client)
      /\ ServerWhole(server) /\ Room(client, server)
  BY RInvParts
<1>2. PICK m : m = Message(server, "RoomSnapshot")
  OBVIOUS
<1>3. /\ client.state = "Reconnecting" /\ server.member
      /\ server' = server /\ inbox' = <<m>> \o PhaseRequest(server)
      /\ link' = "Up" /\ client' = client
  BY <1>2 DEF Resume
<1>4. "RoomSnapshot" \in MessageType
  BY DEF MessageType
<1>5. /\ m \in Messages /\ m.type = "RoomSnapshot"
      /\ m.round = ServerRound(server) /\ m.terminal = server.terminal
  BY <1>1, <1>2, <1>4, MessageIs
<1>6. InvOf(client, server, <<m>>, "Up")
  BY <1>1, <1>3, <1>5, SnapshotInv
<1>7. CASE PhaseRequest(server) = <<>>
  <2>1. inbox' = <<m>>
    BY <1>3, <1>5, <1>7
  <2>2. QED
    BY <1>3, <1>6, <2>1 DEF RInvNext
<1>8. CASE PhaseRequest(server) # <<>>
  <2>1. PICK type \in {"ProbeRequested", "LoadRequested", "StartScheduled"} :
          /\ PhaseRequest(server) = <<Message(server, type)>>
          /\ type = "LoadRequested" => server.phase = "Loading"
          /\ type = "StartScheduled" => server.phase = "Scheduled"
    BY <1>1, <1>8 DEF PhaseRequest
  <2>2. PICK b : b = Message(server, type)
    OBVIOUS
  <2>3. type \in MessageType
    BY DEF MessageType
  <2>4. /\ b \in Messages /\ b.type = type
        /\ b.round = ServerRound(server) /\ b.terminal = server.terminal
    BY <1>1, <2>2, <2>3, MessageIs
  <2>5. Spoken(server, b) /\ ~Settles(b)
    BY <2>1, <2>4 DEF Spoken, Settles
  <2>6. PICK r : r = <<m>>
    OBVIOUS
  <2>7. r \in Seq(Messages)
    BY <1>5, <2>6
  <2>8. Queue(client, server, r)
    BY <1>6, <2>6 DEF InvOf
  <2>9. b.type \notin {"Finalized", "LaunchCancelled", "Removed"}
    BY <2>4
  <2>10. /\ Fits(client, server, b)
         /\ \A i \in 1..Len(r) : Ordered(client, r[i], b)
    BY <1>1, <2>4, <2>5, <2>7, <2>8, <2>9, SpokenNow
  <2>11. Before(b) = ServerRound(server).id /\ After(b) = ServerRound(server).id
    BY <2>4, <2>9 DEF Before, After
  <2>12. PICK lk : lk = "Up"
    OBVIOUS
  <2>13. lk # "Down" /\ InvOf(client, server, r, lk)
    BY <1>6, <2>6, <2>12
  <2>14. InvOf(client, server, r \o <<b>>, lk)
    BY <1>1, <2>4, <2>7, <2>8, <2>10, <2>11, <2>13, SayInv
  <2>15. inbox' = r \o <<b>> /\ link' = lk
    BY <1>3, <2>1, <2>2, <2>6, <2>12
  <2>16. QED
    BY <1>3, <2>14, <2>15 DEF RInvNext
<1>9. QED
  BY <1>7, <1>8

\* The link is noticed to be down.
LEMMA CutStep ==
    ASSUME RInv, Cut
    PROVE  RInvNext /\ client' \in Session /\ RunningKept(client, client')
<1>1. /\ client \in Session /\ server \in Server /\ Local(client)
      /\ client.out = Silent
      /\ ServerWhole(server) /\ Room(client, server)
  BY RInvParts
<1>2. PICK u : u = BeginReconnect(client)
  OBVIOUS
<1>3. /\ client.state = "InRoom" /\ client' = u
      /\ inbox' = <<>> /\ link' = "Down" /\ server' = server
  BY <1>2 DEF Cut
<1>4. /\ u \in Session /\ Local(u) /\ Stay(client, u) /\ RunningKept(client, u)
      /\ u.state = "Reconnecting" /\ u.round = client.round
  BY <1>1, <1>2, <1>3, BeginReconnectSound
<1>5. InvOf(u, server, <<>>, "Down")
  BY <1>1, <1>4, ReconnectInv
<1>6. QED
  BY <1>3, <1>4, <1>5 DEF RInvNext

\* The grace period is over.
LEMMA SeatLostStep ==
    ASSUME RInv, SeatLost
    PROVE  RInvNext /\ client' \in Session /\ RunningKept(client, client')
<1>1. /\ client \in Session /\ server \in Server /\ Local(client)
      /\ client.out = Silent
      /\ ServerWhole(server) /\ Room(client, server)
      /\ link = "Down" => inbox = <<>>
  BY RInvParts
<1>2. PICK u : u = ClearRoom(client)
  OBVIOUS
<1>3. PICK s2 : s2 = Unseated(server)
  OBVIOUS
<1>4. /\ client' = u /\ server' = s2 /\ inbox' = <<>> /\ link' = "Down"
  BY <1>1, <1>2, <1>3 DEF SeatLost
<1>5. u \in Session
  BY <1>1, <1>2, ClearRoomType
<1>6. /\ Local(u) /\ RunningKept(client, u) /\ Free(u)
      /\ u.state = "Out" /\ u.retained = client.retained
  BY <1>1, <1>2, ClearRoomSound
<1>7. /\ s2 \in Server /\ ServerWhole(s2) /\ s2.mine = FALSE
      /\ s2.phase = server.phase
  BY <1>1, <1>3, UnseatedIs
<1>8. u.retained # 0 => s2.phase = "Selecting" \/ ~s2.mine
  BY <1>1, <1>6, <1>7 DEF Room
<1>9. InvOf(u, s2, <<>>, "Down")
  BY <1>5, <1>6, <1>7, <1>8, LeaveInv
<1>10. QED
  BY <1>4, <1>5, <1>6, <1>9 DEF RInvNext

-----------------------------------------------------------------------------
(* What the session sends is heard.                                        *)

\* What the session has sent is off its hands.
Muted(u) == [u EXCEPT !.out = Silent]

\* It keeps the invariant.
LEMMA MuteInv ==
    ASSUME NEW u \in Session, NEW sv \in Server, NEW q \in Seq(Messages),
           NEW lk, InvOf(u, sv, q, lk)
    PROVE  Muted(u) \in Session /\ InvOf(Muted(u), sv, q, lk)
<1>1. PICK v : v = Muted(u)
  OBVIOUS
<1>2. v \in Session
  BY <1>1, SentType, ClientIsSession DEF Muted
<1>3. KeepsRest(u, v) /\ KeepsScreens(u, v) /\ v.ops = u.ops
  <2>1. v.screens = u.screens /\ v.ops = u.ops
    BY <1>1 DEF Muted, Session
  <2>2. KeepsRest(u, v)
    BY <1>1 DEF Muted, Session, KeepsRest, KeepsSeat, KeepsVerdict,
                KeepsRetained, KeepsRequest, KeepsPlay
  <2>3. KeepsScreens(u, v)
    BY <2>1 DEF KeepsScreens, HasScreen
  <2>4. QED
    BY <2>1, <2>2, <2>3
<1>4. Local(u)
  BY DEF InvOf
<1>5. Local(v) /\ Stay(u, v)
  BY <1>2, <1>3, <1>4, SameSound
<1>6. v.state = u.state /\ v.round = u.round
  BY <1>3 DEF KeepsRest, KeepsSeat
<1>7. InvOf(v, sv, q, lk)
  BY <1>2, <1>5, <1>6, StayInv
<1>8. QED
  BY <1>1, <1>2, <1>7

\* The server has kept a terminal message, and perhaps settled the player.
Keeps(sv, s2, t) ==
    /\ s2.phase = sv.phase
    /\ s2.round = sv.round
    /\ s2.member = sv.member
    /\ s2.mine = sv.mine
    /\ s2.probed = sv.probed
    /\ s2.loaded = sv.loaded
    /\ s2.heard = sv.heard \cup {t}
    /\ \/ s2.terminal = sv.terminal
       \/ /\ sv.phase # "Selecting"
          /\ sv.round = t.round
          /\ s2.terminal = t.kind

LEMMA TerminalFits ==
    ASSUME NEW u \in Session, Local(u), OutFits(u), u.out.type = "Terminal"
    PROVE  LET t == u.out.terminal
           IN  /\ u.terminal = t /\ t.kind \in {"Result", "Dnf"}
               /\ t \in Terminal
               /\ t.kind = "Result" => u.round.stage = "Playing"
               /\ t.kind = "Result" => t.chart = t.round
               /\ t.round = u.round.id /\ u.round.id # 0
               /\ u.submitted /\ u.round.mine
               /\ u.round.stage \in {"Loading", "Scheduled", "Playing"}
<1>1. PICK t : t = u.out.terminal
  OBVIOUS
<1>2. u.terminal = t /\ t.kind # "None"
      /\ (u.round.stage = "Playing" \/ t.kind = "Dnf")
  BY <1>1 DEF OutFits
<1>3. t \in Terminal /\ t.kind \in TerminalKind
  BY <1>2 DEF Session, Terminal
<1>4. /\ u.submitted /\ u.round.mine /\ t.round = u.round.id
      /\ t.kind = "Result" => t.chart = t.round
      /\ u.round.stage # "Probing"
  BY <1>2 DEF Local, RoundWhole
<1>5. u.round.id # 0
  <2>1. NoRound.mine = FALSE
    BY DEF NoRound
  <2>2. QED
    BY <1>4, <2>1 DEF Local, RoundWhole, WholeRound
<1>6. u.round.stage \in {"Loading", "Scheduled", "Playing"}
  <2>1. u.round.stage \in Stage
    BY DEF Session
  <2>2. u.round.stage # "None"
    BY <1>5 DEF Local, RoundWhole, WholeRound
  <2>3. QED
    BY <1>4, <2>1, <2>2 DEF Stage
<1>7. QED
  BY <1>1, <1>2, <1>3, <1>4, <1>5, <1>6 DEF TerminalKind

LEMMA KeepsWhole ==
    ASSUME NEW u \in Session, Local(u), OutFits(u), u.out.type = "Terminal",
           NEW sv \in Server, NEW s2 \in Server, ServerWhole(sv), Room(u, sv),
           Keeps(sv, s2, u.out.terminal)
    PROVE  ServerWhole(s2) /\ Room(u, s2)
<1>1. PICK t : t = u.out.terminal
  OBVIOUS
<1>2. /\ u.terminal = t /\ t.kind \in {"Result", "Dnf"}
      /\ t.kind = "Result" => u.round.stage = "Playing"
      /\ t.kind = "Result" => t.chart = t.round
      /\ t.round = u.round.id /\ u.round.id # 0
      /\ u.submitted /\ u.round.mine
      /\ u.round.stage \in {"Loading", "Scheduled", "Playing"}
  BY <1>1, TerminalFits
<1>3. Keeps(sv, s2, t)
  BY <1>1
<1>4. s2.terminal # sv.terminal =>
        /\ sv.phase \notin {"Selecting", "Probing"} /\ sv.round = u.round.id
        /\ s2.terminal = t.kind
        /\ t.kind = "Result" => sv.phase = "Playing"
  <2>1. SUFFICES ASSUME s2.terminal # sv.terminal
                 PROVE  /\ sv.phase \notin {"Selecting", "Probing"}
                        /\ sv.round = u.round.id
                        /\ s2.terminal = t.kind
                        /\ t.kind = "Result" => sv.phase = "Playing"
    OBVIOUS
  <2>2. sv.phase # "Selecting" /\ sv.round = u.round.id /\ s2.terminal = t.kind
    BY <1>2, <1>3, <2>1 DEF Keeps
  <2>3. Rank(u.round.stage) <= Rank(sv.phase)
    BY <2>2 DEF Room
  <2>4. sv.phase \in Stage /\ sv.phase # "None"
    BY <2>2 DEF Server, Stage
  <2>5. sv.phase # "Probing"
    BY <1>2, <2>3 DEF Rank
  <2>6. t.kind = "Result" => sv.phase = "Playing"
    BY <1>2, <2>3, <2>4 DEF Rank, Stage
  <2>7. QED
    BY <2>2, <2>5, <2>6
<1>5. ServerWhole(s2)
  <2>1. /\ s2.mine => s2.member
        /\ s2.round = 0 => s2.phase = "Selecting"
    BY <1>3 DEF ServerWhole, Keeps
  <2>2. s2.phase = "Probing" => ~s2.loaded /\ s2.terminal = "None"
    BY <1>3, <1>4 DEF ServerWhole, Keeps
  <2>3. s2.terminal = "Result" => s2.phase \in {"Playing", "Selecting"}
    BY <1>3, <1>4 DEF ServerWhole, Keeps
  <2>4. \A x \in s2.heard : x.round <= s2.round
    BY <1>2, <1>3 DEF ServerWhole, Keeps, Room
  <2>5. \A x \in sv.heard : x.round = t.round => x = t
    BY <1>2 DEF Room
  <2>6. \A a, b \in s2.heard : a.round = b.round => a = b
    BY <1>3, <2>5 DEF ServerWhole, Keeps
  <2>7. \A x \in s2.heard : x.kind = "Result" => x.chart = x.round
    BY <1>2, <1>3 DEF ServerWhole, Keeps
  <2>8. QED
    BY <2>1, <2>2, <2>3, <2>4, <2>6, <2>7 DEF ServerWhole
<1>6. Room(u, s2)
  <2>1. /\ u.round.id <= s2.round
        /\ u.round.id = s2.round /\ s2.phase # "Selecting" =>
             /\ Rank(u.round.stage) <= Rank(s2.phase)
             /\ s2.member => u.round.mine = s2.mine
    BY <1>3 DEF Room, Keeps
  <2>2. Engaged(s2) => u.round.id = s2.round
    <3>1. SUFFICES ASSUME Engaged(s2), ~Engaged(sv)
                   PROVE  u.round.id = s2.round
      BY <1>3 DEF Room, Keeps
    <3>2. \E x \in s2.heard : x.round = sv.round /\ x \notin sv.heard
      BY <1>3, <3>1 DEF Engaged, Keeps
    <3>3. QED
      BY <1>2, <1>3, <3>2 DEF Keeps
  <2>3. /\ s2.mine
        /\ \/ s2.phase = "Loading" /\ s2.loaded
           \/ s2.phase \in {"Scheduled", "Playing"}
        => Fit(u)
    BY <1>3 DEF Room, Keeps
  <2>4. s2.mine /\ s2.phase \in {"Loading", "Scheduled"} /\ s2.terminal # "None" =>
          u.submitted
    BY <1>2
  <2>5. s2.mine /\ s2.phase # "Selecting" /\ s2.terminal = "Result" =>
          u.round.stage = "Playing"
    BY <1>2, <1>3, <1>4 DEF Room, Keeps
  <2>6. \A x \in s2.heard : u.round.mine /\ x.round = u.round.id =>
          /\ u.submitted
          /\ u.terminal.kind # "None" => u.terminal = x
    BY <1>2, <1>3 DEF Room, Keeps
  <2>7. u.retained # 0 => s2.phase = "Selecting" \/ ~s2.mine
    BY <1>3 DEF Room, Keeps
  <2>8. QED
    BY <2>1, <2>2, <2>3, <2>4, <2>5, <2>6, <2>7 DEF Room
<1>7. QED
  BY <1>5, <1>6

\* One more word in a round that stays as it is.
LEMMA WordInv ==
    ASSUME NEW w \in Session, NEW sv \in Server, NEW s2 \in Server,
           NEW q \in Seq(Messages), NEW lk, InvOf(w, sv, q, lk), lk # "Down",
           ServerWhole(s2), Room(w, s2), Queue(w, s2, q),
           s2.round = sv.round, s2.member = sv.member, s2.mine = sv.mine,
           s2.phase = sv.phase,
           NEW m \in Messages, Spoken(s2, m),
           m.type \in {"Accepted", "Refused", "Standings"},
           Settles(m) => /\ w.round.id = m.round.id
                         /\ Quiet(w)
                         /\ m.terminal = "Result" => w.round.stage = "Playing"
    PROVE  InvOf(w, s2, q \o <<m>>, lk)
<1>1. Local(w)
  BY DEF InvOf
<1>2. m.type \notin {"Finalized", "LaunchCancelled", "Removed"}
  OBVIOUS
<1>3. /\ Fits(w, s2, m)
      /\ \A i \in 1..Len(q) : Ordered(w, q[i], m)
  BY <1>1, <1>2, SpokenNow
<1>4. Before(m) = ServerRound(sv).id /\ After(m) = ServerRound(s2).id
  BY DEF Before, After, Spoken, ServerRound
<1>5. QED
  BY <1>3, <1>4, SayInv

LEMMA KeepsQueue ==
    ASSUME NEW w \in Session, NEW sv \in Server, NEW s2 \in Server,
           NEW q \in Seq(Messages), Queue(w, sv, q), NEW t, Keeps(sv, s2, t),
           t.round = w.round.id
    PROVE  Queue(w, s2, q)
<1>1. s2.phase # "Selecting" => Rank(sv.phase) <= Rank(s2.phase)
  <2>1. s2.phase # "Selecting" => s2.phase \in Stage
    BY DEF Server, Stage
  <2>2. s2.phase # "Selecting" => Rank(s2.phase) \in 0..4
    BY <2>1, RankNat
  <2>3. QED
    BY <2>2 DEF Keeps
<1>2. \A x \in s2.heard : x \in sv.heard \/ x.round = w.round.id
  BY DEF Keeps
<1>3. QED
  BY <1>1, <1>2, QueueServer DEF Keeps

\* The invariant when the room has heard what the session sends.
HeardInv(u, sv, q, lk, accepts) ==
    InvOf(u, Hear(sv, u.out, accepts).server,
          q \o Hear(sv, u.out, accepts).says, lk)

LEMMA TwoSaid ==
    ASSUME NEW q \in Seq(Messages), NEW a \in Messages, NEW b \in Messages
    PROVE  q \o <<a, b>> = (q \o <<a>>) \o <<b>>
<1>1. <<a, b>> = <<a>> \o <<b>>
  <2>1. PICK s : s = <<a, b>>
    OBVIOUS
  <2>2. PICK r : r = <<a>> \o <<b>>
    OBVIOUS
  <2>3. s \in Seq(Messages) /\ Len(s) = 2 /\ s[1] = a /\ s[2] = b
    BY <2>1
  <2>4. r \in Seq(Messages) /\ Len(r) = 2 /\ r[1] = a /\ r[2] = b
    BY <2>2, AppendIs, <<a>> \in Seq(Messages), Len(<<a>>) = 1
  <2>5. \A i \in 1..Len(s) : s[i] = r[i]
    BY <2>3, <2>4
  <2>6. s = r
    BY ONLY <2>3, <2>4, <2>5, SeqEqual
  <2>7. QED
    BY <2>1, <2>2, <2>6
<1>2. q \o (<<a>> \o <<b>>) = (q \o <<a>>) \o <<b>>
  OBVIOUS
<1>3. QED
  BY <1>1, <1>2

\* What is heard, its two fields named.
LEMMA HeardIs ==
    ASSUME NEW u, NEW sv, NEW q, NEW lk, NEW accepts, NEW s2, NEW says,
           Hear(sv, u.out, accepts) = [server |-> s2, says |-> says],
           InvOf(u, s2, q \o says, lk)
    PROVE  HeardInv(u, sv, q, lk, accepts)
  BY DEF HeardInv

\* A terminal is heard, taken or refused.
LEMMA HearTerminalInv ==
    ASSUME NEW u \in Session, NEW sv \in Server, NEW q \in Seq(Messages),
           NEW lk, InvOf(u, sv, q, lk), lk # "Down", OutFits(u),
           u.out.type = "Terminal", NEW accepts \in BOOLEAN
    PROVE  HeardInv(u, sv, q, lk, accepts)
<1>1. /\ Local(u) /\ ServerWhole(sv) /\ Room(u, sv) /\ Queue(u, sv, q)
  BY DEF InvOf
<1>2. PICK a : a = u.out
  OBVIOUS
<1>3. PICK t : t = a.terminal
  OBVIOUS
<1>4. /\ u.terminal = t /\ t.kind \in {"Result", "Dnf"}
      /\ t \in Terminal
      /\ t.kind = "Result" => u.round.stage = "Playing"
      /\ t.round = u.round.id /\ u.round.id # 0
      /\ u.submitted
  BY <1>1, <1>2, <1>3, TerminalFits
<1>5. t.id \in Nat /\ t.kind \in TerminalKind
  BY <1>4 DEF Terminal
<1>6. PICK taken \in BOOLEAN :
        taken = (/\ sv.phase # "Selecting" /\ sv.round = t.round
                 /\ sv.terminal = "None" /\ accepts)
  OBVIOUS
<1>7. PICK stale \in BOOLEAN :
        stale = (\/ ~(sv.phase # "Selecting" /\ sv.round = t.round)
                 \/ sv.terminal # "None")
  OBVIOUS
<1>8. PICK told : told = [sv EXCEPT !.heard = @ \cup {t}]
  OBVIOUS
<1>9. PICK heard : heard = [told EXCEPT !.terminal = t.kind]
  OBVIOUS
<1>10. told \in Server /\ heard \in Server
  BY <1>4, <1>8, <1>9, HearTerminalType
<1>11. /\ Keeps(sv, told, t) /\ told.terminal = sv.terminal
       /\ taken => Keeps(sv, heard, t) /\ heard.terminal = t.kind
  BY <1>6, <1>8, <1>9, <1>10 DEF Keeps, Server
<1>12. PICK yes : yes = [Message(heard, "Accepted") EXCEPT !.id = t.id]
  OBVIOUS
<1>13. PICK then : then = Message(heard, "Standings")
  OBVIOUS
<1>14. PICK no : no = [Message(sv, "Refused") EXCEPT !.id = t.id,
                                                     !.stale = stale]
  OBVIOUS
<1>15. Hear(sv, a, accepts)
         = IF taken THEN [server |-> heard, says |-> <<yes, then>>]
                    ELSE [server |-> told, says |-> <<no>>]
  BY <1>2, <1>3, <1>6, <1>7, <1>8, <1>9, <1>12, <1>13, <1>14 DEF Hear
<1>16. /\ "Accepted" \in MessageType /\ "Standings" \in MessageType
       /\ "Refused" \in MessageType
  BY DEF MessageType
<1>17. /\ yes \in Messages /\ yes.type = "Accepted"
       /\ yes.round = ServerRound(heard) /\ yes.terminal = heard.terminal
  <2>1. yes \in Messages
    BY <1>5, <1>10, <1>12, <1>16, MessageTyped
  <2>2. QED
    BY <1>12, <2>1 DEF Message
<1>18. /\ then \in Messages /\ then.type = "Standings"
       /\ then.round = ServerRound(heard) /\ then.terminal = heard.terminal
  BY <1>10, <1>13, <1>16, MessageIs
<1>19. /\ no \in Messages /\ no.type = "Refused"
       /\ no.round = ServerRound(sv) /\ no.terminal = sv.terminal
  <2>1. no \in Messages
    BY <1>5, <1>14, <1>16, MessageTyped
  <2>2. QED
    BY <1>14, <2>1 DEF Message
<1>20. ASSUME taken
       PROVE  HeardInv(u, sv, q, lk, accepts)
  <2>1. Keeps(sv, heard, t)
    BY <1>11, <1>20
  <2>2. ServerWhole(heard) /\ Room(u, heard)
    BY <1>1, <1>2, <1>3, <1>10, <2>1, KeepsWhole
  <2>3. Queue(u, heard, q)
    BY <1>1, <1>4, <1>10, <2>1, KeepsQueue
  <2>4. Spoken(heard, yes) /\ ~Settles(yes) /\ Spoken(heard, then)
    BY <1>17, <1>18 DEF Spoken, Settles
  <2>5. PICK r : r = q \o <<yes>>
    OBVIOUS
  <2>6. InvOf(u, heard, r, lk)
    BY <1>10, <1>17, <2>1, <2>2, <2>3, <2>4, <2>5, WordInv DEF Keeps
  <2>7. r \in Seq(Messages)
    BY <1>17, <2>5, AppendIs
  <2>8. Queue(u, heard, r)
    BY <2>6 DEF InvOf
  <2>9. /\ u.round.id = then.round.id
        /\ Quiet(u)
        /\ then.terminal = "Result" => u.round.stage = "Playing"
    <3>1. then.round.id = heard.round /\ heard.round = t.round
      BY <1>6, <1>10, <1>18, <1>20, <2>1, <2>2, ServerRoundIs DEF Keeps
    <3>2. then.terminal = t.kind
      BY <1>11, <1>18, <1>20
    <3>3. QED
      BY <1>4, <3>1, <3>2 DEF Quiet
  <2>10. InvOf(u, heard, r \o <<then>>, lk)
    BY <1>10, <1>18, <2>2, <2>4, <2>6, <2>7, <2>8, <2>9, WordInv
  <2>11. q \o <<yes, then>> = r \o <<then>>
    BY <1>17, <1>18, <2>5, TwoSaid
  <2>12. Hear(sv, u.out, accepts) = [server |-> heard, says |-> <<yes, then>>]
    BY <1>2, <1>15, <1>20
  <2>13. InvOf(u, heard, q \o <<yes, then>>, lk)
    BY <2>10, <2>11
  <2>14. QED
    BY <2>12, <2>13, HeardIs
<1>21. ASSUME ~taken
       PROVE  HeardInv(u, sv, q, lk, accepts)
  <2>1. Keeps(sv, told, t)
    BY <1>11
  <2>2. ServerWhole(told) /\ Room(u, told)
    BY <1>1, <1>2, <1>3, <1>10, <2>1, KeepsWhole
  <2>3. Queue(u, told, q)
    BY <1>1, <1>4, <1>10, <2>1, KeepsQueue
  <2>4. Spoken(told, no) /\ ~Settles(no)
    BY <1>11, <1>19, <2>1 DEF Spoken, Settles, ServerRound, Keeps
  <2>5. InvOf(u, told, q \o <<no>>, lk)
    BY <1>10, <1>19, <2>1, <2>2, <2>3, <2>4, WordInv DEF Keeps
  <2>6. Hear(sv, u.out, accepts) = [server |-> told, says |-> <<no>>]
    BY <1>2, <1>15, <1>21
  <2>7. QED
    BY <2>5, <2>6, HeardIs
<1>22. QED
  BY <1>20, <1>21

\* The server notes an answer to the request of its phase.
LEMMA NotesInv ==
    ASSUME NEW u \in Session, NEW sv \in Server, NEW s2 \in Server,
           NEW q \in Seq(Messages), NEW lk, InvOf(u, sv, q, lk),
           s2.phase = sv.phase, s2.round = sv.round,
           s2.member = sv.member, s2.mine = sv.mine, s2.heard = sv.heard,
           s2.terminal = sv.terminal,
           u.round.id = sv.round,
           \/ s2.loaded = sv.loaded
           \/ sv.phase = "Loading" /\ Fit(u)
    PROVE  InvOf(u, s2, q, lk)
<1>1. /\ Local(u) /\ ServerWhole(sv) /\ Room(u, sv) /\ Queue(u, sv, q)
  BY DEF InvOf
<1>2. ServerWhole(s2)
  BY <1>1 DEF ServerWhole
<1>3. Room(u, s2)
  BY <1>1 DEF Room
<1>4. Queue(u, s2, q)
  <2>1. s2.phase # "Selecting" => Rank(sv.phase) <= Rank(s2.phase)
    <3>1. s2.phase # "Selecting" => s2.phase \in Stage
      BY DEF Server, Stage
    <3>2. s2.phase # "Selecting" => Rank(s2.phase) \in 0..4
      BY <3>1, RankNat
    <3>3. QED
      BY <3>2
  <2>2. QED
    BY <1>1, <2>1, QueueServer
<1>5. ServerRound(s2) = ServerRound(sv)
  BY DEF ServerRound
<1>6. QED
  BY <1>2, <1>3, <1>4, <1>5, SilenceInv

\* An answer to a request of the server is heard, or comes too late.
LEMMA HearAnswerInv ==
    ASSUME NEW u \in Session, NEW sv \in Server, NEW q \in Seq(Messages),
           NEW lk, InvOf(u, sv, q, lk), lk # "Down", OutFits(u),
           u.out.type # "Terminal", NEW accepts \in BOOLEAN
    PROVE  HeardInv(u, sv, q, lk, accepts)
<1>1. PICK a : a = u.out
  OBVIOUS
<1>2. q \o <<>> = q
  OBVIOUS
<1>3. sv.phase \in {"Probing", "Loading"} =>
        InvOf(u, Cancelled(sv), q \o <<Message(sv, "LaunchCancelled")>>, lk)
  BY CancelInv
<1>4. CASE a.type = "ProbeResult" /\ sv.phase = "Probing" /\ sv.round = a.round
  <2>1. CASE a.ok
    <3>1. PICK s2 : s2 = [sv EXCEPT !.probed = TRUE]
      OBVIOUS
    <3>2. s2 \in Server
      BY <3>1 DEF Server
    <3>3. /\ s2.phase = sv.phase /\ s2.round = sv.round
          /\ s2.member = sv.member /\ s2.mine = sv.mine /\ s2.heard = sv.heard
          /\ s2.terminal = sv.terminal /\ s2.loaded = sv.loaded
      BY <3>1 DEF Server
    <3>4. u.round.id = sv.round
      BY <1>1, <1>4 DEF OutFits
    <3>5. InvOf(u, s2, q, lk)
      BY <3>2, <3>3, <3>4, NotesInv
    <3>6. Hear(sv, a, accepts) = [server |-> s2, says |-> <<>>]
      BY <1>4, <2>1, <3>1 DEF Hear
    <3>7. QED
      BY <1>1, <1>2, <3>5, <3>6 DEF HeardInv
  <2>2. CASE ~a.ok
    <3>1. Hear(sv, a, accepts)
            = [server |-> Cancelled(sv),
               says |-> <<Message(sv, "LaunchCancelled")>>]
      BY <1>4, <2>2 DEF Hear
    <3>2. QED
      BY <1>1, <1>3, <1>4, <3>1 DEF HeardInv
  <2>3. QED
    BY <2>1, <2>2
<1>5. CASE a.type = "LoadResult" /\ sv.phase = "Loading" /\ sv.round = a.round
  <2>1. CASE a.ok
    <3>1. PICK s2 : s2 = [sv EXCEPT !.loaded = TRUE]
      OBVIOUS
    <3>2. s2 \in Server
      BY <3>1 DEF Server
    <3>3. /\ s2.phase = sv.phase /\ s2.round = sv.round
          /\ s2.member = sv.member /\ s2.mine = sv.mine /\ s2.heard = sv.heard
          /\ s2.terminal = sv.terminal
      BY <3>1 DEF Server
    <3>4. u.round.id = sv.round /\ Fit(u)
      BY <1>1, <1>5, <2>1 DEF OutFits, Fit
    <3>5. InvOf(u, s2, q, lk)
      BY <1>5, <3>2, <3>3, <3>4, NotesInv
    <3>6. Hear(sv, a, accepts) = [server |-> s2, says |-> <<>>]
      BY <1>5, <2>1, <3>1 DEF Hear
    <3>7. QED
      BY <1>1, <1>2, <3>5, <3>6 DEF HeardInv
  <2>2. CASE ~a.ok
    <3>1. Hear(sv, a, accepts)
            = [server |-> Cancelled(sv),
               says |-> <<Message(sv, "LaunchCancelled")>>]
      BY <1>5, <2>2 DEF Hear
    <3>2. QED
      BY <1>1, <1>3, <1>5, <3>1 DEF HeardInv
  <2>3. QED
    BY <2>1, <2>2
<1>6. CASE /\ ~(a.type = "ProbeResult" /\ sv.phase = "Probing" /\ sv.round = a.round)
           /\ ~(a.type = "LoadResult" /\ sv.phase = "Loading" /\ sv.round = a.round)
  <2>1. Hear(sv, a, accepts) = [server |-> sv, says |-> <<>>]
    BY <1>1, <1>6 DEF Hear
  <2>2. QED
    BY <1>1, <1>2, <2>1 DEF HeardInv
<1>7. QED
  BY <1>4, <1>5, <1>6

\* Whatever the session sends and the server hears of it.
LEMMA HearInv ==
    ASSUME NEW u \in Session, NEW sv \in Server, NEW q \in Seq(Messages),
           NEW lk, InvOf(u, sv, q, lk), lk # "Down", OutFits(u),
           NEW accepts \in BOOLEAN
    PROVE  HeardInv(u, sv, q, lk, accepts)
BY HearTerminalInv, HearAnswerInv

-----------------------------------------------------------------------------
(* The actions of the session.                                             *)

\* A link that breaks unnoticed changes nothing the session or the room knows.
LEMMA DoomInv ==
    ASSUME NEW u, NEW sv, NEW q, NEW lk, InvOf(u, sv, q, lk), lk # "Down"
    PROVE  InvOf(u, sv, q, "Doomed")
<1>1. PICK l2 : l2 = "Doomed"
  OBVIOUS
<1>2. l2 # "Down"
  BY <1>1
<1>3. InvOf(u, sv, q, l2)
  BY <1>2 DEF InvOf, Linked, Told, ToldPlay
<1>4. QED
  BY <1>1, <1>3

\* Where a step of the session's code ends, before what it sends is on its way.
Arrives(u, rest) ==
    IF u.state # "InRoom" /\ u.state # client.state
      THEN InvOf(u, server, <<>>, "Down")
      ELSE OutFits(u) /\ InvOf(u, server, rest, link)

\* A step of the code of the session, sent, lost with the link, or silent.
LEMMA BecomesInv ==
    ASSUME RInv, NEW u \in Session,
           NEW rest \in Seq(Messages), Becomes(u, rest), Arrives(u, rest)
    PROVE  RInvNext /\ client' = Muted(u)
<1>1. client' = Muted(u)
  BY DEF Becomes, Muted
<1>2. /\ client \in Session /\ server \in Server /\ inbox \in Seq(Messages)
      /\ u.out \in Answer
  BY RInvParts DEF Session
<1>3. ASSUME u.state # "InRoom", u.state # client.state
      PROVE  RInvNext
  <2>1. /\ server' = server /\ inbox' = <<>> /\ link' = "Down"
        /\ InvOf(u, server, <<>>, "Down")
    BY <1>3 DEF Becomes, Arrives
  <2>2. PICK lk : lk = "Down"
    OBVIOUS
  <2>3. PICK q : q = <<>>
    OBVIOUS
  <2>4. q \in Seq(Messages)
    BY <2>3
  <2>5. InvOf(u, server, q, lk)
    BY <2>1, <2>2, <2>3
  <2>6. InvOf(Muted(u), server, q, lk)
    BY <1>2, <2>4, <2>5, MuteInv
  <2>7. QED
    BY <1>1, <2>1, <2>2, <2>3, <2>6 DEF RInvNext
<1>4. ASSUME ~(u.state # "InRoom" /\ u.state # client.state)
      PROVE  RInvNext
  <2>1. InvOf(u, server, rest, link) /\ OutFits(u)
    BY <1>4 DEF Arrives
  <2>2. CASE u.state # "InRoom" \/ u.out = Silent
    <3>1. server' = server /\ inbox' = rest /\ link' = link
      BY <1>4, <2>2 DEF Becomes
    <3>2. InvOf(Muted(u), server, rest, link)
      BY <1>2, <2>1, MuteInv
    <3>3. QED
      BY <1>1, <3>1, <3>2 DEF RInvNext
  <2>3. CASE ~(u.state # "InRoom" \/ u.out = Silent)
    <3>1. link # "Down"
      BY <2>1, <2>3 DEF InvOf, Linked
    <3>2. \/ \E accepts \in BOOLEAN :
               /\ server' = Hear(server, u.out, accepts).server
               /\ inbox' = rest \o Hear(server, u.out, accepts).says
               /\ link' = link
          \/ server' = server /\ inbox' = rest /\ link' = "Doomed"
      BY <1>4, <2>3 DEF Becomes
    <3>3. CASE server' = server /\ inbox' = rest /\ link' = "Doomed"
      <4>1. InvOf(Muted(u), server, rest, link)
        BY <1>2, <2>1, MuteInv
      <4>2. InvOf(Muted(u), server, rest, "Doomed")
        BY <3>1, <4>1, DoomInv
      <4>3. QED
        BY <1>1, <3>3, <4>2 DEF RInvNext
    <3>4. ASSUME NEW accepts \in BOOLEAN,
                 server' = Hear(server, u.out, accepts).server,
                 inbox' = rest \o Hear(server, u.out, accepts).says,
                 link' = link
          PROVE  RInvNext
      <4>1. HeardInv(u, server, rest, link, accepts)
        BY <1>2, <2>1, <3>1, HearInv
      <4>2. PICK s2 : s2 = server'
        OBVIOUS
      <4>3. PICK q2 : q2 = inbox'
        OBVIOUS
      <4>4. InvOf(u, s2, q2, link)
        BY <3>4, <4>1, <4>2, <4>3 DEF HeardInv
      <4>5. s2 \in Server /\ q2 \in Seq(Messages)
        BY <1>2, <3>4, <4>2, <4>3, HearType, SeqOfMessages
      <4>6. InvOf(Muted(u), s2, q2, link)
        BY <4>4, <4>5, MuteInv
      <4>7. QED
        BY <1>1, <3>4, <4>2, <4>3, <4>6 DEF RInvNext
    <3>5. QED
      BY <3>2, <3>3, <3>4
  <2>4. QED
    BY <2>2, <2>3
<1>5. QED
  BY <1>1, <1>3, <1>4

\* Of the player, the screens and the loader.
LEMMA MovesInv ==
    ASSUME RInv, NEW u \in Session, Moves(u), Steps(client, u),
           u.round = client.round
    PROVE  RInvNext /\ client' = Muted(u)
<1>1. /\ client \in Session /\ server \in Server /\ inbox \in Seq(Messages)
      /\ InvOf(client, server, inbox, link)
  BY RInvParts
<1>2. InvOf(u, server, inbox, link)
  BY <1>1, StayInv DEF Steps
<1>3. Arrives(u, inbox)
  BY <1>2 DEF Arrives, Steps
<1>4. QED
  BY <1>1, <1>3, BecomesInv DEF Moves

\* The next message is handled.
LEMMA ReceiveStep ==
    ASSUME RInv, Receive
    PROVE  /\ RInvNext
           /\ RunningKept(client, client')
<1>1. /\ client \in Session /\ server \in Server /\ inbox \in Seq(Messages)
      /\ InvOf(client, server, inbox, link) /\ client.out = Silent
      /\ inbox # <<>>
  BY RInvParts DEF Receive
<1>2. PICK attaches \in BOOLEAN :
        Becomes(HandleServerMessage(client, Head(inbox), attaches), Tail(inbox))
  BY DEF Receive
<1>3. Head(inbox) = inbox[1] /\ Tail(inbox) \in Seq(Messages)
  BY <1>1, TailIs
<1>4. PICK u : u = HandleServerMessage(client, inbox[1], attaches)
  OBVIOUS
<1>5. Lands(client, u, server, inbox, link) /\ u \in Session
  BY <1>1, <1>4, HandleLands
<1>6. Becomes(u, Tail(inbox))
  BY <1>2, <1>3, <1>4
<1>8. Arrives(u, Tail(inbox))
  BY <1>5 DEF Lands, Arrives
<1>9. RInvNext /\ client' = Muted(u)
  BY <1>3, <1>5, <1>6, <1>8, BecomesInv
<1>10. Muted(u).ops = u.ops
  BY <1>5 DEF Muted, Session
<1>11. RunningKept(client, Muted(u))
  BY <1>5, <1>10 DEF Lands, RunningKept
<1>12. QED
  BY <1>9, <1>11

\* The loader, a runner, a screen or the player moves.
LEMMA PlayerStep ==
    ASSUME RInv, PlayerNext
    PROVE  /\ RInvNext
           /\ Begins(client, client')
<1>1. /\ client \in Session /\ client.out = Silent /\ Local(client)
      /\ Tidy(client)
  BY RInvParts DEF RInv
<1>2. PICK u \in Session : Moves(u) /\ Steps(client, u)
  BY <1>1, PlayerSteps
<1>3. u.round = client.round
  <2>1. client'.round = client.round
    BY <1>1, PlayerKeepsRound
  <2>2. client' = Muted(u)
    BY <1>2 DEF Moves, Becomes, Muted
  <2>3. Muted(u).round = u.round
    BY <1>2 DEF Muted, Session
  <2>4. QED
    BY <2>1, <2>2, <2>3
<1>4. RInvNext /\ client' = Muted(u)
  BY <1>2, <1>3, MovesInv
<1>5. Muted(u).ops = u.ops
  BY DEF Muted, Session
<1>6. Begins(client, Muted(u))
  BY <1>2, <1>5 DEF Steps, Begins
<1>7. QED
  BY <1>4, <1>6
-----------------------------------------------------------------------------
(* The board stays tidy.                                                   *)

LEMMA BecomesTidy ==
    ASSUME NEW u \in Neat, NEW rest, Becomes(u, rest)
    PROVE  Tidy(client')
<1>1. client' = Muted(u)
  BY DEF Becomes, Muted
<1>2. u \in Session /\ Tidy(u)
  BY DEF Neat
<1>3. SameBoard(u, Muted(u))
  BY <1>2 DEF SameBoard, Muted, Session
<1>4. QED
  BY <1>1, <1>2, <1>3, SameTidy

\* The board stays tidy.
LEMMA TidyStep ==
    ASSUME RInv, Next
    PROVE  Tidy(client')
<1>1. /\ client \in Neat /\ client.out = Silent /\ Local(client)
      /\ OpsWhole(client) /\ inbox \in Seq(Messages) /\ Tidy(client)
  BY RInvParts DEF RInv, Neat, Local
<1>2. CASE client' = client
  BY <1>1, <1>2
<1>3. CASE ServerNext
  <2>1. client' = client
    BY <1>3 DEF ServerNext, ServerLaunches, ServerLoads, ServerSchedules,
                ServerStarts, ServerCancels, ServerSettles, ServerFinalizes,
                ServerRemoves, Says
  <2>2. QED
    BY <1>2, <2>1
<1>4. CASE Receive
  <2>1. PICK attaches \in BOOLEAN :
          Becomes(HandleServerMessage(client, Head(inbox), attaches), Tail(inbox))
    BY <1>4 DEF Receive
  <2>2. inbox # <<>>
    BY <1>4 DEF Receive
  <2>3. Head(inbox) \in Messages
    BY <1>1, <2>2
  <2>4. HandleServerMessage(client, Head(inbox), attaches) \in Neat
    BY <1>1, <2>3, NeatMessage
  <2>5. QED
    BY <2>1, <2>4, BecomesTidy
<1>5. CASE Enter \/ Resume
  <2>1. client' = client
    BY <1>5 DEF Enter, Resume
  <2>2. QED
    BY <1>2, <2>1
<1>6. CASE Cut
  BY <1>1, <1>6, NeatReports DEF Cut, Neat
<1>7. CASE SeatLost
  BY <1>1, <1>7, NeatReports DEF SeatLost, Neat
<1>8. CASE PlayerNext
  <2>1. PICK u \in Neat : Moves(u)
    BY <1>1, <1>8, PlayerNeat
  <2>2. QED
    BY <2>1, BecomesTidy DEF Moves
<1>9. QED
  BY <1>3, <1>4, <1>5, <1>6, <1>7, <1>8 DEF Next, LinkNext

-----------------------------------------------------------------------------
(* The invariant holds, and what follows from it.                          *)

\* The invariant holds at first.
LEMMA InitRInv ==
    ASSUME Init
    PROVE  RInv
<1>1. TypeInv
  BY InitTyped
<1>2. /\ client.ops = {} /\ client.screens = {} /\ client.req = 0
      /\ client.op = "None" /\ client.keptReq = 0 /\ client.nextReq = 1
      /\ client.retained = 0 /\ client.round = NoRound
      /\ client.phase = "Selecting" /\ client.state = "Out"
      /\ client.prepared = 0 /\ client.loadRound = 0
      /\ client.start = NoTask /\ client.source = 0
      /\ client.terminal = NoTerminal
  BY DEF Init
<1>3. /\ client.sampling = FALSE /\ client.exposed = FALSE
      /\ client.abandoned = FALSE /\ client.submitted = FALSE
  BY DEF Init
<1>4. client \in Session
  BY <1>1, ClientIsSession DEF TypeInv, TypeOK
<1>5. Local(client)
  <2>1. OpsWhole(client)
    BY <1>2 DEF OpsWhole
  <2>2. RequestWhole(client)
    BY <1>2 DEF RequestWhole
  <2>3. PlayWhole(client)
    BY <1>2, <1>3 DEF PlayWhole
  <2>4. RetainedWhole(client)
    BY <1>2 DEF RetainedWhole
  <2>5. RoundWhole(client)
    BY <1>2, <1>3 DEF RoundWhole, WholeRound, NoRound, NoTerminal, PhaseOf
  <2>6. QED
    BY <2>1, <2>2, <2>3, <2>4, <2>5 DEF Local
<1>6. /\ server.phase = "Selecting" /\ server.round = 0
      /\ server.terminal = "None" /\ server.heard = {}
  BY DEF Init
<1>7. server.member = FALSE /\ server.mine = FALSE
  BY DEF Init
<1>8. ServerWhole(server)
  BY <1>6, <1>7 DEF ServerWhole
<1>9. Room(client, server)
  BY <1>2, <1>3, <1>6, <1>7 DEF Room, Engaged, NoRound
<1>10. inbox = <<>> /\ link = "Down" /\ Len(inbox) = 0
  BY DEF Init
<1>11. Queue(client, server, inbox)
  BY <1>10 DEF Queue
<1>12. /\ Linked(client, server, inbox, link)
       /\ Told(client, server, inbox, link)
       /\ ToldPlay(client, server, inbox, link)
  BY <1>2, <1>10 DEF Linked, Told, ToldPlay
<1>13. Tidy(client)
  BY <1>2 DEF Tidy
<1>14. QED
  BY <1>1, <1>5, <1>8, <1>9, <1>11, <1>12, <1>13 DEF RInv, InvOf

\* Every step keeps it.
LEMMA RInvStep ==
    ASSUME RInv, [Next]_vars
    PROVE  RInv'
<1>1. TypeInv'
  BY TypedStep DEF RInv
<1>2. CASE UNCHANGED vars
  <2>1. /\ client' = client /\ server' = server /\ inbox' = inbox
        /\ link' = link
    BY <1>2 DEF vars
  <2>2. InvOf(client', server', inbox', link') /\ Tidy(client')
    BY <2>1 DEF RInv
  <2>3. QED
    BY <1>1, <2>2 DEF RInv
<1>3. CASE Next
  <2>1. RInvNext
    BY <1>3, ServerStep, ReceiveStep, EnterStep, CutStep, ResumeStep,
       SeatLostStep, PlayerStep DEF Next, LinkNext
  <2>2. Tidy(client')
    BY <1>3, TidyStep
  <2>3. QED
    BY <1>1, <2>1, <2>2 DEF RInv, RInvNext
<1>4. QED
  BY <1>2, <1>3

\* The invariant of every behaviour.
LEMMA AlwaysRInv == Spec => []RInv
<1>1. Init => RInv
  BY InitRInv
<1>2. RInv /\ [Next]_vars => RInv'
  BY RInvStep
<1>3. QED
  BY <1>1, <1>2, PTL DEF Spec

\* It says that the runners the session knows of are alive and current,
LEMMA Current ==
    ASSUME RInv
    PROVE  PreparedIsCurrent /\ RetainedHasScreen /\ SamplesOnlyLivePlay
<1>1. /\ client \in Session /\ Local(client)
      /\ OpsWhole(client) /\ RequestWhole(client) /\ PlayWhole(client)
      /\ RetainedWhole(client) /\ RoundWhole(client)
  BY RInvParts DEF Local
<1>3. PreparedIsCurrent
  BY <1>1 DEF PreparedIsCurrent, OpsOf, RequestWhole
<1>4. RetainedHasScreen
  <2>1. SUFFICES ASSUME client.retained # 0
                 PROVE  /\ OpsOf(client, client.retained) # {}
                        /\ \/ Status(client, client.retained) = "Ready"
                           \/ HasScreen(client, client.retained)
    BY <1>1 DEF RetainedHasScreen, RetainedWhole, HasScreen
  <2>2. PICK o \in client.ops : o.req = client.retained /\ o.status # "Working"
    BY <1>1, <2>1 DEF RetainedWhole
  <2>3. Status(client, client.retained) = o.status
    <3>1. Status(client, o.req) = o.status
      BY <1>1, StatusOf DEF OpsWhole
    <3>2. QED
      BY <2>2, <3>1
  <2>4. o.status \in {"Ready", "Running", "Finished"}
    BY <1>1, <2>2 DEF Session, Operation, OpStatus
  <2>5. o.status = "Ready" \/ HasScreen(client, client.retained)
    BY <1>1, <2>2, <2>4 DEF OpsWhole, RetainedWhole
  <2>6. OpsOf(client, client.retained) # {}
    BY <2>2 DEF OpsOf
  <2>7. QED
    BY <2>3, <2>5, <2>6
<1>5. SamplesOnlyLivePlay
  BY <1>1 DEF SamplesOnlyLivePlay, PlayWhole, RoundWhole
<1>6. QED
  BY <1>3, <1>4, <1>5

\* that every runner left is owned or forgotten,
LEMMA Owned ==
    ASSUME RInv
    PROVE  RunnersAreOwned
<1>1. LoaderOwned
  BY RInvParts DEF Local, OpsWhole, LoaderOwned
<1>2. QED
  BY <1>1, Current DEF RunnersAreOwned

\* that a round hears one terminal,
LEMMA One ==
    ASSUME RInv
    PROVE  OneTerminal
BY RInvParts DEF OneTerminal, ServerWhole, Local, RoundWhole

\* and that an empty inbox leaves the session in the round of the room.
LEMMA Agrees ==
    ASSUME RInv
    PROVE  AgreesWithRoom
<1>1. SUFFICES ASSUME client.state = "InRoom", link = "Up", inbox = <<>>
               PROVE  /\ client.round.id = ServerRound(server).id
                      /\ server.phase = "Playing" =>
                           client.phase = "Playing" \/ client.abandoned
  BY DEF AgreesWithRoom
<1>2. /\ client \in Session /\ Local(client) /\ server \in Server
      /\ Linked(client, server, inbox, link)
      /\ Told(client, server, inbox, link)
      /\ ToldPlay(client, server, inbox, link)
  BY RInvParts DEF InvOf
<1>3. Len(inbox) = 0 /\ link # "Down"
  BY <1>1
<1>4. server.member
  BY <1>2, <1>3 DEF Linked
<1>5. client.round.id = ServerRound(server).id
  BY <1>1, <1>2, <1>3, <1>4 DEF Linked, Chain
<1>6. ASSUME server.phase = "Playing"
      PROVE  client.phase = "Playing" \/ client.abandoned
  <2>1. TakesPart(client, server)
    BY <1>2, <1>3, <1>4, <1>6 DEF ToldPlay
  <2>2. client.phase = PhaseOf(client.round.stage)
    BY <1>2 DEF Local, RoundWhole
  <2>3. QED
    BY <2>1, <2>2 DEF TakesPart, PhaseOf
<1>7. QED
  BY <1>5, <1>6

\* The loader keeps no runner that the session cannot cancel but the ones whose
\* retention a later finalization replaced, and none of those is loading; the
\* prepared one is of the current round, a retained one goes with its screen and
\* telemetry comes only from a live play (ArenaSession.cpp,
\* retainPreparedGameplayUntilReleased, releasePreparedGameplay and
\* startTelemetrySampling), for any number of rounds, cuts and seats, whether or
\* not the player leaves a result before the next launch.
THEOREM RunnersOwned == Spec => []RunnersAreOwned
<1>1. RInv => RunnersAreOwned
  BY Owned
<1>2. QED
  BY <1>1, AlwaysRInv, PTL

\* A round hears one terminal of the player, whatever is lost and sent again, and
\* a result is of the chart of that round (ArenaSession.cpp, sendTerminal and
\* flushCompetitionMessages).
THEOREM TerminalOnce == Spec => []OneTerminal
BY AlwaysRInv, One, PTL

\* A session on a live link that has read everything is in the round of the room,
\* and plays when the room does, unless it gave the round up (ArenaSession.cpp,
\* applyRoomSnapshot and the handlers of the round).
THEOREM RoomAgrees == Spec => []AgreesWithRoom
BY AlwaysRInv, Agrees, PTL

-----------------------------------------------------------------------------
(* What a step may not start.                                              *)

\* What StartsOnlySeated says of one step.
SeatedStart ==
    \A o \in client.ops : \A p \in client'.ops :
        o.req = p.req /\ o.status = "Ready" /\ p.status = "Running" =>
            /\ client.state = "InRoom"
            /\ client.round.id = o.round
            /\ client.round.stage \in {"Scheduled", "Playing"}
            /\ client.terminal.kind = "None"
            /\ \A t \in server.heard : t.round # o.round

\* A session none of whose runners begins.
LEMMA NoneBegins ==
    ASSUME RInv, RunningKept(client, client')
    PROVE  SeatedStart
<1>1. OpsWhole(client)
  BY RInvParts DEF Local
<1>2. SUFFICES ASSUME NEW o \in client.ops, NEW p \in client'.ops,
                      o.req = p.req, o.status = "Ready", p.status = "Running"
               PROVE  FALSE
  BY DEF SeatedStart
<1>3. PICK r \in client.ops : r.req = p.req /\ r.status = "Running"
  BY <1>2 DEF RunningKept
<1>4. r = o
  BY <1>1, <1>2, <1>3 DEF OpsWhole
<1>5. QED
  BY <1>2, <1>3, <1>4

\* The one runner that may begin is the one the start was set for.
LEMMA TaskBegins ==
    ASSUME RInv, Begins(client, client')
    PROVE  SeatedStart
<1>1. /\ client \in Session /\ OpsWhole(client) /\ PlayWhole(client)
      /\ RequestWhole(client) /\ RoundWhole(client) /\ Room(client, server)
  BY RInvParts DEF Local
<1>2. SUFFICES ASSUME NEW o \in client.ops, NEW p \in client'.ops,
                      o.req = p.req, o.status = "Ready", p.status = "Running"
               PROVE  /\ client.state = "InRoom"
                      /\ client.round.id = o.round
                      /\ client.round.stage \in {"Scheduled", "Playing"}
                      /\ client.terminal.kind = "None"
                      /\ \A t \in server.heard : t.round # o.round
  BY DEF SeatedStart
<1>3. client.start # NoTask /\ p.req = client.start.runner
  <2>1. ~(\E r \in client.ops : r.req = p.req /\ r.status = "Running")
    <3>1. SUFFICES ASSUME NEW r \in client.ops, r.req = p.req,
                          r.status = "Running"
                   PROVE  FALSE
      OBVIOUS
    <3>2. r = o
      BY <1>1, <1>2, <3>1 DEF OpsWhole
    <3>3. QED
      BY <1>2, <3>1, <3>2
  <2>2. QED
    BY <1>2, <2>1 DEF Begins
<1>4. /\ client.state = "InRoom"
      /\ client.start.runner = client.prepared
      /\ client.prepared # 0
      /\ client.round.stage \in {"Scheduled", "Playing"}
      /\ ~client.submitted
  BY <1>1, <1>3 DEF PlayWhole, LoadedUp
<1>5. o.req = client.prepared /\ client.prepared = client.req
  BY <1>1, <1>2, <1>3, <1>4 DEF RequestWhole
<1>6. client.op = "Load" /\ client.round.mine
  BY <1>1, <1>4 DEF RequestWhole
<1>7. PICK r \in client.ops : r.req = client.req /\ r.round = client.round.id
  BY <1>1, <1>6 DEF RequestWhole
<1>8. r = o
  BY <1>1, <1>5, <1>7 DEF OpsWhole
<1>9. client.terminal.kind = "None"
  BY <1>1, <1>4 DEF RoundWhole
<1>10. \A t \in server.heard : t.round # o.round
  BY <1>1, <1>4, <1>6, <1>7, <1>8 DEF Room
<1>11. QED
  BY <1>4, <1>7, <1>8, <1>9, <1>10

\* No step starts a chart but the start that was set for it.
LEMMA SeatedStep ==
    ASSUME RInv, [Next]_vars
    PROVE  [SeatedStart]_vars
<1>1. CASE UNCHANGED vars
  BY <1>1
<1>2. ASSUME client' = client
      PROVE  SeatedStart
  <2>1. RunningKept(client, client')
    BY <1>2 DEF RunningKept
  <2>2. QED
    BY <2>1, NoneBegins
<1>3. CASE Next
  <2>1. CASE ServerNext
    <3>1. client' = client
      BY <2>1 DEF ServerNext, ServerLaunches, ServerLoads, ServerSchedules,
                  ServerStarts, ServerCancels, ServerSettles, ServerFinalizes,
                  ServerRemoves, Says
    <3>2. QED
      BY <1>2, <3>1
  <2>2. CASE Enter \/ Resume
    <3>1. client' = client
      BY <2>2 DEF Enter, Resume
    <3>2. QED
      BY <1>2, <3>1
  <2>3. CASE Receive
    BY <2>3, ReceiveStep, NoneBegins
  <2>4. CASE Cut
    BY <2>4, CutStep, NoneBegins
  <2>5. CASE SeatLost
    BY <2>5, SeatLostStep, NoneBegins
  <2>6. CASE PlayerNext
    BY <2>6, PlayerStep, TaskBegins
  <2>7. QED
    BY <1>3, <2>1, <2>2, <2>3, <2>4, <2>5, <2>6 DEF Next, LinkNext
<1>4. QED
  BY <1>1, <1>3

\* A chart starts only for a player who sits in its round and has sent no
\* terminal for it (ArenaSession.cpp, handleRoundStartScheduled).
THEOREM StartsSeated == Spec => StartsOnlySeated
<1>1. RInv /\ [Next]_vars => [SeatedStart]_vars
  BY SeatedStep
<1>2. QED
  BY <1>1, AlwaysRInv, PTL DEF Spec, StartsOnlySeated, SeatedStart

=============================================================================
