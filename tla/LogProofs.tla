------------------------------ MODULE LogProofs ------------------------------
(***************************************************************************)
(* What the live log keeps and what its clients are sent: proofs about     *)
(* LogServer for any number of clients and messages, any length of the     *)
(* history and any size of the queues.                                     *)
(***************************************************************************)
EXTENDS LogServer, TLAPS, SequenceTheorems

-----------------------------------------------------------------------------
(* Sequences                                                               *)

LEMMA AppendTyped ==
  ASSUME NEW S, NEW s \in Seq(S), NEW e \in S
  PROVE  /\ Append(s, e) \in Seq(S) /\ Len(Append(s, e)) = Len(s) + 1
         /\ Append(s, e) # <<>>
         /\ \A i \in 1..Len(s) : Append(s, e)[i] = s[i]
         /\ Append(s, e)[Len(s) + 1] = e
OBVIOUS

LEMMA TailTyped ==
  ASSUME NEW S, NEW s \in Seq(S), s # <<>>
  PROVE  /\ Head(s) \in S /\ Head(s) = s[1] /\ Tail(s) \in Seq(S) /\ Len(Tail(s)) = Len(s) - 1
         /\ \A i \in 1..Len(Tail(s)) : Tail(s)[i] = s[i + 1]
OBVIOUS

\* What is appended is in the sequence with what was.
LEMMA AppendRange ==
  ASSUME NEW S, NEW s \in Seq(S), NEW e \in S
  PROVE  Range(Append(s, e)) = Range(s) \cup {e}
<1>1. Range(s) \subseteq Range(Append(s, e)) /\ e \in Range(Append(s, e))
  BY AppendTyped DEF Range
<1>2. Range(Append(s, e)) \subseteq Range(s) \cup {e}
  BY AppendTyped DEF Range
<1> QED BY <1>1, <1>2

LEMMA TailRange ==
  ASSUME NEW S, NEW s \in Seq(S), s # <<>>
  PROVE  Range(s) \subseteq {Head(s)} \cup Range(Tail(s))
<1> SUFFICES ASSUME NEW i \in 1..Len(s) PROVE s[i] \in {Head(s)} \cup Range(Tail(s))
  BY DEF Range
<1>1. CASE i = 1
  BY <1>1
<1>2. CASE i # 1
  <2>1. i - 1 \in 1..Len(Tail(s)) /\ Tail(s)[i - 1] = s[i]
    BY <1>2, TailTyped
  <2>2. i - 1 \in DOMAIN Tail(s)
    BY <2>1, TailTyped
  <2>3. Tail(s)[i - 1] \in Range(Tail(s))
    BY <2>2 DEF Range
  <2> QED BY <2>1, <2>3
<1> QED BY <1>1, <1>2

\* The next element moves from what is to come to what was.
LEMMA MoveHead ==
  ASSUME NEW S, NEW s \in Seq(S), NEW t \in Seq(S), t # <<>>
  PROVE  Append(s, Head(t)) \o Tail(t) = s \o t
OBVIOUS

-----------------------------------------------------------------------------
(* Types                                                                   *)

\* Who Fire still has to send to, it sends the message it holds the mutex for.
FiringOK == firing \in {0, logged} /\ (firing = 0 => pending = {})

SequencesOK == DOMAIN todo = Clients /\ DOMAIN queue = Clients /\ DOMAIN got = Clients

TypeInv == LogTypeOK /\ FiringOK /\ SequencesOK

LEMMA TypeInit ==
  ASSUME Init PROVE TypeInv
BY LogConstants DEF Init, TypeInv, LogTypeOK, FiringOK, SequencesOK

\* The history never outgrows its size: the oldest message makes room.
LEMMA RememberedTyped ==
  ASSUME NEW h \in Seq(Message), Len(h) <= HistorySize, NEW m \in Message
  PROVE  Remembered(h, m) \in Seq(Message) /\ Len(Remembered(h, m)) <= HistorySize
<1>1. CASE Len(h) < HistorySize
  BY <1>1, AppendTyped, LogConstants DEF Remembered
<1>2. CASE Len(h) = HistorySize
  <2>1. h # <<>>
    BY <1>2, LogConstants
  <2>2. Tail(h) \in Seq(Message) /\ Len(Tail(h)) = HistorySize - 1
    BY <1>2, <2>1, TailTyped
  <2> QED BY <1>2, <2>2, AppendTyped, LogConstants DEF Remembered
<1> QED BY <1>1, <1>2, LogConstants

LEMMA LoggingTypes ==
  ASSUME TypeInv, Logging PROVE TypeInv'
<1> USE LogConstants DEF TypeInv, LogTypeOK, FiringOK, SequencesOK, clientVars
<1>1. CASE Fire
  BY <1>1 DEF Fire, Message
<1>2. CASE FireHistory
  <2>1. firing \in Message
    BY <1>2 DEF FireHistory, Message
  <2> QED BY <1>2, <2>1, RememberedTyped DEF FireHistory
<1>3. ASSUME NEW c \in Clients, FireTo(c) PROVE TypeInv'
  <2>1. firing \in Message
    BY <1>3 DEF FireTo, Message
  <2>2. \A d \in Clients : queue'[d] \in Seq(Message) /\ Len(queue'[d]) <= Buffer
    <3>1. CASE Len(queue[c]) < Buffer
      <4>1. queue' = [queue EXCEPT ![c] = Append(queue[c], firing)]
        BY <1>3, <3>1 DEF FireTo
      <4>2. Append(queue[c], firing) \in Seq(Message) /\ Len(Append(queue[c], firing)) <= Buffer
        BY <2>1, <3>1, AppendTyped
      <4> QED BY <4>1, <4>2
    <3>2. CASE ~(Len(queue[c]) < Buffer)
      BY <1>3, <3>2 DEF FireTo
    <3> QED BY <3>1, <3>2
  <2>3. slow' \in [Clients -> BOOLEAN]
    BY <1>3 DEF FireTo
  <2> QED BY <1>3, <2>2, <2>3 DEF FireTo
<1> QED BY <1>1, <1>2, <1>3 DEF Logging

LEMMA ClientTypes ==
  ASSUME TypeInv, NEW c \in Clients, Handler(c) \/ CloseSlow(c) \/ Connect(c) \/ Hangup(c)
  PROVE  TypeInv'
<1> USE LogConstants DEF TypeInv, LogTypeOK, FiringOK, SequencesOK
<1>1. CASE CloseSlow(c) \/ Connect(c) \/ Hangup(c) \/ Snapshot(c) \/ Done(c)
  BY <1>1 DEF CloseSlow, Connect, Hangup, Snapshot, Done
<1>6. CASE Join(c)
  <2>1. subs' = {d \in Clients : pc'[d] \in {"live", "leaving"}}
    BY <1>6 DEF Join
  <2>2. joined' \in [Clients -> 0..MaxMessages]
    BY <1>6 DEF Join
  <2> QED BY <1>6, <2>1, <2>2 DEF Join
<1>2. CASE Replay(c)
  <2>1. Head(todo[c]) \in Message /\ Tail(todo[c]) \in Seq(Message)
    BY <1>2, TailTyped DEF Replay
  <2>2. Append(got[c], Head(todo[c])) \in Seq(Message)
    BY <2>1, AppendTyped
  <2> QED BY <1>2, <2>1, <2>2 DEF Replay
<1>3. CASE Deliver(c)
  <2>1. Head(queue[c]) \in Message /\ Tail(queue[c]) \in Seq(Message) /\ Len(Tail(queue[c])) <= Buffer
    BY <1>3, TailTyped DEF Deliver
  <2>2. Append(got[c], Head(queue[c])) \in Seq(Message)
    BY <2>1, AppendTyped
  <2> QED BY <1>3, <2>1, <2>2 DEF Deliver
<1>4. CASE DeliverFails(c)
  <2>1. Tail(queue[c]) \in Seq(Message) /\ Len(Tail(queue[c])) <= Buffer
    BY <1>4, TailTyped DEF DeliverFails
  <2> QED BY <1>4, <2>1 DEF DeliverFails
<1>5. CASE Forget(c) /\ UNCHANGED <<logged, history, firing, pending>>
           /\ pending \subseteq subs' /\ subs' = subs \ {c}
  <2>1. subs' = {d \in Clients : pc'[d] \in {"live", "leaving"}}
    BY <1>5 DEF Forget
  <2>2. \A d \in Clients :
            /\ todo'[d] \in Seq(Message) /\ got'[d] \in Seq(Message)
            /\ queue'[d] \in Seq(Message) /\ Len(queue'[d]) <= Buffer
    BY <1>5 DEF Forget
  <2> QED BY <1>5, <2>1, <2>2 DEF Forget
<1>7. ReplayFails(c) \/ Leave(c) => Forget(c) /\ UNCHANGED <<logged, history, firing, pending>>
           /\ pending \subseteq subs' /\ subs' = subs \ {c}
  BY DEF ReplayFails, Leave
<1> QED BY <1>1, <1>2, <1>3, <1>4, <1>5, <1>6, <1>7 DEF Handler

LEMMA TypeStutter ==
  ASSUME TypeInv, UNCHANGED vars PROVE TypeInv'
BY DEF TypeInv, LogTypeOK, FiringOK, SequencesOK, vars, clientVars

-----------------------------------------------------------------------------
(* The history                                                             *)

Recorded == IF firing = 0 THEN logged ELSE logged - 1
Forgotten(n) == IF n > HistorySize THEN n - HistorySize ELSE 0
Recent(n) == [i \in 1..(n - Forgotten(n)) |-> Forgotten(n) + i]

LEMMA RecentTyped ==
  ASSUME NEW n \in Nat
  PROVE  /\ Recent(n) \in Seq(Nat) /\ Len(Recent(n)) = n - Forgotten(n)
         /\ \A i \in 1..(n - Forgotten(n)) : Recent(n)[i] = Forgotten(n) + i
         /\ Forgotten(n) \in Nat /\ n - Forgotten(n) \in 0..HistorySize
<1>1. Forgotten(n) \in Nat /\ n - Forgotten(n) \in 0..HistorySize
  BY LogConstants DEF Forgotten
<1> QED BY <1>1 DEF Recent

\* Remembering the next message keeps the last HistorySize of them.
LEMMA RememberNext ==
  ASSUME NEW n \in Nat, NEW m \in Nat, m = n + 1
  PROVE  Remembered(Recent(n), m) = Recent(m)
<1> DEFINE h == Recent(n)
           next == Recent(m)
<1>1. /\ h \in Seq(Nat) /\ Len(h) = n - Forgotten(n)
      /\ \A i \in 1..Len(h) : h[i] = Forgotten(n) + i
  BY RecentTyped
<1>2. /\ next \in Seq(Nat) /\ Len(next) = m - Forgotten(m)
      /\ \A i \in 1..Len(next) : next[i] = Forgotten(m) + i
  BY RecentTyped
<1> HIDE DEF h, next
<1>3. CASE n < HistorySize
  <2>1. Forgotten(n) = 0 /\ Forgotten(m) = 0
    BY <1>3, LogConstants DEF Forgotten
  <2>2. Remembered(h, m) = Append(h, m)
    BY <1>1, <1>3, <2>1 DEF Remembered
  <2>3. /\ Append(h, m) \in Seq(Nat) /\ Len(Append(h, m)) = m
        /\ \A i \in 1..m : Append(h, m)[i] = i
    BY <1>1, <2>1
  <2>4. Len(next) = m /\ \A i \in 1..m : next[i] = i
    BY <1>2, <2>1
  <2>5. Append(h, m) = next
    BY <1>2, <2>3, <2>4, SeqEqual
  <2> QED BY <2>2, <2>5 DEF h, next
<1>4. CASE n >= HistorySize
  <2> DEFINE k == n - HistorySize
  <2>1. k \in Nat /\ Forgotten(n) = k /\ Forgotten(m) = k + 1 /\ n - k = HistorySize
    BY <1>4, LogConstants DEF Forgotten
  <2> HIDE DEF k
  <2>2. Len(h) = HistorySize /\ h # <<>> /\ \A i \in 1..HistorySize : h[i] = k + i
    BY <1>1, <2>1, LogConstants
  <2>3. /\ Tail(h) \in Seq(Nat) /\ Len(Tail(h)) = HistorySize - 1
        /\ \A i \in 1..(HistorySize - 1) : Tail(h)[i] = k + 1 + i
    BY <1>1, <2>1, <2>2, TailTyped, LogConstants
  <2>4. Remembered(h, m) = Append(Tail(h), m)
    BY <2>2, LogConstants DEF Remembered
  <2>5. /\ Append(Tail(h), m) \in Seq(Nat) /\ Len(Append(Tail(h), m)) = HistorySize
        /\ \A i \in 1..HistorySize : Append(Tail(h), m)[i] = k + 1 + i
    BY <2>1, <2>3, LogConstants
  <2>6. m - (k + 1) = HistorySize
    BY <2>1, LogConstants
  <2>7. Len(next) = HistorySize /\ \A i \in 1..HistorySize : next[i] = k + 1 + i
    BY <1>2, <2>1, <2>6
  <2>8. Append(Tail(h), m) = next
    <3> DEFINE t == Append(Tail(h), m)
    <3>1. t \in Seq(Nat) /\ Len(t) = Len(next) /\ \A i \in 1..Len(t) : t[i] = next[i]
      BY <2>5, <2>7
    <3> HIDE DEF t
    <3>2. t = next
      BY <1>2, <3>1, SeqEqual
    <3> QED BY <3>2 DEF t
  <2> QED BY <2>4, <2>8 DEF h, next
<1> QED BY <1>3, <1>4, LogConstants

HistoryInv == history = Recent(Recorded)

LEMMA HistoryStep ==
  ASSUME TypeInv, HistoryInv, [Next]_vars PROVE HistoryInv'
<1> USE DEF TypeInv, LogTypeOK, FiringOK, HistoryInv
<1>1. CASE FireHistory
  <2>1. Recorded \in Nat /\ Recorded' = firing /\ firing = Recorded + 1 /\ firing \in Nat
    BY <1>1 DEF FireHistory, Recorded
  <2>2. Recent(Recorded)' = Recent(firing)
    BY <2>1 DEF Recent, Forgotten
  <2> QED BY <1>1, <2>1, <2>2, RememberNext DEF FireHistory
<1>2. CASE UNCHANGED history /\ Recorded' = Recorded
  BY <1>2 DEF Recent, Forgotten
<1>3. CASE Fire
  BY <1>2, <1>3 DEF Fire, Recorded
<1>4. CASE \E c \in Clients : FireTo(c) \/ Handler(c) \/ CloseSlow(c) \/ Connect(c) \/ Hangup(c)
  BY <1>2, <1>4 DEF FireTo, Handler, Snapshot, Replay, ReplayFails, Join, Deliver, DeliverFails, Done, Leave,
         CloseSlow, Connect, Hangup, Recorded
<1>5. CASE UNCHANGED vars
  BY <1>2, <1>5 DEF vars, Recorded
<1> QED BY <1>1, <1>3, <1>4, <1>5 DEF Next, Logging

LEMMA TypeStep ==
  ASSUME TypeInv, [Next]_vars PROVE TypeInv'
BY LoggingTypes, ClientTypes, TypeStutter DEF Next

\* Types of the live log: a subscriber's handler is between addSubscriber and the end of
\* deleteSubscriber, and neither a queue nor the history outgrows its limit.
THEOREM LogTypeCorrect == Spec => []LogTypeOK
<1>1. Init => TypeInv
  BY TypeInit
<1>2. TypeInv /\ [Next]_vars => TypeInv'
  BY TypeStep
<1>3. TypeInv => LogTypeOK
  BY DEF TypeInv
<1> QED BY <1>1, <1>2, <1>3, PTL DEF Spec

\* hook.Fire's trimming: what a client that connects is replayed is the last HistorySize
\* messages, in their order, whatever became of the clients they were sent to.
THEOREM HistoryStaysRecent == Spec => []HistoryIsRecent
<1>1. Init => TypeInv /\ HistoryInv
  <2>1. Init => HistoryInv
    BY LogConstants DEF Init, HistoryInv, Recorded, Recent, Forgotten
  <2> QED BY <2>1, TypeInit
<1>2. TypeInv /\ HistoryInv /\ [Next]_vars => TypeInv' /\ HistoryInv'
  BY TypeStep, HistoryStep
<1>3. HistoryInv => HistoryIsRecent
  BY DEF HistoryInv, HistoryIsRecent, Recorded, Recent, Forgotten
<1> QED BY <1>1, <1>2, <1>3, PTL DEF Spec

-----------------------------------------------------------------------------
(* No silent loss                                                          *)

LEMMA GapStep ==
  ASSUME TypeInv, GapMeansSlow, [Next]_vars PROVE GapMeansSlow'
<1> USE DEF TypeInv, LogTypeOK, FiringOK, SequencesOK
<1>0. SUFFICES ASSUME NEW d \in Clients, pc'[d] = "live", ~slow'[d], NEW m \in (joined'[d] + 1)..logged'
               PROVE  \/ m \in Range(got'[d]) \cup Range(queue'[d])
                      \/ m = firing' /\ d \in pending'
  BY DEF GapMeansSlow
<1>1. CASE Fire
  <2>1. CASE m = logged + 1
    BY <1>0, <1>1, <2>1 DEF Fire, clientVars
  <2>2. CASE m # logged + 1
    <3>1. m \in (joined[d] + 1)..logged /\ m # 0
      BY <1>1, <2>2 DEF Fire, clientVars
    <3> QED BY <1>0, <1>1, <3>1 DEF GapMeansSlow, Fire, clientVars
  <2> QED BY <2>1, <2>2
<1>2. CASE FireHistory
  BY <1>0, <1>2 DEF GapMeansSlow, FireHistory, clientVars
<1>3. ASSUME NEW c \in Clients, FireTo(c)
      PROVE  \/ m \in Range(got'[d]) \cup Range(queue'[d])
             \/ m = firing' /\ d \in pending'
  <2>1. UNCHANGED <<logged, firing, pc, got, joined>> /\ pending' = pending \ {c}
    BY <1>3 DEF FireTo
  <2>2. CASE d # c
    BY <1>0, <1>3, <2>1, <2>2 DEF GapMeansSlow, FireTo
  <2>3. CASE d = c
    <3>1. ~slow[c] /\ queue'[c] = Append(queue[c], firing)
      BY <1>0, <1>3, <2>3 DEF FireTo
    <3>2. firing \in Message /\ queue[c] \in Seq(Message)
      BY <1>3 DEF FireTo, Message
    <3>3. Range(queue'[c]) = Range(queue[c]) \cup {firing}
      BY <3>1, <3>2, AppendRange
    <3> QED BY <1>0, <2>1, <2>3, <3>1, <3>3 DEF GapMeansSlow
  <2> QED BY <2>2, <2>3
<1>4. ASSUME NEW c \in Clients, Handler(c) \/ CloseSlow(c) \/ Connect(c) \/ Hangup(c)
      PROVE  \/ m \in Range(got'[d]) \cup Range(queue'[d])
             \/ m = firing' /\ d \in pending'
  <2>1. /\ UNCHANGED <<logged, firing, pending>>
        /\ d # c => pc[d] = "live" /\ ~slow[d] /\ joined'[d] = joined[d] /\ got'[d] = got[d] /\ queue'[d] = queue[d]
    BY <1>0, <1>4 DEF Handler, Snapshot, Replay, ReplayFails, Join, Deliver, DeliverFails, Done, Leave, Forget,
                      CloseSlow, Connect, Hangup
  <2>2. CASE d # c
    BY <2>1, <2>2 DEF GapMeansSlow
  <2>3. CASE d = c /\ Deliver(c)
    <3>1. queue[c] \in Seq(Message) /\ queue[c] # <<>> /\ got[c] \in Seq(Message)
      BY <2>3 DEF Deliver
    <3>2. Head(queue[c]) \in Message
      BY <3>1, TailTyped
    <3>3. Range(got'[c]) = Range(got[c]) \cup {Head(queue[c])} /\ queue'[c] = Tail(queue[c])
      BY <2>3, <3>1, <3>2, AppendRange DEF Deliver
    <3>4. Range(queue[c]) \subseteq {Head(queue[c])} \cup Range(queue'[c])
      BY <3>1, <3>3, TailRange
    <3>5. pc[c] = "live" /\ ~slow[c] /\ joined' = joined
      BY <1>0, <2>3 DEF Deliver
    <3> QED BY <2>1, <2>3, <3>3, <3>4, <3>5 DEF GapMeansSlow
  <2>4. CASE d = c /\ Join(c)
    BY <1>0, <2>1, <2>4 DEF Join
  <2>5. CASE d = c /\ (CloseSlow(c) \/ Hangup(c))
    BY <1>0, <2>1, <2>5 DEF GapMeansSlow, CloseSlow, Hangup
  <2>6. CASE d = c /\ (Snapshot(c) \/ Replay(c) \/ ReplayFails(c) \/ DeliverFails(c) \/ Done(c) \/ Leave(c)
                        \/ Connect(c))
    BY <1>0, <2>6 DEF Snapshot, Replay, ReplayFails, DeliverFails, Done, Leave, Forget, Connect
  <2> QED BY <1>4, <2>2, <2>3, <2>4, <2>5, <2>6 DEF Handler
<1>5. CASE UNCHANGED vars
  BY <1>0, <1>5 DEF GapMeansSlow, vars, clientVars
<1> QED BY <1>1, <1>2, <1>3, <1>4, <1>5 DEF Next, Logging

\* FireTo and subscribe: from the moment it has joined, a connected client is sent every
\* message or given up as slow, for queues of any size and however late it reads them.
THEOREM NoSilentGap == Spec => []GapMeansSlow
<1>1. Init => TypeInv /\ GapMeansSlow
  <2>1. Init => GapMeansSlow
    BY DEF Init, GapMeansSlow
  <2> QED BY <2>1, TypeInit
<1>2. TypeInv /\ GapMeansSlow /\ [Next]_vars => TypeInv' /\ GapMeansSlow'
  BY TypeStep, GapStep
<1> QED BY <1>1, <1>2, PTL DEF Spec

-----------------------------------------------------------------------------
(* Order                                                                   *)

\* All a client has been or will be sent of what is already on its way to it.
Sent(c) == got[c] \o todo[c] \o queue[c]

Older(s, n) == \A i \in DOMAIN s : s[i] < n

\* A newer message at the end of an increasing sequence.
LEMMA AppendIncreasing ==
  ASSUME NEW s \in Seq(Message), NEW e \in Message, Increasing(s), Older(s, e), NEW n \in Nat, e < n
  PROVE  Increasing(Append(s, e)) /\ Older(Append(s, e), n)
<1> DEFINE t == Append(s, e)
<1>1. /\ t \in Seq(Message) /\ Len(t) = Len(s) + 1 /\ \A i \in 1..Len(s) : t[i] = s[i]
      /\ t[Len(s) + 1] = e
  BY AppendTyped
<1> HIDE DEF t
<1>2. DOMAIN t = 1..(Len(s) + 1) /\ DOMAIN s = 1..Len(s) /\ Len(s) \in Nat
  BY <1>1
<1>3. Increasing(t)
  <2> SUFFICES ASSUME NEW i \in DOMAIN t, NEW j \in DOMAIN t, i < j PROVE t[i] < t[j]
    BY DEF Increasing
  <2>1. i \in 1..Len(s) /\ t[i] = s[i]
    BY <1>1, <1>2
  <2>2. CASE j = Len(s) + 1
    BY <1>1, <1>2, <2>1, <2>2 DEF Older
  <2>3. CASE j # Len(s) + 1
    BY <1>1, <1>2, <2>1, <2>3 DEF Increasing
  <2> QED BY <2>2, <2>3
<1>4. Older(t, n)
  <2> SUFFICES ASSUME NEW i \in DOMAIN t PROVE t[i] < n
    BY DEF Older
  <2>1. CASE i = Len(s) + 1
    BY <1>1, <2>1
  <2>2. CASE i # Len(s) + 1
    <3>0. i \in DOMAIN s /\ t[i] = s[i]
      BY <1>1, <1>2, <2>2
    <3>1. s[i] \in Nat
      <4>1. s[i] \in Message
        BY <1>2, <3>0
      <4> QED BY <4>1 DEF Message
    <3>2. s[i] < e /\ e \in Nat
      BY <3>0 DEF Older, Message
    <3> QED BY <3>0, <3>1, <3>2
  <2> QED BY <2>1, <2>2
<1> QED BY <1>3, <1>4 DEF t

\* A message that could not be delivered leaves a gap, and no disorder.
LEMMA DropIncreasing ==
  ASSUME NEW g \in Seq(Message), NEW q \in Seq(Message), q # <<>>, Increasing(g \o q),
         NEW n, Older(g \o q, n)
  PROVE  Increasing(g \o Tail(q)) /\ Older(g \o Tail(q), n)
<1> DEFINE s == g \o q
           t == g \o Tail(q)
           At(i) == IF i <= Len(g) THEN i ELSE i + 1
<1>1. /\ DOMAIN s = 1..(Len(g) + Len(q)) /\ DOMAIN t = 1..(Len(g) + Len(q) - 1)
      /\ \A i \in DOMAIN t : t[i] = s[At(i)]
  OBVIOUS
<1>2. Len(g) \in Nat /\ Len(q) \in Nat /\ Increasing(s) /\ Older(s, n)
  OBVIOUS
<1> HIDE DEF s, t
<1>3. \A i \in DOMAIN t : At(i) \in DOMAIN s
  BY <1>1, <1>2
<1>4. \A i, j \in DOMAIN t : i < j => At(i) < At(j)
  BY <1>1, <1>2
<1> HIDE DEF At
<1>5. Increasing(t) /\ Older(t, n)
  BY <1>1, <1>2, <1>3, <1>4 DEF Increasing, Older
<1> QED BY <1>5 DEF t

LEMMA AppendConcat ==
  ASSUME NEW r \in Seq(Message), NEW s \in Seq(Message), NEW t \in Seq(Message), NEW e \in Message
  PROVE  r \o s \o Append(t, e) = Append(r \o s \o t, e)
OBVIOUS

\* Sent, of a client that is replayed a message, is delivered one, or is queued one.
LEMMA ReplayMoves ==
  ASSUME NEW c, got[c] \in Seq(Message), todo[c] \in Seq(Message), todo[c] # <<>>
  PROVE  Append(got[c], Head(todo[c])) \o Tail(todo[c]) = got[c] \o todo[c]
BY MoveHead

LEMMA DeliverMoves ==
  ASSUME NEW c, got[c] \in Seq(Message), queue[c] \in Seq(Message), queue[c] # <<>>
  PROVE  Append(got[c], Head(queue[c])) \o Tail(queue[c]) = got[c] \o queue[c]
BY MoveHead

LEMMA QueueAppends ==
  ASSUME NEW c, got[c] \in Seq(Message), todo[c] \in Seq(Message), queue[c] \in Seq(Message),
         NEW e \in Message
  PROVE  got[c] \o todo[c] \o Append(queue[c], e) = Append(got[c] \o todo[c] \o queue[c], e)
BY AppendConcat

LEMMA EmptyOrdered ==
  ASSUME NEW n PROVE Increasing(<<>> \o <<>> \o <<>>) /\ Older(<<>> \o <<>> \o <<>>, n)
BY DEF Increasing, Older

OrderOK(c) ==
    /\ Increasing(Sent(c)) /\ Older(Sent(c), logged + 1)
    /\ c \in pending => Older(Sent(c), firing)
    /\ pc[c] \notin {"replaying", "live", "leaving"} => got[c] = <<>>
    /\ pc[c] # "replaying" => todo[c] = <<>>
    /\ pc[c] \notin {"live", "leaving"} => queue[c] = <<>>

OrderInv == \A c \in Clients : OrderOK(c)

\* The history a client is replayed is in order, and older than whatever comes next.
LEMMA HistoryOrdered ==
  ASSUME TypeInv, HistoryInv
  PROVE  /\ history \in Seq(Message) /\ Increasing(history) /\ Older(history, logged + 1)
         /\ <<>> \o history \o <<>> = history
<1> DEFINE n == Recorded
<1>1. n \in Nat /\ n <= logged /\ logged \in Nat
  BY DEF Recorded, TypeInv, FiringOK, LogTypeOK
<1> HIDE DEF n
<1>2. /\ Len(Recent(n)) = n - Forgotten(n) /\ Forgotten(n) \in Nat
      /\ \A i \in 1..(n - Forgotten(n)) : Recent(n)[i] = Forgotten(n) + i
  BY <1>1, RecentTyped
<1>3. history = Recent(n) /\ history \in Seq(Message)
  BY DEF HistoryInv, TypeInv, LogTypeOK, n
<1>4. DOMAIN history = 1..(n - Forgotten(n)) /\ \A i \in DOMAIN history : history[i] = Forgotten(n) + i
  BY <1>2, <1>3
<1>5. Increasing(history) /\ Older(history, logged + 1)
  BY <1>1, <1>2, <1>4 DEF Increasing, Older
<1> QED BY <1>3, <1>5

\* A step that leaves one client's messages alone, and sends it none.
LEMMA OrderElsewhere ==
  ASSUME TypeInv, NEW d \in Clients, OrderOK(d),
         got'[d] = got[d], todo'[d] = todo[d], queue'[d] = queue[d], pc'[d] = pc[d],
         UNCHANGED <<logged, firing>>, pending' \subseteq pending
  PROVE  OrderOK(d)'
BY DEF OrderOK, Sent

LEMMA OrderLogging ==
  ASSUME TypeInv, OrderInv, Logging PROVE OrderInv'
<1> USE DEF TypeInv, LogTypeOK, FiringOK, SequencesOK, OrderInv
<1>1. CASE Fire
  <2> SUFFICES ASSUME NEW d \in Clients PROVE OrderOK(d)'
    OBVIOUS
  <2>1. Sent(d)' = Sent(d) /\ logged' = logged + 1 /\ firing' = logged + 1
    BY <1>1 DEF Fire, clientVars, Sent
  <2>2. Older(Sent(d), logged + 1) /\ Increasing(Sent(d))
    BY DEF OrderOK
  <2>3. \A i \in DOMAIN Sent(d) : Sent(d)[i] \in Message
    BY DEF Sent
  <2>4. Older(Sent(d), logged + 2)
    BY <2>2, <2>3 DEF Older, Message
  <2> QED BY <1>1, <2>1, <2>2, <2>4 DEF Fire, clientVars, OrderOK
<1>2. CASE FireHistory
  BY <1>2 DEF FireHistory, clientVars, OrderOK, Sent
<1>3. ASSUME NEW c \in Clients, FireTo(c), NEW d \in Clients PROVE OrderOK(d)'
  <2>1. UNCHANGED <<logged, firing, pc, got, todo>> /\ pending' = pending \ {c}
    BY <1>3 DEF FireTo
  <2>2. CASE d # c \/ queue' = queue
    BY <1>3, <2>1, <2>2, OrderElsewhere DEF FireTo
  <2>3. CASE d = c /\ queue' # queue
    <3>1. queue'[c] = Append(queue[c], firing) /\ firing \in Message /\ firing = logged /\ c \in subs
      BY <1>3, <2>3 DEF FireTo, Message
    <3>2. Sent(c) \in Seq(Message) /\ Sent(c)' = Append(Sent(c), firing)
      <4>1. got[c] \in Seq(Message) /\ todo[c] \in Seq(Message) /\ queue[c] \in Seq(Message)
        OBVIOUS
      <4>2. got[c] \o todo[c] \o Append(queue[c], firing) = Append(got[c] \o todo[c] \o queue[c], firing)
        BY <3>1, <4>1, QueueAppends
      <4>3. got[c] \o todo[c] \o queue[c] \in Seq(Message)
        BY <4>1
      <4> QED BY <2>1, <3>1, <4>2, <4>3 DEF Sent
    <3>3. Increasing(Sent(c)) /\ Older(Sent(c), firing)
      BY <1>3 DEF OrderOK, FireTo
    <3>4. Increasing(Sent(c)') /\ Older(Sent(c)', logged + 1)
      BY <3>1, <3>2, <3>3, AppendIncreasing DEF Message
    <3> QED BY <2>1, <2>3, <3>1, <3>4 DEF OrderOK
  <2> QED BY <2>2, <2>3
<1> QED BY <1>1, <1>2, <1>3 DEF Logging

LEMMA OrderClient ==
  ASSUME TypeInv, HistoryInv, OrderInv,
         NEW c \in Clients, Handler(c) \/ CloseSlow(c) \/ Connect(c) \/ Hangup(c)
  PROVE  OrderInv'
<1> USE DEF TypeInv, LogTypeOK, FiringOK, SequencesOK, OrderInv
<1> SUFFICES ASSUME NEW d \in Clients PROVE OrderOK(d)'
  OBVIOUS
<1>1. /\ UNCHANGED <<logged, firing, pending>>
      /\ d # c => got'[d] = got[d] /\ todo'[d] = todo[d] /\ queue'[d] = queue[d] /\ pc'[d] = pc[d]
  BY DEF Handler, Snapshot, Replay, ReplayFails, Join, Deliver, DeliverFails, Done, Leave, Forget,
         CloseSlow, Connect, Hangup
<1>2. CASE d # c
  BY <1>1, <1>2, OrderElsewhere
<1>3. CASE d = c /\ (CloseSlow(c) \/ Hangup(c) \/ Connect(c) \/ Done(c) \/ Join(c))
  BY <1>1, <1>3 DEF CloseSlow, Hangup, Connect, Done, Join, OrderOK, Sent
<1>4. CASE d = c /\ Snapshot(c)
  <2>1. got[c] = <<>> /\ queue[c] = <<>> /\ c \notin pending /\ pc'[c] = "replaying"
    BY <1>4 DEF Snapshot, OrderOK
  <2>2. Sent(c)' = history
    BY <1>4, <2>1, HistoryOrdered DEF Snapshot, Sent
  <2>3. got'[c] = <<>> /\ queue'[c] = <<>>
    BY <1>4, <2>1 DEF Snapshot
  <2> QED BY <1>1, <1>4, <2>1, <2>2, <2>3, HistoryOrdered DEF OrderOK
<1>5. CASE d = c /\ Replay(c)
  <2>1. got'[c] = Append(got[c], Head(todo[c])) /\ todo'[c] = Tail(todo[c]) /\ queue'[c] = queue[c]
        /\ pc[c] = "replaying" /\ pc'[c] = "replaying" /\ todo[c] # <<>>
    BY <1>5 DEF Replay
  <2>2. got'[c] \o todo'[c] = got[c] \o todo[c]
    <3>1. got[c] \in Seq(Message) /\ todo[c] \in Seq(Message)
      OBVIOUS
    <3>2. Append(got[c], Head(todo[c])) \o Tail(todo[c]) = got[c] \o todo[c]
      BY <2>1, <3>1, ReplayMoves
    <3> QED BY <2>1, <3>2
  <2>3. Sent(c)' = Sent(c)
    BY <2>1, <2>2 DEF Sent
  <2> QED BY <1>1, <1>5, <2>1, <2>3 DEF OrderOK
<1>6. CASE d = c /\ Deliver(c)
  <2>1. got'[c] = Append(got[c], Head(queue[c])) /\ todo' = todo /\ queue'[c] = Tail(queue[c])
        /\ pc[c] = "live" /\ pc'[c] = "live" /\ queue[c] # <<>> /\ todo[c] = <<>>
    BY <1>6 DEF Deliver, OrderOK
  <2>2. got'[c] \o queue'[c] = got[c] \o queue[c]
    <3>1. got[c] \in Seq(Message) /\ queue[c] \in Seq(Message)
      OBVIOUS
    <3>2. Append(got[c], Head(queue[c])) \o Tail(queue[c]) = got[c] \o queue[c]
      BY <2>1, <3>1, DeliverMoves
    <3> QED BY <2>1, <3>2
  <2>3. got'[c] \in Seq(Message) /\ queue'[c] \in Seq(Message)
    BY <2>1, TailTyped, AppendTyped
  <2>4. Sent(c)' = got'[c] \o queue'[c] /\ Sent(c) = got[c] \o queue[c]
    BY <2>1, <2>3 DEF Sent
  <2> QED BY <1>1, <1>6, <2>1, <2>2, <2>4 DEF OrderOK
<1>7. CASE d = c /\ DeliverFails(c)
  <2>1. got' = got /\ todo' = todo /\ queue'[c] = Tail(queue[c])
        /\ pc[c] = "live" /\ pc'[c] = "leaving" /\ queue[c] # <<>> /\ todo[c] = <<>>
    BY <1>7 DEF DeliverFails, OrderOK
  <2>2. Tail(queue[c]) \in Seq(Message)
    BY <2>1, TailTyped
  <2>3. Sent(c)' = got[c] \o Tail(queue[c]) /\ Sent(c) = got[c] \o queue[c]
    BY <2>1, <2>2 DEF Sent
  <2>4. Increasing(Sent(c)') /\ Older(Sent(c)', logged + 1) /\ (c \in pending => Older(Sent(c)', firing))
    <3>1. got[c] \in Seq(Message) /\ queue[c] \in Seq(Message) /\ queue[c] # <<>>
      BY <2>1
    <3>2. /\ Increasing(got[c] \o queue[c]) /\ Older(got[c] \o queue[c], logged + 1)
          /\ c \in pending => Older(got[c] \o queue[c], firing)
      BY <2>3 DEF OrderOK
    <3>3. /\ Increasing(got[c] \o Tail(queue[c])) /\ Older(got[c] \o Tail(queue[c]), logged + 1)
          /\ c \in pending => Older(got[c] \o Tail(queue[c]), firing)
      BY <3>1, <3>2, DropIncreasing
    <3> QED BY <2>3, <3>3
  <2> QED BY <1>1, <1>7, <2>1, <2>4 DEF OrderOK
<1>8. CASE d = c /\ (ReplayFails(c) \/ Leave(c))
  <2>1. got'[c] = <<>> /\ todo'[c] = <<>> /\ queue'[c] = <<>>
    BY <1>8 DEF ReplayFails, Leave, Forget
  <2> QED BY <1>1, <1>8, <2>1, EmptyOrdered DEF OrderOK, Sent
<1> QED BY <1>2, <1>3, <1>4, <1>5, <1>6, <1>7, <1>8 DEF Handler

LEMMA OrderStep ==
  ASSUME TypeInv, HistoryInv, OrderInv, [Next]_vars PROVE OrderInv'
<1>1. CASE UNCHANGED vars
  BY <1>1 DEF OrderInv, OrderOK, Sent, vars, clientVars
<1> QED BY <1>1, OrderLogging, OrderClient DEF Next

\* subscribe: the history is read under one mutex and the client joins under another,
\* with writes that may take seconds in between; no message reaches it twice or out of
\* order on the way, for any number of messages logged meanwhile.
THEOREM OrderKept == Spec => []Ordered
<1>1. Init => TypeInv /\ HistoryInv /\ OrderInv
  <2>1. Init => HistoryInv
    BY LogConstants DEF Init, HistoryInv, Recorded, Recent, Forgotten
  <2>2. Init => OrderInv
    BY EmptyOrdered DEF Init, OrderInv, OrderOK, Sent
  <2> QED BY <2>1, <2>2, TypeInit
<1>2. TypeInv /\ HistoryInv /\ OrderInv /\ [Next]_vars => TypeInv' /\ HistoryInv' /\ OrderInv'
  BY TypeStep, HistoryStep, OrderStep
<1>3. OrderInv => Ordered
  BY DEF OrderInv, OrderOK, Sent, Ordered
<1> QED BY <1>1, <1>2, <1>3, PTL DEF Spec
=============================================================================
