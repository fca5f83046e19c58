------------------------------ MODULE LogServer ------------------------------
(***************************************************************************)
(* The live log (internal/websockets): a logrus hook that copies every log *)
(* message to the web clients that follow the log, and keeps the last ones *)
(* for a client that connects later.                                       *)
(*                                                                         *)
(* subscribersMu is held for the whole of Fire, historyMu only while the   *)
(* history is read or written, and never both by a client's handler: that  *)
(* is why Snapshot does not wait for mu and Join does.  Messages are       *)
(* numbered in the order in which Fire takes subscribersMu.                *)
(***************************************************************************)
EXTENDS Naturals, Sequences, SequencesExt

CONSTANTS
    Clients,        \* connections of browsers; one that dials again is another one
    HistorySize,    \* the 50 messages Fire keeps
    Buffer,         \* subscriberMessageBuffer, 16
    MaxMessages     \* bound: messages logged

VARIABLES
    logged,         \* messages Fire has been called with
    history,        \* LogServer.history
    subs,           \* LogServer.subscribers, named by their client
    firing, pending,\* the call that holds subscribersMu (0: none), whom it still has to send to
    pc,             \* per client: where its Handle is
    todo,           \* subscribe's copy of the history, what is left to send of it
    queue,          \* subscriber.msgs
    open,           \* is the websocket open
    slow,           \* did a closeSlow goroutine start for it
    got, joined     \* history: what the client was sent, and how much was logged when it joined

clientVars == <<pc, todo, queue, open, slow, got, joined>>
vars == <<logged, history, subs, firing, pending, clientVars>>

ASSUME LogConstants ==
    HistorySize \in Nat \ {0} /\ Buffer \in Nat \ {0} /\ MaxMessages \in Nat

Message == 1..MaxMessages

\* What is left of a client whose handler has returned.
Forget(c) ==
    /\ pc' = [pc EXCEPT ![c] = "gone"]
    /\ open' = [open EXCEPT ![c] = FALSE]
    /\ todo' = [todo EXCEPT ![c] = <<>>]
    /\ queue' = [queue EXCEPT ![c] = <<>>]
    /\ slow' = [slow EXCEPT ![c] = FALSE]
    /\ got' = [got EXCEPT ![c] = <<>>]
    /\ joined' = [joined EXCEPT ![c] = 0]

Init ==
    /\ logged = 0 /\ history = <<>> /\ subs = {} /\ firing = 0 /\ pending = {}
    /\ pc = [c \in Clients |-> "away"]
    /\ todo = [c \in Clients |-> <<>>] /\ queue = [c \in Clients |-> <<>>]
    /\ open = [c \in Clients |-> FALSE] /\ slow = [c \in Clients |-> FALSE]
    /\ got = [c \in Clients |-> <<>>] /\ joined = [c \in Clients |-> 0]

-----------------------------------------------------------------------------
(* hook.Fire, for anything logged at Info or above, Handle's own warnings  *)
(* included.                                                               *)

Fire ==
    /\ firing = 0 /\ logged < MaxMessages
    /\ logged' = logged + 1
    /\ firing' = logged + 1
    /\ pending' = subs
    /\ UNCHANGED <<history, subs, clientVars>>

\* Mutant: a message that does not fit is skipped, and the client stays.
SilentFireTo(c) ==
    /\ c \in pending
    /\ pending' = pending \ {c}
    /\ queue' = [queue EXCEPT ![c] = IF Len(@) < Buffer THEN Append(@, firing) ELSE @]
    /\ UNCHANGED <<logged, history, subs, firing, pc, todo, open, slow, got, joined>>

\* Mutant: the send has no default case.
BlockingFireTo(c) ==
    /\ c \in pending /\ Len(queue[c]) < Buffer
    /\ pending' = pending \ {c}
    /\ queue' = [queue EXCEPT ![c] = Append(@, firing)]
    /\ UNCHANGED <<logged, history, subs, firing, pc, todo, open, slow, got, joined>>

\* The send never blocks: a full channel loses the message and its client.
FireTo(c) ==
    /\ c \in pending
    /\ pending' = pending \ {c}
    /\ IF Len(queue[c]) < Buffer
         THEN /\ queue' = [queue EXCEPT ![c] = Append(@, firing)]
              /\ UNCHANGED slow
         ELSE /\ slow' = [slow EXCEPT ![c] = TRUE]
              /\ UNCHANGED queue
    /\ UNCHANGED <<logged, history, subs, firing, pc, todo, open, got, joined>>

\* Mutant: off by one.
RememberedTooMany(h, m) == Append(IF Len(h) <= HistorySize THEN h ELSE Tail(h), m)

Remembered(h, m) == Append(IF Len(h) < HistorySize THEN h ELSE Tail(h), m)

FireHistory ==
    /\ firing # 0 /\ pending = {}
    /\ history' = Remembered(history, firing)
    /\ firing' = 0
    /\ UNCHANGED <<logged, subs, pending, clientVars>>

\* closeSlow runs in its own goroutine, some time after Fire gave up on the client.
CloseSlow(c) ==
    /\ slow[c] /\ open[c]
    /\ open' = [open EXCEPT ![c] = FALSE]
    /\ UNCHANGED <<logged, history, subs, firing, pending, pc, todo, queue, slow, got, joined>>

-----------------------------------------------------------------------------
(* Handle and subscribe, one goroutine per client                          *)

\* Mutant: the client subscribes before it reads the history.
EarlyConnect(c) ==
    /\ pc[c] = "away" /\ firing = 0
    /\ pc' = [pc EXCEPT ![c] = "accepted"]
    /\ open' = [open EXCEPT ![c] = TRUE]
    /\ subs' = subs \cup {c}
    /\ UNCHANGED <<logged, history, firing, pending, todo, queue, slow, got, joined>>

Connect(c) ==
    /\ pc[c] = "away"
    /\ pc' = [pc EXCEPT ![c] = "accepted"]
    /\ open' = [open EXCEPT ![c] = TRUE]
    /\ UNCHANGED <<logged, history, subs, firing, pending, todo, queue, slow, got, joined>>

\* The browser closes the page, or the network drops it.
Hangup(c) ==
    /\ open[c]
    /\ open' = [open EXCEPT ![c] = FALSE]
    /\ UNCHANGED <<logged, history, subs, firing, pending, pc, todo, queue, slow, got, joined>>

Snapshot(c) ==
    /\ pc[c] = "accepted"
    /\ todo' = [todo EXCEPT ![c] = history]
    /\ pc' = [pc EXCEPT ![c] = "replaying"]
    /\ UNCHANGED <<logged, history, subs, firing, pending, queue, open, slow, got, joined>>

Replay(c) ==
    /\ pc[c] = "replaying" /\ todo[c] # <<>> /\ open[c]
    /\ got' = [got EXCEPT ![c] = Append(@, Head(todo[c]))]
    /\ todo' = [todo EXCEPT ![c] = Tail(@)]
    /\ UNCHANGED <<logged, history, subs, firing, pending, pc, queue, open, slow, joined>>

\* writeTimeout gives up after five seconds, or the connection is gone: Handle
\* returns, and its deferred Close runs, without the client ever having subscribed.
ReplayFails(c) ==
    /\ pc[c] = "replaying" /\ todo[c] # <<>>
    /\ Forget(c)
    /\ UNCHANGED <<logged, history, subs, firing, pending>>

\* addSubscriber.  Nothing looked at the history again since Snapshot.
Join(c) ==
    /\ pc[c] = "replaying" /\ todo[c] = <<>> /\ firing = 0
    /\ subs' = subs \cup {c}
    /\ pc' = [pc EXCEPT ![c] = "live"]
    /\ joined' = [joined EXCEPT ![c] = logged]
    /\ UNCHANGED <<logged, history, firing, pending, todo, queue, open, slow, got>>

Deliver(c) ==
    /\ pc[c] = "live" /\ queue[c] # <<>> /\ open[c]
    /\ got' = [got EXCEPT ![c] = Append(@, Head(queue[c]))]
    /\ queue' = [queue EXCEPT ![c] = Tail(@)]
    /\ UNCHANGED <<logged, history, subs, firing, pending, pc, todo, open, slow, joined>>

DeliverFails(c) ==
    /\ pc[c] = "live" /\ queue[c] # <<>>
    /\ queue' = [queue EXCEPT ![c] = Tail(@)]
    /\ pc' = [pc EXCEPT ![c] = "leaving"]
    /\ UNCHANGED <<logged, history, subs, firing, pending, todo, open, slow, got, joined>>

\* Mutant: without CloseRead a browser that goes away is not noticed.
DeafDone(c) ==
    /\ pc[c] = "live" /\ ~open[c] /\ slow[c]
    /\ pc' = [pc EXCEPT ![c] = "leaving"]
    /\ UNCHANGED <<logged, history, subs, firing, pending, todo, queue, open, slow, got, joined>>

\* CloseRead cancels the context once the connection is closed, from either end.
Done(c) ==
    /\ pc[c] = "live" /\ ~open[c]
    /\ pc' = [pc EXCEPT ![c] = "leaving"]
    /\ UNCHANGED <<logged, history, subs, firing, pending, todo, queue, open, slow, got, joined>>

\* Mutant: nothing is deleted.
StayingLeave(c) ==
    /\ pc[c] = "leaving" /\ firing = 0
    /\ Forget(c)
    /\ UNCHANGED <<logged, history, subs, firing, pending>>

\* The deferred deleteSubscriber, then Handle's deferred Close.
Leave(c) ==
    /\ pc[c] = "leaving" /\ firing = 0
    /\ subs' = subs \ {c}
    /\ Forget(c)
    /\ UNCHANGED <<logged, history, firing, pending>>

-----------------------------------------------------------------------------
Logging == Fire \/ FireHistory \/ \E c \in Clients : FireTo(c)

Handler(c) ==
    \/ Snapshot(c) \/ Replay(c) \/ ReplayFails(c) \/ Join(c)
    \/ Deliver(c) \/ DeliverFails(c) \/ Done(c) \/ Leave(c)

Next ==
    \/ Logging
    \/ \E c \in Clients : Handler(c) \/ CloseSlow(c) \/ Connect(c) \/ Hangup(c)

\* Goroutines run; a write ends after at most five seconds, one way or the other;
\* sync.Mutex hands itself to a waiter it has starved.  Nobody has to log anything,
\* and no client has to connect or to hang up.
Fairness ==
    /\ WF_vars(FireHistory)
    /\ \A c \in Clients :
         /\ WF_vars(FireTo(c)) /\ WF_vars(CloseSlow(c))
         /\ WF_vars(Snapshot(c))
         /\ WF_vars(Replay(c) \/ ReplayFails(c))
         /\ WF_vars(Deliver(c) \/ DeliverFails(c) \/ Done(c))
         /\ SF_vars(Join(c)) /\ SF_vars(Leave(c))

Spec == Init /\ [][Next]_vars /\ Fairness

-----------------------------------------------------------------------------
(* Properties                                                              *)

\* Types; a subscriber's handler is past addSubscriber and before the end of its
\* deferred deleteSubscriber, and no queue or history outgrows its limit.
LogTypeOK ==
    /\ logged \in 0..MaxMessages /\ firing \in 0..MaxMessages
    /\ history \in Seq(Message) /\ Len(history) <= HistorySize
    /\ subs = {c \in Clients : pc[c] \in {"live", "leaving"}}
    /\ pending \subseteq subs
    /\ pc \in [Clients -> {"away", "accepted", "replaying", "live", "leaving", "gone"}]
    /\ open \in [Clients -> BOOLEAN] /\ slow \in [Clients -> BOOLEAN]
    /\ joined \in [Clients -> 0..MaxMessages]
    /\ \A c \in Clients :
         /\ todo[c] \in Seq(Message) /\ got[c] \in Seq(Message)
         /\ queue[c] \in Seq(Message) /\ Len(queue[c]) <= Buffer

Increasing(s) == \A i, j \in DOMAIN s : i < j => s[i] < s[j]

\* A client sees messages in the order they were logged and none of them twice,
\* the history it is replayed and the messages that follow it taken together:
\* subscribe reads the history and joins under two different mutexes.
Ordered == \A c \in Clients : Increasing(got[c] \o todo[c] \o queue[c])

\* Once subscribed, a client whose connection is up has been sent, or still has in
\* its queue, everything logged since it joined, unless Fire gave it up as too slow:
\* no message is lost silently.
GapMeansSlow ==
    \A c \in Clients :
        pc[c] = "live" /\ ~slow[c] =>
            \A m \in (joined[c] + 1)..logged :
                \/ m \in Range(got[c]) \cup Range(queue[c])
                \/ m = firing /\ c \in pending

\* The history is the last HistorySize messages logged, in their order, whatever
\* happened to the clients Fire sent them to (the message being fired comes last).
HistoryIsRecent ==
    LET recorded == IF firing = 0 THEN logged ELSE logged - 1
        first == IF recorded > HistorySize THEN recorded - HistorySize ELSE 0
    IN  history = [i \in 1..(recorded - first) |-> first + i]

\* No client can stop the program from logging: a call of Fire ends, although the
\* clients it sends to may be slow, gone, or waiting for the mutex it holds.
LoggingGoesOn == (firing # 0) ~> (firing = 0)

\* A subscriber that is too slow, or whose connection is closed, is removed.
DeadSubscribersLeave ==
    \A c \in Clients : (c \in subs /\ (slow[c] \/ ~open[c])) ~> (c \notin subs)
=============================================================================
