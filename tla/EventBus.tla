------------------------------- MODULE EventBus -------------------------------
(***************************************************************************)
(* gateway/bus.py: one stream and one consumer group of the in-memory bus. *)
(* Each member of Consumers is a thread that may be inside consume(); the  *)
(* service drains its bus from /admin/process, whose requests run in the   *)
(* threads of the server's pool, and nothing in the bus is locked.  A step *)
(* of a thread reads or writes one of the two fields of the group once, so *)
(* that two threads interleave between the test of the cursor, its uses    *)
(* and its increment, and between the test and the use of the pending      *)
(* list.                                                                   *)
(***************************************************************************)
EXTENDS Integers, Sequences, FiniteSets

CONSTANTS
  Consumers,      \* threads that call consume()
  MaxEntries,     \* bound on the entries published
  MaxFailures     \* bound on the handlers that raise

VARIABLES
  published,      \* length of the stream; entry i is the i-th, from 0
  cursor,         \* _Group.cursor: next entry to claim
  pending,        \* _Group.pending: claimed, not acknowledged
  pc,             \* where each consumer is in consume()
  seen,           \* the cursor as it last read it
  index,          \* the entry it has read off the pending list
  failures,       \* handlers that have raised
  handled,        \* history: entries whose handler has returned, in order
  acked           \* history: entries popped off the pending list, in order

vars == <<published, cursor, pending, pc, seen, index, failures, handled, acked>>

Init ==
  /\ published = 0 /\ cursor = 0 /\ pending = <<>>
  /\ pc = [k \in Consumers |-> "idle"]
  /\ seen = [k \in Consumers |-> 0] /\ index = [k \in Consumers |-> 0]
  /\ failures = 0 /\ handled = <<>> /\ acked = <<>>

Goto(k, label) == pc' = [pc EXCEPT ![k] = label]

Publish ==
  /\ published < MaxEntries
  /\ published' = published + 1
  /\ UNCHANGED <<cursor, pending, pc, seen, index, failures, handled, acked>>

\* A call on a stream nobody has published to returns at once.
Call(k) ==
  /\ pc[k] = "idle" /\ published > 0
  /\ Goto(k, "claim")
  /\ UNCHANGED <<published, cursor, pending, seen, index, failures, handled, acked>>

\* One turn of the claiming loop: the test, the cursor read for the append, the
\* append, and the increment as the read and the write that it is.
Claim(k) ==
  /\ pc[k] = "claim" /\ cursor < published
  /\ Goto(k, "read")
  /\ UNCHANGED <<published, cursor, pending, seen, index, failures, handled, acked>>

ReadCursor(k) ==
  /\ \/ pc[k] = "read" /\ Goto(k, "append")
     \/ pc[k] = "load" /\ Goto(k, "advance")
  /\ seen' = [seen EXCEPT ![k] = cursor]
  /\ UNCHANGED <<published, cursor, pending, index, failures, handled, acked>>

AddPending(k) ==
  /\ pc[k] = "append"
  /\ pending' = Append(pending, seen[k])
  /\ Goto(k, "load")
  /\ UNCHANGED <<published, cursor, seen, index, failures, handled, acked>>

Advance(k) ==
  /\ pc[k] = "advance"
  /\ cursor' = seen[k] + 1
  /\ Goto(k, "claim")
  /\ UNCHANGED <<published, pending, seen, index, failures, handled, acked>>

Claiming(k) == Claim(k) \/ ReadCursor(k) \/ AddPending(k) \/ Advance(k)

Claimed(k) ==
  /\ pc[k] = "claim" /\ cursor >= published
  /\ Goto(k, "work")
  /\ UNCHANGED <<published, cursor, pending, seen, index, failures, handled, acked>>

\* `while state.pending`, and the read of its head that follows.
Look(k) ==
  /\ pc[k] = "work" /\ pending # <<>>
  /\ Goto(k, "take")
  /\ UNCHANGED <<published, cursor, pending, seen, index, failures, handled, acked>>

FirstPending(entries) == Head(entries)

\* On a list that has run empty, the IndexError leaves consume().
Take(k) ==
  /\ pc[k] = "take"
  /\ IF pending = <<>>
     THEN Goto(k, "idle") /\ UNCHANGED index
     ELSE Goto(k, "entry") /\ index' = [index EXCEPT ![k] = FirstPending(pending)]
  /\ UNCHANGED <<published, cursor, pending, seen, failures, handled, acked>>

\* Past the end of the stream, another IndexError; the entry stays pending.
GetEntry(k) ==
  /\ pc[k] = "entry"
  /\ Goto(k, IF index[k] < published THEN "handling" ELSE "idle")
  /\ UNCHANGED <<published, cursor, pending, seen, index, failures, handled, acked>>

Return(k) ==
  /\ pc[k] = "work" /\ pending = <<>>
  /\ Goto(k, "idle")
  /\ UNCHANGED <<published, cursor, pending, seen, index, failures, handled, acked>>

HandlerReturns(k) ==
  /\ pc[k] = "handling"
  /\ handled' = Append(handled, index[k])
  /\ Goto(k, "ack")
  /\ UNCHANGED <<published, cursor, pending, seen, index, failures, acked>>

\* Mutated form of HandlerRaises: the entry is taken off before the exception
\* leaves consume().
HandlerRaisesDropped(k) ==
  /\ pc[k] = "handling" /\ failures < MaxFailures
  /\ failures' = failures + 1
  /\ pending' = Tail(pending) /\ acked' = Append(acked, Head(pending))
  /\ Goto(k, "idle")
  /\ UNCHANGED <<published, cursor, seen, index, handled>>

\* Mutated form of HandlerRaises: the entry goes to the back of the list.
HandlerRaisesRequeued(k) ==
  /\ pc[k] = "handling" /\ failures < MaxFailures
  /\ failures' = failures + 1
  /\ pending' = Append(Tail(pending), Head(pending))
  /\ Goto(k, "idle")
  /\ UNCHANGED <<published, cursor, seen, index, handled, acked>>

\* The exception leaves consume(); the entry stays pending.
HandlerRaises(k) ==
  /\ pc[k] = "handling" /\ failures < MaxFailures
  /\ failures' = failures + 1
  /\ Goto(k, "idle")
  /\ UNCHANGED <<published, cursor, pending, seen, index, handled, acked>>

\* pending.pop(0): what is first by now, whichever entry was handled.  On an
\* empty list the IndexError leaves consume().
Ack(k) ==
  /\ pc[k] = "ack"
  /\ IF pending = <<>>
     THEN Goto(k, "idle") /\ UNCHANGED <<pending, acked>>
     ELSE /\ pending' = Tail(pending)
          /\ acked' = Append(acked, Head(pending))
          /\ Goto(k, "work")
  /\ UNCHANGED <<published, cursor, seen, index, failures, handled>>

Consume(k) ==
  \/ Claiming(k) \/ Claimed(k) \/ Look(k) \/ Take(k) \/ GetEntry(k) \/ Return(k)
  \/ HandlerReturns(k) \/ HandlerRaises(k) \/ Ack(k)

Next == Publish \/ \E k \in Consumers : Call(k) \/ Consume(k)

Spec == Init /\ [][Next]_vars

-----------------------------------------------------------------------------
SeqRange(s) == {s[i] : i \in DOMAIN s}

\* "A group's entry stays pending until its handler returns": an entry is
\* taken off the list only once a handler has finished with it.
AckedWereHandled == SeqRange(acked) \subseteq SeqRange(handled)

\* What has been taken off the list, followed by what is on it, is the stream
\* as far as it was claimed: no entry is skipped, doubled or out of order,
\* however often a handler raised.
NothingSkipped ==
  \E n \in {cursor, cursor + 1} : acked \o pending = [i \in 1..n |-> i - 1]

\* Handlers finish with the entries in the order of the stream, each once: an
\* exception brings an entry back, a return never does.
HandledInOrderOnce == handled = [i \in 1..Len(handled) |-> i - 1]

=============================================================================
