------------------------------- MODULE WorkQueue -------------------------------
(***************************************************************************)
(* What intake and bus together promise: a queue of work without           *)
(* duplicates, worked from the front, an item being done once its handler  *)
(* has returned.  A restart of the process forgets it all.                 *)
(***************************************************************************)
EXTENDS Naturals, Sequences

CONSTANT Items

VARIABLES
  queue,          \* the items taken in, in order
  done            \* how many of them are done

Init == queue = <<>> /\ done = 0

TakeIn ==
  /\ \E item \in Items :
       /\ \A i \in DOMAIN queue : queue[i] # item
       /\ queue' = Append(queue, item)
  /\ UNCHANGED done

Work ==
  /\ done < Len(queue)
  /\ done' = done + 1
  /\ UNCHANGED queue

Forget == queue' = <<>> /\ done' = 0

Next == TakeIn \/ Work \/ Forget

Spec == Init /\ [][Next]_<<queue, done>>
=============================================================================
