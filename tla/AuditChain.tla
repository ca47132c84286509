------------------------------- MODULE AuditChain -------------------------------
(***************************************************************************)
(* The audit chain of the service: storage/sqlite.py over the record       *)
(* format and the digest of audit/chain.py.  Threads of the server's pool  *)
(* append through one connection, under one lock.  A step is a statement   *)
(* against the database; the insert and the commit may raise, and the      *)
(* process may be restarted on the same file.  A commit that fails leaves  *)
(* the transaction open (the database is busy) or rolled back (the disk is *)
(* full): rows of earlier appends that raised can be in it.                *)
(***************************************************************************)
EXTENDS Integers, Sequences

CONSTANTS
  Threads,        \* threads that append
  None,           \* no thread
  Contents,       \* what a record says: case, stage, payload and time
  MaxRecords,     \* bound on the rows of the table
  MaxErrors,      \* bound on the statements that raise
  MaxRestarts     \* bound on restarts

ASSUME AuditAssumption ==
  /\ None \notin Threads
  /\ MaxRecords \in Nat /\ MaxErrors \in Nat /\ MaxRestarts \in Nat

VARIABLES
  rows,           \* the table as the connection sees it, in the order of seq
  disk,           \* the table as far as it is committed
  lock,           \* the thread that holds _lock
  pc,             \* where each thread is in append()
  draft,          \* the record it builds
  errors,         \* statements that have raised
  restarts,       \* restarts so far
  returned        \* history: the records that append() has returned

vars == <<rows, disk, lock, pc, draft, errors, restarts, returned>>

Genesis == <<>>

\* SHA-256 of the previous hash and the body.  Of the hash only this is used,
\* that it differs whenever either of the two does: a pair serves as well.
Digest(r) == Append(r.prev, <<r.seq, r.content>>)

Blank(content) == [seq |-> 0, content |-> content, prev |-> Genesis, hash |-> Genesis]

-----------------------------------------------------------------------------
\* Mutated form of Fits: every record is only compared with its own hash.
FitsByHash(table, i) == table[i].hash = Digest(table[i])

\* One turn of the loop of verify().
Fits(table, i) ==
  /\ table[i].seq = i - 1
  /\ table[i].prev = IF i = 1 THEN Genesis ELSE table[i - 1].hash
  /\ table[i].hash = Digest(table[i])

Intact(table) == \A i \in DOMAIN table : Fits(table, i)

\* verify() names this record as the first that is wrong.
FirstBroken(table, i) ==
  /\ i \in DOMAIN table /\ ~Fits(table, i)
  /\ \A j \in 1..(i - 1) : Fits(table, j)

-----------------------------------------------------------------------------
\* What a thread's draft is before its first call is never read.
Init ==
  /\ rows = <<>> /\ disk = <<>>
  /\ lock = None
  /\ pc = [t \in Threads |-> "idle"]
  /\ draft \in [Threads -> {Blank(content) : content \in Contents}]
  /\ errors = 0 /\ restarts = 0 /\ returned = {}

\* append() is called, and waits for the lock.
Call(t) ==
  /\ pc[t] = "idle" /\ Len(rows) < MaxRecords
  /\ pc' = [pc EXCEPT ![t] = "wait"]
  /\ \E content \in Contents : draft' = [draft EXCEPT ![t] = Blank(content)]
  /\ UNCHANGED <<rows, disk, lock, errors, restarts, returned>>

\* Mutated form of Acquire: there is no lock.
AcquireUnlocked(t) ==
  /\ pc[t] = "wait"
  /\ pc' = [pc EXCEPT ![t] = "count"]
  /\ UNCHANGED <<rows, disk, lock, draft, errors, restarts, returned>>

Acquire(t) ==
  /\ pc[t] = "wait" /\ lock = None
  /\ lock' = t
  /\ pc' = [pc EXCEPT ![t] = "count"]
  /\ UNCHANGED <<rows, disk, draft, errors, restarts, returned>>

Count(t) ==
  /\ pc[t] = "count"
  /\ draft' = [draft EXCEPT ![t].seq = Len(rows)]
  /\ pc' = [pc EXCEPT ![t] = "link"]
  /\ UNCHANGED <<rows, disk, lock, errors, restarts, returned>>

\* _last_hash, and the digest of the record.
LastHash(t) ==
  LET prev == IF rows = <<>> THEN Genesis ELSE rows[Len(rows)].hash
      record == [draft[t] EXCEPT !.prev = prev]
  IN /\ pc[t] = "link"
     /\ draft' = [draft EXCEPT ![t] = [record EXCEPT !.hash = Digest(record)]]
     /\ pc' = [pc EXCEPT ![t] = "insert"]
     /\ UNCHANGED <<rows, disk, lock, errors, restarts, returned>>

\* An exception or a return leaves the `with` block.
Release(t) ==
  /\ lock' = None
  /\ pc' = [pc EXCEPT ![t] = "idle"]

\* seq is the primary key.
SeqTaken(seq) == \E i \in DOMAIN rows : rows[i].seq = seq

Insert(t) ==
  /\ pc[t] = "insert"
  /\ IF SeqTaken(draft[t].seq)
     THEN Release(t) /\ UNCHANGED rows
     ELSE /\ rows' = Append(rows, draft[t])
          /\ pc' = [pc EXCEPT ![t] = "commit"]
          /\ UNCHANGED lock
  /\ UNCHANGED <<disk, draft, errors, restarts, returned>>

\* The statement is undone, or all of the open transaction.
InsertRaises(t) ==
  /\ pc[t] = "insert" /\ errors < MaxErrors
  /\ errors' = errors + 1
  /\ rows' \in {rows, disk}
  /\ Release(t)
  /\ UNCHANGED <<disk, draft, restarts, returned>>

Commit(t) ==
  /\ pc[t] = "commit"
  /\ disk' = rows
  /\ returned' = returned \cup {draft[t]}
  /\ Release(t)
  /\ UNCHANGED <<rows, draft, errors, restarts>>

\* Mutated form of CommitRaises: the exception is swallowed.
CommitRaisesSilently(t) ==
  /\ pc[t] = "commit" /\ errors < MaxErrors
  /\ errors' = errors + 1
  /\ rows' \in {rows, disk}
  /\ returned' = returned \cup {draft[t]}
  /\ Release(t)
  /\ UNCHANGED <<disk, draft, restarts>>

\* Mutated form of CommitRaises: the lock is released on the way out by
\* statements that the exception skips.
CommitRaisesLocked(t) ==
  /\ pc[t] = "commit" /\ errors < MaxErrors
  /\ errors' = errors + 1
  /\ rows' \in {rows, disk}
  /\ pc' = [pc EXCEPT ![t] = "idle"]
  /\ UNCHANGED <<disk, lock, draft, restarts, returned>>

\* Busy: the row stays in the open transaction, and a later commit takes it
\* along.  Full: the transaction is rolled back.
CommitRaises(t) ==
  /\ pc[t] = "commit" /\ errors < MaxErrors
  /\ errors' = errors + 1
  /\ rows' \in {rows, disk}
  /\ Release(t)
  /\ UNCHANGED <<disk, draft, restarts, returned>>

\* Mutated form of Restart: the table is created whether it exists or not.
RestartAfresh ==
  /\ restarts < MaxRestarts
  /\ restarts' = restarts + 1
  /\ rows' = <<>> /\ disk' = <<>>
  /\ lock' = None
  /\ pc' = [t \in Threads |-> "idle"]
  /\ UNCHANGED <<draft, errors, returned>>

\* A new process opens the file.
Restart ==
  /\ restarts < MaxRestarts
  /\ restarts' = restarts + 1
  /\ rows' = disk
  /\ lock' = None
  /\ pc' = [t \in Threads |-> "idle"]
  /\ UNCHANGED <<disk, draft, errors, returned>>

\* Every append has returned, and the table is as long as the bound allows.
Full == Len(rows) >= MaxRecords /\ (\A t \in Threads : pc[t] = "idle") /\ UNCHANGED vars

Proceed(t) ==
  \/ Acquire(t) \/ Count(t) \/ LastHash(t)
  \/ Insert(t) \/ InsertRaises(t) \/ Commit(t) \/ CommitRaises(t)

Next == (\E t \in Threads : Call(t) \/ Proceed(t)) \/ Restart \/ Full

Spec == Init /\ [][Next]_vars

\* A thread inside append() goes on; nobody has to call it.
FairSpec == Spec /\ \A t \in Threads : WF_vars(Proceed(t))

-----------------------------------------------------------------------------
Records ==
  [seq : Nat, content : Contents,
   prev : Seq(Nat \X Contents), hash : Seq(Nat \X Contents)]

\* The type of every variable.
TypeOK ==
  /\ rows \in Seq(Records) /\ disk \in Seq(Records)
  /\ lock \in Threads \cup {None}
  /\ pc \in [Threads -> {"idle", "wait", "count", "link", "insert", "commit"}]
  /\ draft \in [Threads -> Records]
  /\ errors \in 0..MaxErrors /\ restarts \in 0..MaxRestarts
  /\ returned \subseteq Records

\* Whatever threads append, whatever raises and whenever the process restarts,
\* the chain verifies, the open transaction included: "append must be atomic
\* (read last hash + insert)", "re-verifiable after reopen".
AlwaysIntact == Intact(rows) /\ Intact(disk)

\* What is committed is never taken back or overwritten: the file only grows at
\* its end, though transactions are rolled back and seqs are given out anew.
AppendOnly ==
  [][Len(disk) <= Len(disk') /\ \A i \in DOMAIN disk : disk'[i] = disk[i]]_vars

\* A record that append() has returned is in the file from then on, which the
\* callers rely on when they act next; one whose append raised may be there too.
ReturnedIsKept == \A r \in returned : \E i \in DOMAIN disk : disk[i] = r

Without(table, i) == SubSeq(table, 1, i - 1) \o SubSeq(table, i + 1, Len(table))

\* "Tampering with a row breaks the chain at that exact seq": whatever a row of
\* the file is made to say instead, verify() names it; and a row that is deleted
\* is missed at its place, unless it is the last one: verify() cannot know that
\* the chain went on.
TamperingDetected ==
  /\ \A i \in DOMAIN disk : \A content \in Contents \ {disk[i].content} :
       FirstBroken([disk EXCEPT ![i].content = content], i)
  /\ \A i \in 1..(Len(disk) - 1) : FirstBroken(Without(disk, i), i)

\* An append that was called comes to an end: no exception leaves the lock held.
AppendsEnd == \A t \in Threads : pc[t] = "wait" ~> pc[t] = "idle"
=============================================================================
