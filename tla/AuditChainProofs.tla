---------------------------- MODULE AuditChainProofs ----------------------------
(***************************************************************************)
(* The audit chain verifies at every moment, keeps what append() returned, *)
(* and shows an edited or deleted row at its place; and what is answered   *)
(* from it stays true: for any threads, contents, errors and restarts.     *)
(***************************************************************************)
EXTENDS LedgerQuestions, TLAPS

InsideLock == {"count", "link", "insert", "commit"}

\* Only the holder of the lock is between the first read and the commit.
LockKept == \A t \in Threads : pc[t] \in InsideLock => lock = t

LastHashOf(table) == IF table = <<>> THEN Genesis ELSE table[Len(table)].hash

\* What a thread has read of the table is still so.
DraftCurrent ==
  \A t \in Threads :
    /\ pc[t] \in {"link", "insert"} => draft[t].seq = Len(rows)
    /\ pc[t] = "insert" => /\ draft[t].prev = LastHashOf(rows)
                           /\ draft[t].hash = Digest(draft[t])
    /\ pc[t] = "commit" => /\ Len(rows) > 0
                           /\ rows[Len(rows)] = draft[t]

\* The open transaction adds to the file and changes nothing in it.
DiskIsPrefix ==
  /\ Len(disk) <= Len(rows)
  /\ \A i \in DOMAIN disk : rows[i] = disk[i]

Inv ==
  /\ TypeOK /\ AlwaysIntact /\ ReturnedIsKept
  /\ LockKept /\ DraftCurrent /\ DiskIsPrefix

-----------------------------------------------------------------------------
\* A digest is a hash.
LEMMA DigestType ==
  ASSUME NEW r \in Records
  PROVE  Digest(r) \in Seq(Nat \X Contents)
BY DEF Digest, Records

\* An intact table stays intact when a record is added that continues it.
LEMMA ContinueIntact ==
  ASSUME NEW table \in Seq(Records), NEW r \in Records, Intact(table),
         r.seq = Len(table), r.prev = LastHashOf(table), r.hash = Digest(r)
  PROVE  Intact(Append(table, r))
<1> DEFINE longer == Append(table, r)
<1>1. /\ Len(longer) = Len(table) + 1
      /\ DOMAIN longer = 1..(Len(table) + 1)
      /\ longer[Len(table) + 1] = r
      /\ \A i \in 1..Len(table) : longer[i] = table[i]
  OBVIOUS
<1>2. SUFFICES ASSUME NEW i \in 1..(Len(table) + 1) PROVE Fits(longer, i)
  BY <1>1 DEF Intact
<1>3. CASE i = Len(table) + 1
  <2>1. i = 1 <=> table = <<>>
    BY <1>3
  <2>2. i # 1 => longer[i - 1] = table[Len(table)]
    BY <1>1, <1>3
  <2> QED
    BY <1>1, <1>3, <2>1, <2>2 DEF Fits, LastHashOf, Digest
<1>4. CASE i \in 1..Len(table)
  <2>1. Fits(table, i)
    BY <1>4 DEF Intact
  <2>2. longer[i] = table[i] /\ (i # 1 => longer[i - 1] = table[i - 1])
    BY <1>1, <1>4
  <2> QED
    BY <2>1, <2>2 DEF Fits, Digest
<1> QED
  BY <1>3, <1>4

\* One record says one thing: a digest betrays a changed content.
LEMMA DigestTells ==
  ASSUME NEW prev \in Seq(Nat \X Contents), NEW n \in Nat,
         NEW c \in Contents, NEW d \in Contents,
         Append(prev, <<n, c>>) = Append(prev, <<n, d>>)
  PROVE  c = d
<1>1. Append(prev, <<n, c>>)[Len(prev) + 1] = <<n, c>>
  OBVIOUS
<1>2. Append(prev, <<n, d>>)[Len(prev) + 1] = <<n, d>>
  OBVIOUS
<1> QED
  BY <1>1, <1>2

-----------------------------------------------------------------------------
LEMMA InitInv == Init => Inv
<1> SUFFICES ASSUME Init PROVE Inv
  OBVIOUS
<1> USE DEF Init
<1>1. TypeOK
  <2>1. \A content \in Contents : Blank(content) \in Records
    BY DEF Blank, Records, Genesis
  <2>2. draft \in [Threads -> Records]
    BY <2>1
  <2> QED
    BY <2>2, AuditAssumption DEF TypeOK
<1>2. AlwaysIntact
  BY DEF AlwaysIntact, Intact
<1> QED
  BY <1>1, <1>2 DEF Inv, ReturnedIsKept, LockKept, DraftCurrent, DiskIsPrefix, InsideLock

-----------------------------------------------------------------------------
\* The table is untouched, and so is what threads have read of it.
LEMMA TableUntouched ==
  ASSUME Inv, UNCHANGED <<rows, disk, returned>>
  PROVE  AlwaysIntact' /\ ReturnedIsKept' /\ DiskIsPrefix'
BY DEF Inv, AlwaysIntact, Intact, Fits, Digest, ReturnedIsKept, DiskIsPrefix

\* The thread inside the lock is there alone.
LEMMA Alone ==
  ASSUME Inv, NEW t \in Threads, pc[t] \in InsideLock
  PROVE  lock = t /\ \A u \in Threads : u # t => pc[u] \notin InsideLock
BY DEF Inv, LockKept

LEMMA CallKeeps ==
  ASSUME Inv, NEW t \in Threads, Call(t)
  PROVE  Inv'
<1>1. TypeOK'
  <2>1. \A content \in Contents : Blank(content) \in Records
    BY DEF Blank, Records, Genesis
  <2> QED
    BY <2>1 DEF Inv, TypeOK, Call
<1>2. AlwaysIntact' /\ ReturnedIsKept' /\ DiskIsPrefix'
  BY TableUntouched DEF Call
<1>3. LockKept' /\ DraftCurrent'
  BY DEF Inv, TypeOK, LockKept, DraftCurrent, InsideLock, Call, Digest
<1> QED
  BY <1>1, <1>2, <1>3 DEF Inv

LEMMA AcquireKeeps ==
  ASSUME Inv, NEW t \in Threads, Acquire(t)
  PROVE  Inv'
<1>1. TypeOK'
  BY DEF Inv, TypeOK, Acquire
<1>2. AlwaysIntact' /\ ReturnedIsKept' /\ DiskIsPrefix'
  BY TableUntouched DEF Acquire
<1>3. LockKept'
  BY AuditAssumption DEF Inv, TypeOK, LockKept, InsideLock, Acquire
<1>4. DraftCurrent'
  BY DEF Inv, TypeOK, DraftCurrent, Acquire, Digest
<1> QED
  BY <1>1, <1>2, <1>3, <1>4 DEF Inv

LEMMA CountKeeps ==
  ASSUME Inv, NEW t \in Threads, Count(t)
  PROVE  Inv'
<1>1. TypeOK'
  <2>1. Len(rows) \in Nat /\ draft[t] \in Records
    BY DEF Inv, TypeOK
  <2>2. [draft[t] EXCEPT !.seq = Len(rows)] \in Records
    BY <2>1 DEF Records
  <2>3. draft' = [draft EXCEPT ![t] = [draft[t] EXCEPT !.seq = Len(rows)]]
    BY DEF Count
  <2>4. draft' \in [Threads -> Records]
    BY <2>2, <2>3 DEF Inv, TypeOK
  <2> QED
    BY <2>4 DEF Inv, TypeOK, Count
<1>2. AlwaysIntact' /\ ReturnedIsKept' /\ DiskIsPrefix'
  BY TableUntouched DEF Count
<1>3. LockKept'
  BY DEF Inv, TypeOK, LockKept, InsideLock, Count
<1>4. DraftCurrent'
  <2>1. \A u \in Threads : u # t => pc'[u] = pc[u] /\ draft'[u] = draft[u]
    BY DEF Inv, TypeOK, Count
  <2>2. pc'[t] = "link" /\ draft'[t].seq = Len(rows) /\ rows' = rows
    BY DEF Inv, TypeOK, Records, Count
  <2> QED
    BY <2>1, <2>2 DEF Inv, DraftCurrent, Digest, LastHashOf
<1> QED
  BY <1>1, <1>2, <1>3, <1>4 DEF Inv

LEMMA LastHashKeeps ==
  ASSUME Inv, NEW t \in Threads, LastHash(t)
  PROVE  Inv'
<1> DEFINE record == [draft[t] EXCEPT !.prev = LastHashOf(rows)]
<1>1. /\ pc[t] = "link" /\ rows' = rows
      /\ draft' = [draft EXCEPT ![t] = [record EXCEPT !.hash = Digest(record)]]
      /\ pc' = [pc EXCEPT ![t] = "insert"]
  BY DEF LastHash, LastHashOf
<1>2. LastHashOf(rows) \in Seq(Nat \X Contents)
  <2>1. rows \in Seq(Records)
    BY DEF Inv, TypeOK
  <2>2. CASE rows = <<>>
    BY <2>2 DEF LastHashOf, Genesis
  <2>3. CASE rows # <<>>
    <3>1. rows[Len(rows)] \in Records
      BY <2>1, <2>3
    <3> QED
      BY <3>1, <2>3 DEF LastHashOf, Records
  <2> QED
    BY <2>2, <2>3
<1>3. record \in Records
  BY <1>2 DEF Inv, TypeOK, Records
<1>4. [record EXCEPT !.hash = Digest(record)] \in Records
  BY <1>3, DigestType DEF Records
<1>5. TypeOK'
  BY <1>1, <1>4 DEF Inv, TypeOK, LastHash
<1>6. AlwaysIntact' /\ ReturnedIsKept' /\ DiskIsPrefix'
  BY TableUntouched DEF LastHash
<1>7. LockKept'
  BY DEF Inv, TypeOK, LockKept, InsideLock, LastHash
<1>8. DraftCurrent'
  <2>1. \A u \in Threads : u # t => pc'[u] = pc[u] /\ draft'[u] = draft[u]
    BY <1>1 DEF Inv, TypeOK
  <2>2. draft'[t] = [record EXCEPT !.hash = Digest(record)] /\ pc'[t] = "insert"
    BY <1>1 DEF Inv, TypeOK
  <2>3. /\ draft'[t].seq = draft[t].seq /\ draft'[t].prev = LastHashOf(rows)
        /\ draft'[t].hash = Digest(record) /\ draft'[t].content = draft[t].content
    BY <2>2, <1>3 DEF Inv, TypeOK, Records
  <2>4. record.seq = draft[t].seq /\ record.prev = LastHashOf(rows)
        /\ record.content = draft[t].content
    BY DEF Inv, TypeOK, Records
  <2>5. draft'[t].hash = Append(draft'[t].prev, <<draft'[t].seq, draft'[t].content>>)
    BY <2>3, <2>4 DEF Digest
  <2>6. draft[t].seq = Len(rows)
    BY <1>1 DEF Inv, DraftCurrent
  <2>7. LastHashOf(rows)' = LastHashOf(rows)
    BY <1>1 DEF LastHashOf
  <2>8. DraftCurrent
    BY DEF Inv
  <2>9. Digest(draft'[t]) = draft'[t].hash
    BY <2>5 DEF Digest
  <2> QED
    BY <1>1, <2>1, <2>2, <2>3, <2>6, <2>7, <2>8, <2>9 DEF DraftCurrent, Digest
<1> QED
  BY <1>5, <1>6, <1>7, <1>8 DEF Inv

LEMMA InsertKeeps ==
  ASSUME Inv, NEW t \in Threads, Insert(t)
  PROVE  Inv'
<1>1. pc[t] = "insert" /\ lock = t /\ \A u \in Threads : u # t => pc[u] \notin InsideLock
  BY Alone DEF Insert, InsideLock
<1>2. CASE SeqTaken(draft[t].seq)
  <2>1. TypeOK'
    BY <1>2 DEF Inv, TypeOK, Insert, Release
  <2>2. AlwaysIntact' /\ ReturnedIsKept' /\ DiskIsPrefix'
    BY <1>2, TableUntouched DEF Insert
  <2>3. \A u \in Threads : pc'[u] \notin InsideLock
    BY <1>1, <1>2 DEF Inv, TypeOK, Insert, Release, InsideLock
  <2> QED
    BY <2>1, <2>2, <2>3 DEF Inv, LockKept, DraftCurrent, InsideLock
<1>3. CASE ~SeqTaken(draft[t].seq)
  <2>1. /\ rows' = Append(rows, draft[t]) /\ pc' = [pc EXCEPT ![t] = "commit"]
        /\ UNCHANGED <<lock, disk, draft, errors, restarts, returned>>
    BY <1>3 DEF Insert
  <2>2. rows \in Seq(Records) /\ draft[t] \in Records /\ disk \in Seq(Records)
    BY DEF Inv, TypeOK
  <2>3. /\ rows' \in Seq(Records) /\ Len(rows') = Len(rows) + 1
        /\ rows'[Len(rows) + 1] = draft[t]
        /\ \A k \in 1..Len(rows) : rows'[k] = rows[k]
    BY <2>1, <2>2
  <2>4. TypeOK'
    BY <2>1, <2>3 DEF Inv, TypeOK
  <2>5. AlwaysIntact'
    <3>1. Intact(rows) /\ Intact(disk)
      BY DEF Inv, AlwaysIntact
    <3>2. /\ draft[t].seq = Len(rows) /\ draft[t].prev = LastHashOf(rows)
          /\ draft[t].hash = Digest(draft[t])
      BY <1>1 DEF Inv, DraftCurrent
    <3>3. Intact(Append(rows, draft[t]))
      BY <2>2, <3>1, <3>2, ContinueIntact
    <3>4. Intact(rows)' /\ Intact(disk)'
      BY <2>1, <3>1, <3>3 DEF Intact, Fits, Digest
    <3> QED
      BY <3>4 DEF AlwaysIntact
  <2>6. ReturnedIsKept'
    BY <2>1 DEF Inv, ReturnedIsKept
  <2>7. DiskIsPrefix'
    BY <2>1, <2>2, <2>3 DEF Inv, DiskIsPrefix
  <2>8. LockKept'
    BY <1>1, <2>1 DEF Inv, TypeOK, LockKept, InsideLock
  <2>9. DraftCurrent'
    <3>1. pc'[t] = "commit" /\ \A u \in Threads : u # t => pc'[u] = pc[u]
      BY <2>1 DEF Inv, TypeOK
    <3>2. \A u \in Threads : u # t => pc'[u] \notin {"link", "insert", "commit"}
      BY <1>1, <3>1 DEF InsideLock
    <3>3. Len(rows') > 0 /\ rows'[Len(rows')] = draft'[t]
      BY <2>1, <2>2, <2>3
    <3> QED
      BY <3>1, <3>2, <3>3 DEF DraftCurrent
  <2> QED
    BY <2>4, <2>5, <2>6, <2>7, <2>8, <2>9 DEF Inv
<1> QED
  BY <1>2, <1>3

\* The thread leaves the lock by an exception, which undoes what is not
\* committed or leaves it in the open transaction.
LEMMA RaisingKeeps ==
  ASSUME Inv, NEW t \in Threads, InsertRaises(t) \/ CommitRaises(t)
  PROVE  Inv'
<1>1. /\ rows' \in {rows, disk} /\ Release(t)
      /\ errors < MaxErrors /\ errors' = errors + 1
      /\ UNCHANGED <<disk, draft, restarts, returned>>
      /\ pc[t] \in InsideLock
  BY DEF InsertRaises, CommitRaises, InsideLock
<1>2. TypeOK'
  BY <1>1, AuditAssumption DEF Inv, TypeOK, Release
<1>3. AlwaysIntact' /\ ReturnedIsKept' /\ DiskIsPrefix'
  <2>1. CASE rows' = rows
    BY <1>1, <2>1, TableUntouched
  <2>2. CASE rows' = disk
    <3>1. AlwaysIntact'
      BY <1>1, <2>2 DEF Inv, AlwaysIntact
    <3>2. DiskIsPrefix' /\ ReturnedIsKept'
      BY <1>1, <2>2 DEF Inv, TypeOK, DiskIsPrefix, ReturnedIsKept
    <3> QED
      BY <3>1, <3>2
  <2> QED
    BY <1>1, <2>1, <2>2
<1>4. \A u \in Threads : pc'[u] \notin InsideLock
  BY <1>1, Alone DEF Inv, TypeOK, Release, InsideLock
<1> QED
  BY <1>2, <1>3, <1>4 DEF Inv, LockKept, DraftCurrent, InsideLock

LEMMA CommitKeeps ==
  ASSUME Inv, NEW t \in Threads, Commit(t)
  PROVE  Inv'
<1>1. /\ disk' = rows /\ returned' = returned \cup {draft[t]} /\ Release(t)
      /\ UNCHANGED <<rows, draft, errors, restarts>>
      /\ pc[t] = "commit" /\ pc[t] \in InsideLock
  BY DEF Commit, InsideLock
<1>2. TypeOK'
  BY <1>1 DEF Inv, TypeOK, Release
<1>3. AlwaysIntact' /\ DiskIsPrefix'
  <2>1. AlwaysIntact'
    BY <1>1 DEF Inv, AlwaysIntact
  <2>2. DiskIsPrefix'
    BY <1>1 DEF Inv, TypeOK, DiskIsPrefix
  <2> QED
    BY <2>1, <2>2
<1>4. ReturnedIsKept'
  <2>1. rows \in Seq(Records) /\ disk \in Seq(Records)
    BY DEF Inv, TypeOK
  <2>2. Len(rows) > 0 /\ rows[Len(rows)] = draft[t]
    BY <1>1 DEF Inv, DraftCurrent
  <2>3. \A i \in DOMAIN disk : i \in DOMAIN rows /\ rows[i] = disk[i]
    BY <2>1 DEF Inv, DiskIsPrefix
  <2>4. Len(rows) \in DOMAIN rows
    BY <2>1, <2>2
  <2> QED
    BY <1>1, <2>2, <2>3, <2>4 DEF Inv, ReturnedIsKept
<1>5. \A u \in Threads : pc'[u] \notin InsideLock
  BY <1>1, Alone DEF Inv, TypeOK, Release, InsideLock
<1> QED
  BY <1>2, <1>3, <1>4, <1>5 DEF Inv, LockKept, DraftCurrent, InsideLock

LEMMA RestartKeeps ==
  ASSUME Inv, Restart
  PROVE  Inv'
<1>1. TypeOK'
  BY AuditAssumption DEF Inv, TypeOK, Restart
<1>2. AlwaysIntact'
  BY DEF Inv, Restart, AlwaysIntact
<1>3. ReturnedIsKept' /\ DiskIsPrefix'
  BY DEF Inv, TypeOK, Restart, ReturnedIsKept, DiskIsPrefix
<1> QED
  BY <1>1, <1>2, <1>3 DEF Inv, Restart, LockKept, DraftCurrent, InsideLock

LEMMA NextKeeps == Inv /\ [Next]_vars => Inv'
<1> SUFFICES ASSUME Inv, [Next]_vars PROVE Inv'
  OBVIOUS
<1>1. ASSUME NEW t \in Threads, Call(t) PROVE Inv'
  BY <1>1, CallKeeps
<1>2. ASSUME NEW t \in Threads, Proceed(t) PROVE Inv'
  BY <1>2, AcquireKeeps, CountKeeps, LastHashKeeps, InsertKeeps, RaisingKeeps, CommitKeeps
     DEF Proceed
<1>3. CASE Restart
  BY <1>3, RestartKeeps
<1>4. CASE UNCHANGED vars
  BY <1>4 DEF vars, Inv, TypeOK, AlwaysIntact, Intact, Fits, Digest, ReturnedIsKept,
              DiskIsPrefix, LockKept, DraftCurrent, LastHashOf
<1> QED
  BY <1>1, <1>2, <1>3, <1>4 DEF Next, Full

-----------------------------------------------------------------------------
LEMMA AlwaysInv == Spec => []Inv
BY InitInv, NextKeeps, PTL DEF Spec

\* The chain verifies at every moment, and what append() returned is in the
\* file: whatever the threads of the server append, whatever raises.
THEOREM ChainAlwaysIntact == Spec => [](TypeOK /\ AlwaysIntact /\ ReturnedIsKept)
<1>1. Inv => TypeOK /\ AlwaysIntact /\ ReturnedIsKept
  BY DEF Inv
<1> QED
  BY <1>1, AlwaysInv, PTL

\* A step keeps the file or adds to its end.
LEMMA FileGrows ==
  ASSUME Inv, [Next]_vars
  PROVE  Len(disk) <= Len(disk') /\ \A i \in DOMAIN disk : disk'[i] = disk[i]
<1>1. CASE disk' = disk
  BY <1>1 DEF Inv, TypeOK
<1>2. ASSUME NEW t \in Threads, Commit(t)
      PROVE  Len(disk) <= Len(disk') /\ \A i \in DOMAIN disk : disk'[i] = disk[i]
  BY <1>2 DEF Inv, DiskIsPrefix, Commit
<1> QED
  BY <1>1, <1>2 DEF Next, Proceed, Call, Acquire, Count, LastHash, Insert, InsertRaises,
                    CommitRaises, Restart, Full, vars

\* What is committed to the file is never taken back or overwritten.
THEOREM FileAppendOnly == Spec => AppendOnly
<1>1. Inv /\ [Next]_vars
        => [Len(disk) <= Len(disk') /\ \A i \in DOMAIN disk : disk'[i] = disk[i]]_vars
  BY FileGrows
<1> QED
  BY <1>1, AlwaysInv, PTL DEF Spec, AppendOnly

-----------------------------------------------------------------------------
\* A table that verifies no longer does when one content in it is changed, and
\* verify() names the row that was changed.
LEMMA EditBreaks ==
  ASSUME NEW table \in Seq(Records), Intact(table),
         NEW i \in DOMAIN table, NEW content \in Contents, content # table[i].content
  PROVE  FirstBroken([table EXCEPT ![i].content = content], i)
<1> DEFINE edited == [table EXCEPT ![i].content = content]
<1>1. /\ DOMAIN edited = DOMAIN table /\ i \in 1..Len(table) /\ DOMAIN table = 1..Len(table)
      /\ edited[i] = [table[i] EXCEPT !.content = content]
      /\ \A j \in DOMAIN table : j # i => edited[j] = table[j]
  OBVIOUS
<1>2. table[i] \in Records
  OBVIOUS
<1>3. /\ edited[i].hash = table[i].hash /\ edited[i].seq = table[i].seq
      /\ edited[i].prev = table[i].prev /\ edited[i].content = content
  BY <1>1, <1>2 DEF Records
<1>4. ~Fits(edited, i)
  <2>1. table[i].hash = Append(table[i].prev, <<table[i].seq, table[i].content>>)
    BY DEF Intact, Fits, Digest
  <2>2. Append(table[i].prev, <<table[i].seq, table[i].content>>)
          # Append(table[i].prev, <<table[i].seq, content>>)
    BY <1>2, DigestTells DEF Records
  <2> QED
    BY <1>3, <2>1, <2>2 DEF Fits, Digest
<1>5. \A j \in 1..(i - 1) : Fits(edited, j)
  <2>1. SUFFICES ASSUME NEW j \in 1..(i - 1) PROVE Fits(edited, j)
    OBVIOUS
  <2>2. j \in DOMAIN table /\ j # i /\ (j # 1 => j - 1 \in DOMAIN table /\ j - 1 # i)
    BY <1>1
  <2>3. edited[j] = table[j] /\ (j # 1 => edited[j - 1] = table[j - 1])
    BY <1>1, <2>2
  <2>4. Fits(table, j)
    BY <2>2 DEF Intact
  <2> QED
    BY <2>3, <2>4 DEF Fits, Digest
<1> QED
  BY <1>1, <1>4, <1>5 DEF FirstBroken

\* A row is gone, and those behind it have moved up.
LEMMA WithoutShifts ==
  ASSUME NEW table \in Seq(Records), NEW i \in 1..(Len(table) - 1)
  PROVE  /\ DOMAIN Without(table, i) = 1..(Len(table) - 1)
         /\ \A j \in 1..(i - 1) : Without(table, i)[j] = table[j]
         /\ Without(table, i)[i] = table[i + 1]
<1> DEFINE front == SubSeq(table, 1, i - 1)
           back == SubSeq(table, i + 1, Len(table))
<1>1. front \in Seq(Records) /\ Len(front) = i - 1 /\ \A j \in 1..(i - 1) : front[j] = table[j]
  OBVIOUS
<1>2. back \in Seq(Records) /\ Len(back) = Len(table) - i /\ back[1] = table[i + 1]
  OBVIOUS
<1>3. Without(table, i) = front \o back
  BY DEF Without
<1> HIDE DEF front, back
<1>4. /\ DOMAIN (front \o back) = 1..(Len(front) + Len(back))
      /\ \A j \in 1..Len(front) : (front \o back)[j] = front[j]
      /\ Len(back) >= 1 => (front \o back)[Len(front) + 1] = back[1]
  BY <1>1, <1>2
<1> QED
  BY <1>1, <1>2, <1>3, <1>4

\* A table that verifies no longer does when a row other than the last is
\* missing, and verify() names its place.
LEMMA DeletionBreaks ==
  ASSUME NEW table \in Seq(Records), Intact(table), NEW i \in 1..(Len(table) - 1)
  PROVE  FirstBroken(Without(table, i), i)
<1> DEFINE rest == Without(table, i)
<1>1. /\ DOMAIN rest = 1..(Len(table) - 1) /\ rest[i] = table[i + 1]
      /\ \A j \in 1..(i - 1) : rest[j] = table[j]
  BY WithoutShifts
<1>2. ~Fits(rest, i)
  <2>1. i + 1 \in DOMAIN table
    OBVIOUS
  <2>2. table[i + 1].seq = i
    BY <2>1 DEF Intact, Fits
  <2> QED
    BY <1>1, <2>2 DEF Fits
<1>3. \A j \in 1..(i - 1) : Fits(rest, j)
  <2>1. SUFFICES ASSUME NEW j \in 1..(i - 1) PROVE Fits(rest, j)
    OBVIOUS
  <2>2. j \in DOMAIN table /\ (j # 1 => j - 1 \in 1..(i - 1))
    OBVIOUS
  <2>3. Fits(table, j)
    BY <2>2 DEF Intact
  <2> QED
    BY <1>1, <2>2, <2>3 DEF Fits, Digest
<1> QED
  BY <1>1, <1>2, <1>3 DEF FirstBroken

\* In every state, a change of a content in the file and a deletion before its
\* end are found by verify(), at their place.
THEOREM TamperingFound == Spec => []TamperingDetected
<1>1. Inv => TamperingDetected
  BY EditBreaks, DeletionBreaks DEF Inv, TypeOK, AlwaysIntact, TamperingDetected
<1> QED
  BY <1>1, InitInv, NextKeeps, PTL DEF Spec

(***************************************************************************)
(* Answers from the ledger (LedgerQuestions).                              *)
(***************************************************************************)
\* What the analyst was shown is in the file, and so is what it has cited.
QuestionsInv ==
  /\ Inv
  /\ question.known \subseteq SeqsOf(disk, question.case)
  /\ CitationsHold

\* The records of a case are found again whatever is appended.
LEMMA SeqsStay ==
  ASSUME Inv, [Next]_vars, Inv', NEW case
  PROVE  SeqsOf(disk, case) \subseteq SeqsOf(disk', case)
<1>1. DOMAIN disk \subseteq DOMAIN disk' /\ \A i \in DOMAIN disk : disk'[i] = disk[i]
  BY FileGrows DEF Inv, TypeOK
<1>. QED
  BY <1>1 DEF SeqsOf

LEMMA QuestionsStart == QuestionsInit => QuestionsInv
BY InitInv DEF QuestionsInit, QuestionsInv, NoQuestion, CitationsHold

LEMMA QuestionsStep == QuestionsInv /\ [QuestionsNext]_qvars => QuestionsInv'
<1>. SUFFICES ASSUME QuestionsInv, [QuestionsNext]_qvars  PROVE QuestionsInv'
  OBVIOUS
<1>. USE DEF QuestionsInv
<1>1. [Next]_vars
  BY DEF QuestionsNext, qvars, Ask, Answer, vars
<1>2. Inv'
  BY <1>1, NextKeeps
<1>3. \A case : SeqsOf(disk, case) \subseteq SeqsOf(disk', case)
  BY <1>1, <1>2, SeqsStay
<1>4. CASE UNCHANGED <<question, answer>>
  BY <1>2, <1>3, <1>4 DEF CitationsHold
<1>5. ASSUME NEW case \in CaseIds, Ask(case)  PROVE QuestionsInv'
  BY <1>2, <1>3, <1>5 DEF Ask, RecordsForCase, CitationsHold
<1>6. ASSUME NEW fails, NEW cited, Answer(fails, cited)  PROVE QuestionsInv'
  <2>1. answer'.cited \subseteq question.known /\ answer'.case = question.case
    BY <1>6 DEF Answer, Valid
  <2>2. question' = NoQuestion
    BY <1>6 DEF Answer
  <2>. QED
    BY <1>2, <1>3, <2>1, <2>2 DEF CitationsHold, NoQuestion
<1>. QED
  BY <1>4, <1>5, <1>6 DEF QuestionsNext, qvars

\* Whatever the model cites: an answer that is given cites records of its case
\* that are in the file, and the file goes on to hold them.
THEOREM CitationsAlwaysHold == QuestionsSpec => []CitationsHold
<1>1. QuestionsInv => CitationsHold
  BY DEF QuestionsInv
<1>. QED
  BY <1>1, QuestionsStart, QuestionsStep, PTL DEF QuestionsSpec
=============================================================================
