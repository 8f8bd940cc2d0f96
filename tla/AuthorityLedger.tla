--------------------------- MODULE AuthorityLedger ---------------------------
(***************************************************************************)
(* The authority ledger (GOV-CP-05, ledger_authority_writer.py): an SQLite *)
(* table of hash-chained rows, and in each process that opened the file an *)
(* in-memory mirror guarded by a lock.  An append is three steps under the *)
(* lock -- compute the row from the mirror, INSERT it, mirror it -- between *)
(* which another process can work on the same file or this one can crash.  *)
(* Readers (reader.py, integrity.py) only see the table.                   *)
(*                                                                         *)
(* sha256 is collision free here: the hash of a row is the list of what    *)
(* was hashed into it and its predecessors.                                *)
(***************************************************************************)
EXTENDS Integers, Sequences, FiniteSets

CONSTANTS
  Process,     \* the processes that open the ledger file
  Request,     \* the appends that are asked for: time, kind and payload
  NonText,     \* those whose payload has a value that is not a string
  None,        \* no append in progress
  InsertFaults,\* may an INSERT raise?
  Closes,      \* is close() called on a writer that is used afterwards?
  PowerFails,  \* may the machine lose rows that were not synced?
  MaxEdits     \* bound on the rows edited or lost behind the writer's back

ASSUME LedgerAssumption ==
  /\ NonText \subseteq Request
  /\ InsertFaults \in BOOLEAN /\ Closes \in BOOLEAN /\ PowerFails \in BOOLEAN
  /\ MaxEdits \in Nat

-----------------------------------------------------------------------------
(* Rows and chains.                                                        *)

Hash(prev, seq, request) == Append(prev, <<seq, request>>)

Genesis == <<>>

Digest == Seq(Nat \X Request)

\* LedgerEntry.
Row == [seq : Nat, request : Request, prev : Digest, hash : Digest]

\* An append in progress has its row, and perhaps its INSERT behind it.
InProgress == [row : Row, stage : {"computed", "inserted"}]

ASSUME NoneAssumption == None \notin InProgress

HeadHash(rs) == IF rs = <<>> THEN Genesis ELSE rs[Len(rs)].hash

PrevHash(rs, i) == IF i = 1 THEN Genesis ELSE rs[i - 1].hash

NewRow(rs, r) == [seq |-> Len(rs), request |-> r, prev |-> HeadHash(rs),
                  hash |-> Hash(HeadHash(rs), Len(rs), r)]

\* Mutant: the links are compared, the contents are not hashed again.
MutVerifyLinks(rs) == \A i \in DOMAIN rs : rs[i].prev = PrevHash(rs, i)

\* _verify_locked.
Verify(rs) == \A i \in DOMAIN rs :
  /\ rs[i].prev = PrevHash(rs, i)
  /\ rs[i].hash = Hash(rs[i].prev, rs[i].seq, rs[i].request)

\* Mutant: the prefix of the chain is not checked.
MutOfflineNoGenesis(rs) == \A i \in DOMAIN rs :
  /\ i > 1 => rs[i].prev = rs[i - 1].hash /\ rs[i].seq = rs[i - 1].seq + 1
  /\ rs[i].hash = Hash(rs[i].prev, rs[i].seq, rs[i].request)

\* verify_sqlite: it also wants consecutive numbers and text payloads.
OfflineVerify(rs) == \A i \in DOMAIN rs :
  /\ rs[i].seq = i - 1
  /\ rs[i].request \notin NonText
  /\ rs[i].prev = PrevHash(rs, i)
  /\ rs[i].hash = Hash(rs[i].prev, rs[i].seq, rs[i].request)

-----------------------------------------------------------------------------

VARIABLES
  disk,     \* authority_ledger, ORDER BY seq
  rows,     \* the _rows of each process
  status,   \* "down", "up", or "closed": close() has dropped the connection
  step,     \* the append a process has its lock for: row and stage, or None
  todo,     \* the requests not made yet, or raised and to be made again
  seen,     \* what a reader has paged through (LedgerReader)
  edits,    \* how often the file was edited behind the writer's back
  acked,    \* history: the requests whose append returned
  written   \* history: the hash of every row ever inserted

vars == <<disk, rows, status, step, todo, seen, edits, acked, written>>

TypeOK ==
  /\ disk \in Seq(Row)
  /\ rows \in [Process -> Seq(Row)]
  /\ status \in [Process -> {"down", "up", "closed"}]
  /\ step \in [Process -> InProgress \cup {None}]
  /\ todo \subseteq Request /\ acked \subseteq Request
  /\ seen \in Seq(Row)
  /\ edits \in Nat
  /\ written \subseteq Digest

Init ==
  /\ disk = <<>> /\ seen = <<>> /\ edits = 0
  /\ rows = [p \in Process |-> <<>>]
  /\ status = [p \in Process |-> "down"]
  /\ step = [p \in Process |-> None]
  /\ todo = Request /\ acked = {} /\ written = {}

\* __init__: replay, then the integrity gate.
Boot(p) ==
  /\ status[p] = "down"
  /\ Verify(disk)
  /\ rows' = [rows EXCEPT ![p] = disk]
  /\ status' = [status EXCEPT ![p] = "up"]
  /\ UNCHANGED <<disk, step, todo, seen, edits, acked, written>>

\* Mutant: the mirror is advanced before the INSERT is tried.
MutComputeMirrors(p, r) ==
  /\ status[p] # "down" /\ step[p] = None
  /\ r \in todo
  /\ todo' = todo \ {r}
  /\ step' = [step EXCEPT ![p] = [row |-> NewRow(rows[p], r), stage |-> "computed"]]
  /\ rows' = [rows EXCEPT ![p] = Append(@, NewRow(@, r))]
  /\ UNCHANGED <<disk, status, seen, edits, acked, written>>

\* append, up to the INSERT.
Compute(p, r) ==
  /\ status[p] # "down" /\ step[p] = None
  /\ r \in todo
  /\ todo' = todo \ {r}
  /\ step' = [step EXCEPT ![p] = [row |-> NewRow(rows[p], r), stage |-> "computed"]]
  /\ UNCHANGED <<disk, rows, status, seen, edits, acked, written>>

\* Mutant: an INSERT that took effect may raise all the same.
MutComputed(p) == step[p] # None

Computed(p) == step[p] # None /\ step[p].stage = "computed"

\* Mutant: seq is an ordinary column.
MutTakenNever(seq) == seq < 0

\* The table's PRIMARY KEY.
Taken(seq) == \E i \in DOMAIN disk : disk[i].seq = seq

Insert(p) ==
  /\ status[p] = "up" /\ Computed(p)
  /\ ~Taken(step[p].row.seq)
  /\ disk' = Append(disk, step[p].row)
  /\ written' = written \cup {step[p].row.hash}
  /\ step' = [step EXCEPT ![p].stage = "inserted"]
  /\ UNCHANGED <<rows, status, todo, seen, edits, acked>>

\* The INSERT raises; the caller may try again.
Raise(p) ==
  /\ status[p] = "up" /\ Computed(p)
  /\ InsertFaults \/ Taken(step[p].row.seq)
  /\ step' = [step EXCEPT ![p] = None]
  /\ todo' = todo \cup {step[p].row.request}
  /\ UNCHANGED <<disk, rows, status, seen, edits, acked, written>>

\* Mutant: an append that has the row but not the connection any more returns.
MutMirrorEarly(p) ==
  /\ step[p] # None
  /\ rows' = [rows EXCEPT ![p] = Append(@, step[p].row)]
  /\ acked' = acked \cup {step[p].row.request}
  /\ step' = [step EXCEPT ![p] = None]
  /\ UNCHANGED <<disk, status, todo, seen, edits, written>>

\* _rows.append and return; without a connection there was no INSERT.
Mirror(p) ==
  /\ step[p] # None
  /\ step[p].stage = "inserted" \/ status[p] = "closed"
  /\ rows' = [rows EXCEPT ![p] = Append(@, step[p].row)]
  /\ acked' = acked \cup {step[p].row.request}
  /\ step' = [step EXCEPT ![p] = None]
  /\ UNCHANGED <<disk, status, todo, seen, edits, written>>

Close(p) ==
  /\ Closes
  /\ status[p] = "up" /\ step[p] = None
  /\ status' = [status EXCEPT ![p] = "closed"]
  /\ UNCHANGED <<disk, rows, step, todo, seen, edits, acked, written>>

\* kill -9: the row of an append in progress may be in the file or not.
Crash(p) ==
  /\ status[p] # "down"
  /\ status' = [status EXCEPT ![p] = "down"]
  /\ rows' = [rows EXCEPT ![p] = <<>>]
  /\ step' = [step EXCEPT ![p] = None]
  /\ UNCHANGED <<disk, todo, seen, edits, acked, written>>

\* The machine stops.  With synchronous=NORMAL the latest commits of the WAL
\* may not have been synced.
PowerLoss ==
  /\ PowerFails
  /\ \E n \in 0 .. Len(disk) : disk' = SubSeq(disk, 1, n)
  /\ status' = [p \in Process |-> "down"]
  /\ rows' = [p \in Process |-> <<>>]
  /\ step' = [p \in Process |-> None]
  /\ UNCHANGED <<todo, seen, edits, acked, written>>

\* A row is lost, or its payload overwritten, while nobody has the file open.
Damage ==
  /\ edits < MaxEdits
  /\ \A p \in Process : status[p] = "down"
  /\ \E i \in DOMAIN disk :
       \/ disk' = SubSeq(disk, 1, i - 1) \o SubSeq(disk, i + 1, Len(disk))
       \/ \E r \in Request : disk' = [disk EXCEPT ![i].request = r]
  /\ edits' = edits + 1
  /\ UNCHANGED <<rows, status, step, todo, seen, acked, written>>

\* Mutant: a page begins one row late.
MutReadPageSkips ==
  /\ \E n \in Len(seen) + 1 .. Len(disk) : seen' = seen \o SubSeq(disk, Len(seen) + 2, n)
  /\ UNCHANGED <<disk, rows, status, step, todo, edits, acked, written>>

\* LedgerReader.authority_entries: the rows from the cursor on, up to a limit.
ReadPage ==
  /\ \E n \in Len(seen) + 1 .. Len(disk) : seen' = seen \o SubSeq(disk, Len(seen) + 1, n)
  /\ UNCHANGED <<disk, rows, status, step, todo, edits, acked, written>>

Next ==
  \/ \E p \in Process : \/ Boot(p) \/ Crash(p) \/ Close(p)
                        \/ \E r \in Request : Compute(p, r)
                        \/ Insert(p) \/ Raise(p) \/ Mirror(p)
  \/ PowerLoss \/ Damage \/ ReadPage

Spec == Init /\ [][Next]_vars
-----------------------------------------------------------------------------
(* Properties.                                                             *)

IsPrefixOf(s, t) == Len(s) <= Len(t) /\ \A i \in DOMAIN s : s[i] = t[i]

\* With the connection open, the mirror is a prefix of the table: all of it
\* for a process alone and between appends
\* (ledger_authority_writer.py:125 "the persisted file is always consistent
\* with the in-memory mirror").
MirrorsArePrefixes ==
  \A p \in Process : status[p] = "up" => IsPrefixOf(rows[p], disk)

\* Whatever processes interleave and wherever they crash, the next boot finds
\* a chain that verifies.
ChainSurvives == Verify(disk)

\* A row whose append returned is in the table from then on.
AckedIsDurable == acked \subseteq {disk[i].request : i \in DOMAIN disk}

\* A process that booted mirrors a chain that was really written: each row,
\* chained to the rows before it, is one that was inserted, whatever happened
\* to the file (ledger_authority_writer.py:162 "Boot-time integrity gate").
BootedIsGenuine ==
  \A p \in Process : status[p] = "up" =>
    \A i \in DOMAIN rows[p] :
      Hash(HeadHash(SubSeq(rows[p], 1, i - 1)), rows[p][i].seq, rows[p][i].request)
        \in written

\* Writer and offline verifier judge every file alike (hash_chain.py: "a writer
\* and a verifier on different machines will agree"), except that the verifier
\* has no form for a payload that is not text.
VerifiersAgree ==
  OfflineVerify(disk) <=>
    Verify(disk) /\ {disk[i].request : i \in DOMAIN disk} \cap NonText = {}

\* Paging with a cursor, a reader misses no row and sees none twice.
ReaderSeesPrefix == IsPrefixOf(seen, disk)

\* The table is an append-only log in which no request is entered twice,
\* retries and crashes included ("so a retry is safe").
Log == INSTANCE AppendOnlyLog WITH log <- [i \in DOMAIN disk |-> disk[i].request]

LogSpec == Log!Spec
=============================================================================
