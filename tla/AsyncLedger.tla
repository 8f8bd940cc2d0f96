----------------------------- MODULE AsyncLedger -----------------------------
(***************************************************************************)
(* AsyncLedgerWriter (state/ledger/async_writer.py): rows are buffered and *)
(* written to a file in batches, when the batch is full, when the oldest   *)
(* row has waited long enough by the callers' own stamps, on request and   *)
(* on close.  Every method holds the lock, so a call is one step; what can *)
(* go wrong is inside _flush_locked, and a call that raises has changed    *)
(* what it changed before.  A row is its seq.  Only one writer is looked   *)
(* at: the next one on the same file numbers its rows from 0 again.        *)
(***************************************************************************)
EXTENDS Integers, Sequences

CONSTANTS BatchMax,   \* batch_size_max
          Interval,   \* flush_interval_ns
          MaxRows,    \* bound on the rows appended
          MaxFile,    \* bound on a file with repeats
          MaxStamp    \* bound on the stamps

ASSUME AsyncAssumption == /\ BatchMax \in Nat \ {0} /\ Interval \in Nat \ {0}
                          /\ MaxRows \in Nat /\ MaxFile \in Nat /\ MaxStamp \in Nat

VARIABLES rows,      \* the seq of every row this writer put into the file
          buffer,    \* _buffer, each row with the stamp it came with
          oldest,    \* _buffer_oldest_ts_ns
          lastSeq,   \* _last_seq
          sealed,    \* _closed
          reported,  \* the greatest last_seq of a FlushResult
          cut        \* some write was shorter than its batch

asyncVars == <<rows, buffer, oldest, lastSeq, sealed, reported, cut>>

AsyncTypeOK == /\ rows \in Seq(Nat)
               /\ buffer \in Seq([seq : Nat, ts : 0 .. MaxStamp])
               /\ oldest \in -1 .. MaxStamp
               /\ lastSeq \in Int /\ lastSeq >= -1
               /\ sealed \in BOOLEAN /\ cut \in BOOLEAN
               /\ reported \in Int /\ reported >= -1

AsyncInit == /\ rows = <<>> /\ buffer = <<>> /\ oldest = -1 /\ lastSeq = -1
             /\ sealed = FALSE /\ reported = -1 /\ cut = FALSE

Seqs(b) == [i \in DOMAIN b |-> b[i].seq]

\* The flush returns, having written what it could.
Returns(b) == /\ buffer' = <<>> /\ oldest' = -1
              /\ lastSeq' = b[Len(b)].seq /\ reported' = b[Len(b)].seq

Written(b) == /\ Len(rows) + Len(b) <= MaxFile
              /\ rows' = rows \o Seqs(b)
              /\ Returns(b)
              /\ UNCHANGED cut

\* os.write takes less than the batch, its count is not looked at.  A write cut
\* inside a row, which spoils the next line as well, is left out.
Short(b) == /\ \E n \in 0 .. Len(b) - 1 :
                 /\ Len(rows) + n <= MaxFile
                 /\ rows' = rows \o Seqs(SubSeq(b, 1, n))
            /\ Returns(b)
            /\ cut' = TRUE

\* open or write raises with nothing in the file, or fsync does with the rows in
\* it; either way they are still in the buffer.
Raising(b, since) == /\ \/ rows' = rows
                        \/ Len(rows) + Len(b) <= MaxFile /\ rows' = rows \o Seqs(b)
                     /\ buffer' = b /\ oldest' = since
                     /\ UNCHANGED <<lastSeq, reported, cut>>

\* _flush_locked on buffer b whose oldest stamp is since.
FlushLocked(b, since) == b # <<>> /\ (Written(b) \/ Short(b) \/ Raising(b, since))

\* Mutant: the number goes on from what was flushed.
MutNextSeq == lastSeq + 1

NextSeq == (IF buffer = <<>> THEN lastSeq ELSE buffer[Len(buffer)].seq) + 1

Due(b, since, ts) == Len(b) >= BatchMax \/ ts - since >= Interval

\* append: a stamp before the oldest one and any other seq are refused.
AppendRow == /\ ~sealed /\ NextSeq < MaxRows
             /\ \E ts \in 0 .. MaxStamp :
                  LET since == IF buffer = <<>> THEN ts ELSE oldest
                      b == Append(buffer, [seq |-> NextSeq, ts |-> ts])
                  IN /\ ts >= since
                     /\ \/ Due(b, since, ts) /\ FlushLocked(b, since)
                        \/ /\ ~Due(b, since, ts)
                           /\ buffer' = b /\ oldest' = since
                           /\ UNCHANGED <<rows, lastSeq, reported, cut>>
             /\ UNCHANGED sealed

Flush == /\ ~sealed
         /\ FlushLocked(buffer, oldest)
         /\ UNCHANGED sealed

\* Mutant: close does not wait for its flush.
MutCloseWriter == /\ ~sealed /\ sealed' = TRUE
                  /\ UNCHANGED <<rows, buffer, oldest, lastSeq, reported, cut>>

\* close: the writer stays open when its flush raises.
CloseWriter ==
  /\ ~sealed
  /\ \/ sealed' = TRUE /\ buffer # <<>> /\ (Written(buffer) \/ Short(buffer))
     \/ sealed' = TRUE /\ buffer = <<>> /\ UNCHANGED <<rows, buffer, oldest, lastSeq, reported, cut>>
     \/ sealed' = FALSE /\ buffer # <<>> /\ Raising(buffer, oldest)

AsyncNext == AppendRow \/ Flush \/ CloseWriter

AsyncSpec == AsyncInit /\ [][AsyncNext]_asyncVars

-----------------------------------------------------------------------------
(* Properties.                                                             *)

\* async_writer.py, "gap-free sequence id": through flushes that raise before,
\* in the middle of and after a write, no row is in the file before its
\* predecessor, what a result reported as written is there, and what is not
\* there yet waits in the buffer, which close leaves empty.  Rows may be there
\* twice, and a short write takes the guarantee.
RowsReachTheFile ==
  LET inFile == {rows[i] : i \in DOMAIN rows}
      waiting == {buffer[i].seq : i \in DOMAIN buffer}
  IN ~cut => /\ \A i \in DOMAIN rows : rows[i] = 0 \/ \E j \in 1 .. i - 1 : rows[j] = rows[i] - 1
             /\ 0 .. reported \subseteq inFile
             /\ 0 .. NextSeq - 1 = (0 .. reported) \cup waiting
             /\ sealed => waiting = {}
=============================================================================
