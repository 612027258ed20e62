------------------------------ MODULE Database ------------------------------
(* One thread's database handle and the server behind it, as Database uses    *)
(* them. A handle is a record:                                                *)
(*   connected  m_connected                                                   *)
(*   inTrans    the session has an open transaction                           *)
(*   table      the committed rows                                            *)
(*   work       the rows the session sees                                     *)
(*   dirty      the rows it has written and not committed                     *)
(* A statement may fail with the connection; it is then tried once more on a  *)
(* new connection, where an open transaction is gone. If that fails too, the  *)
(* handle stays disconnected: nothing calls connect() again.                  *)

\* A new session: the server has rolled back what was not committed.
Reconnected(d) == [d EXCEPT !.inTrans = FALSE, !.work = d.table, !.dirty = {}]

\* query, storeQuery: the sessions in which the statement may succeed, ...
Sessions(d) == IF d.connected THEN {d, Reconnected(d)} ELSE {}

\* ... and the handle when it does not (reconnectAndRetry clears m_connected).
LostKeepsFlag(d) == Reconnected(d)
Lost(d) == [Reconnected(d) EXCEPT !.connected = FALSE]

\* UPDATE one row; outside a transaction it is committed at once.
Write(d, row, value) ==
    [d EXCEPT !.work[row] = value,
              !.table[row] = IF d.inTrans THEN @ ELSE value,
              !.dirty = IF d.inTrans THEN @ \cup {row} ELSE @]

\* query with an UPDATE. An answer that is lost with the connection, the first one or
\* that of the retry, leaves the caller not knowing whether the server has done it.
UpdateOutcomes(d, row, value) ==
    LET done == {Write(s, row, value) : s \in Sessions(d)}
    IN  done \cup {Lost(e) : e \in done} \cup {Lost(d)}

\* BEGIN
Begin(d) == [d EXCEPT !.inTrans = TRUE]

\* COMMIT: not retried. It may be lost with the connection, before or after the
\* server has done it; m_connected is not touched.
Committed(d) ==
    LET rows == [row \in DOMAIN d.table |-> IF row \in d.dirty THEN d.work[row] ELSE d.table[row]]
    IN  [d EXCEPT !.inTrans = FALSE, !.table = rows, !.work = rows, !.dirty = {}]
CommitOutcomes(d) == IF d.connected THEN {Committed(d), Reconnected(d)} ELSE {d}

\* Another client of the server writes a row: it waits for our lock on the row, and our
\* transaction goes on reading the rows as they were when it first read, if it has.
MayWrite(d, row) == row \notin d.dirty
OtherWrites(d, row, value, hasRead) ==
    [d EXCEPT !.table[row] = value,
              !.work[row] = IF d.inTrans /\ hasRead THEN @ ELSE value]

\* ROLLBACK by the destructor of a transaction that was begun and not committed.
Rollback(d) == Reconnected(d)
=============================================================================
