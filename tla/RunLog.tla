------------------------------- MODULE RunLog -------------------------------
(***************************************************************************)
(* The log of the runtime bridge service and the requests that read it     *)
(* (run.logs).  The service lives on the editor's main thread: what games  *)
(* send waits until that thread polls the debugger, and a request that     *)
(* follows the log sleeps on that thread until a row matches or its window *)
(* has passed.                                                             *)
(***************************************************************************)
EXTENDS Integers, Sequences, FiniteSets

CONSTANTS
    MaxLogRows,  \* MAX_LOG_ROWS
    Levels,      \* levels of log messages
    Readers,     \* callers of run.logs, each with one filter
    Wanted,      \* per reader: the levels its filter lets through
    Pages,       \* values of the argument max; 0 is no limit
    RowsEver,    \* bound: how many rows are ever logged
    Nobody

ASSUME RunLogAssumption ==
    /\ MaxLogRows \in Nat \ {0}
    /\ RowsEver \in Nat
    /\ Wanted \in [Readers -> SUBSET Levels]
    /\ Pages \subseteq Nat
    /\ Nobody \notin Readers

VARIABLES
    rows,      \* _log_rows
    next,      \* _next_log_cursor
    arriving,  \* messages of the games that the main thread has not polled
    cursor,    \* per reader: the next_cursor it was last given
    got,       \* per reader and row: how often a response held that row
    follower   \* the request that sleeps on the main thread

vars == <<rows, next, arriving, cursor, got, follower>>

Row == [cursor : 1..RowsEver, level : Levels]

Init ==
    /\ rows = <<>> /\ next = 1
    /\ arriving = <<>>
    /\ cursor = [r \in Readers |-> 0]
    /\ got = [r \in Readers |-> [k \in 1..RowsEver |-> 0]]
    /\ follower = Nobody

-----------------------------------------------------------------------------
\* Mutant: what is beyond the limit is cut off at the new end.
KeepOldest(s) ==
    IF Len(s) <= MaxLogRows THEN s ELSE SubSeq(s, 1, MaxLogRows)

\* The slice of _append_log.
KeepNewest(s) ==
    IF Len(s) <= MaxLogRows THEN s
    ELSE SubSeq(s, Len(s) - MaxLogRows + 1, Len(s))

AppendLog(level) ==
    /\ rows' = KeepNewest(Append(rows, [cursor |-> next, level |-> level]))
    /\ next' = next + 1

\* A game sends a message.
Arrive(level) ==
    /\ next + Len(arriving) <= RowsEver
    /\ arriving' = Append(arriving, level)
    /\ UNCHANGED <<rows, next, cursor, got, follower>>

\* The main thread polls the debugger.
Capture ==
    /\ follower = Nobody
    /\ arriving # <<>>
    /\ AppendLog(Head(arriving))
    /\ arriving' = Tail(arriving)
    /\ UNCHANGED <<cursor, got, follower>>

-----------------------------------------------------------------------------
(* execute_logs.                                                           *)

\* _filtered_logs, as positions in rows.
Filtered(r) ==
    {i \in DOMAIN rows : rows[i].cursor > cursor[r] /\ rows[i].level \in Wanted[r]}

\* The first max rows of S; slice(0, max).
FirstOf(S, max) ==
    IF max = 0 THEN S ELSE {i \in S : Cardinality({j \in S : j <= i}) <= max}

\* Mutant: next_cursor is that of the newest row, shown or not.
NextCursorOfNewest(r, page) == IF page = {} THEN cursor[r] ELSE next - 1

\* Mutant: next_cursor is the cursor that comes next.
NextCursorOneOn(r, page) ==
    IF page = {} THEN cursor[r]
    ELSE rows[CHOOSE i \in page : \A j \in page : j <= i].cursor + 1

NextCursor(r, page) ==
    IF page = {} THEN cursor[r]
    ELSE rows[CHOOSE i \in page : \A j \in page : j <= i].cursor

Respond(r, max) ==
    LET page == FirstOf(Filtered(r), max) IN
      /\ cursor' = [cursor EXCEPT ![r] = NextCursor(r, page)]
      /\ got' = [got EXCEPT ![r] = [k \in 1..RowsEver |->
                   IF \E i \in page : rows[i].cursor = k THEN @[k] + 1 ELSE @[k]]]

\* Without follow, or with a row to show at the first look.
List(r, max) ==
    /\ follower = Nobody
    /\ Respond(r, max)
    /\ UNCHANGED <<rows, next, arriving, follower>>

\* The first look finds nothing: the loop sleeps.
Follow(r) ==
    /\ follower = Nobody
    /\ Filtered(r) = {}
    /\ follower' = r
    /\ UNCHANGED <<rows, next, arriving, cursor, got>>

\* Mutant: the loop goes on until it has found a row.
EndFollowWithRow(r, max) ==
    /\ follower = r /\ Filtered(r) # {}
    /\ Respond(r, max)
    /\ follower' = Nobody
    /\ UNCHANGED <<rows, next, arriving>>

\* The window has passed, or a look in the loop found a row.
EndFollow(r, max) ==
    /\ follower = r
    /\ Respond(r, max)
    /\ follower' = Nobody
    /\ UNCHANGED <<rows, next, arriving>>

Next ==
    \/ \E l \in Levels : Arrive(l)
    \/ Capture
    \/ \E r \in Readers, max \in Pages : List(r, max) \/ EndFollow(r, max)
    \/ \E r \in Readers : Follow(r)

Spec == Init /\ [][Next]_vars

\* A window passes.  The editor polls the debugger in every iteration of its
\* main loop, and an iteration serves the requests its socket has already
\* received, which are finitely many: but the next one may follow again.
FairSpec ==
    /\ Spec
    /\ \A r \in Readers : WF_vars(\E max \in Pages : EndFollow(r, max))
    /\ SF_vars(Capture)

-----------------------------------------------------------------------------
TypeOK ==
    /\ rows \in Seq(Row)
    /\ next \in 1..(RowsEver + 1)
    /\ arriving \in Seq(Levels)
    /\ cursor \in [Readers -> 0..RowsEver]
    /\ got \in [Readers -> [1..RowsEver -> Nat]]
    /\ follower \in Readers \cup {Nobody}

\* The log holds the newest rows, at most MaxLogRows, under consecutive
\* cursors: a cursor names one row for as long as the service lives.
RingIsNewest ==
    /\ Len(rows) = IF next - 1 <= MaxLogRows THEN next - 1 ELSE MaxLogRows
    /\ \A i \in DOMAIN rows : rows[i].cursor = next - Len(rows) + i - 1

\* A reader that passes each next_cursor on gets every row its filter wants
\* exactly once, whatever the pages, unless the row was dropped before it
\* asked.
ReadOnce ==
    \A r \in Readers :
      /\ cursor[r] < next
      /\ \A k \in 1..RowsEver : got[r][k] <= 1 /\ (k > cursor[r] => got[r][k] = 0)
      /\ \A i \in DOMAIN rows :
           rows[i].cursor <= cursor[r] =>
             got[r][rows[i].cursor] = IF rows[i].level \in Wanted[r] THEN 1 ELSE 0

\* A request that follows the log holds the thread that would log what it
\* waits for.  Each message is logged for all that, whoever follows and how
\* often: no request waits for good for a row that waits for it.
MessagesAreLogged ==
    \A k \in 1..RowsEver : next + Len(arriving) > k ~> next > k
=============================================================================
