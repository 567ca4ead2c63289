------------------------------ MODULE AuditLog ------------------------------
(***************************************************************************)
(* The asynchronous audit logger (audit/audit.go): Record puts events into *)
(* a buffered channel without ever blocking, one worker writes them to the *)
(* audit_events table, Close closes the channel and waits for the worker.  *)
(* An event is named after the request it is about.                        *)
(***************************************************************************)
EXTENDS Naturals, Sequences

CONSTANTS
    Requests,   \* concurrent requests
    Nobody,     \* no event
    BufferSize  \* defaultBufferSize

ASSUME AuditAssumption == BufferSize \in Nat \ {0} /\ Nobody \notin Requests

VARIABLES
    ch,        \* l.ch
    closed,    \* close(l.ch) has happened
    worker,    \* the goroutine of run: at the channel, in persist, done
    current,   \* the event the worker persists
    accepted,  \* history: events this logger took, in order
    handled    \* history: events its worker is done with, in order

auditVars == <<ch, closed, worker, current, accepted, handled>>

AuditInit ==
    /\ ch = <<>> /\ accepted = <<>> /\ handled = <<>>
    /\ closed = FALSE
    /\ worker = "none" /\ current = Nobody

\* An empty channel and a goroutine that waits at it.
NewSQLiteLogger ==
    /\ worker = "none"
    /\ worker' = "receive"
    /\ UNCHANGED <<ch, closed, current, accepted, handled>>

\* The end of the process.
LoseLogger ==
    /\ ch' = <<>> /\ accepted' = <<>> /\ handled' = <<>>
    /\ closed' = FALSE
    /\ worker' = "none" /\ current' = Nobody

\* Mutant: an unbounded buffer.
EnqueueAlways(e) ==
    /\ ~closed
    /\ ch' = Append(ch, e)
    /\ accepted' = Append(accepted, e)
    /\ UNCHANGED <<closed, worker, current, handled>>

\* Record: the send succeeds.
Enqueue(e) ==
    /\ ~closed
    /\ Len(ch) < BufferSize
    /\ ch' = Append(ch, e)
    /\ accepted' = Append(accepted, e)
    /\ UNCHANGED <<closed, worker, current, handled>>

\* Record: the buffer is full, the event is dropped with a warning.
Drop(e) ==
    /\ ~closed
    /\ Len(ch) >= BufferSize
    /\ UNCHANGED auditVars

\* Record: a send on a closed channel panics, in a select too.
SendPanics(e) ==
    /\ closed
    /\ UNCHANGED auditVars

\* run: the next event of the channel.
Receive ==
    /\ worker = "receive"
    /\ ch # <<>>
    /\ current' = Head(ch)
    /\ ch' = Tail(ch)
    /\ worker' = "persist"
    /\ UNCHANGED <<closed, accepted, handled>>

\* persist: InsertAuditEvent succeeds, or fails, at the latest after five
\* seconds, and the error is logged.
Persist ==
    /\ worker = "persist"
    /\ handled' = Append(handled, current)
    /\ current' = Nobody
    /\ worker' = "receive"
    /\ UNCHANGED <<ch, closed, accepted>>

\* Mutant: the worker leaves as soon as the channel is closed.
FinishAtOnce ==
    /\ worker = "receive"
    /\ closed
    /\ worker' = "done"
    /\ UNCHANGED <<ch, closed, current, accepted, handled>>

\* run: the channel is closed and empty.
Finish ==
    /\ worker = "receive"
    /\ closed
    /\ ch = <<>>
    /\ worker' = "done"
    /\ UNCHANGED <<ch, closed, current, accepted, handled>>

\* The first half of Close; the second waits for the worker.
CloseChannel ==
    /\ closed' = TRUE
    /\ UNCHANGED <<ch, worker, current, accepted, handled>>

Worker == Receive \/ Persist \/ Finish

------------------------------------------------------------------------------
AuditTypeOK ==
    /\ ch \in Seq(Requests) /\ Len(ch) <= BufferSize
    /\ closed \in BOOLEAN
    /\ worker \in {"none", "receive", "persist", "done"}
    /\ current \in Requests \cup {Nobody}
    /\ accepted \in Seq(Requests) /\ handled \in Seq(Requests)

Pending == IF worker = "persist" THEN <<current>> ELSE <<>>

\* What was accepted is what was handled, what is being written and what waits,
\* in that order; a worker that is gone has left nothing behind.
AuditInv ==
    /\ accepted = handled \o Pending \o ch
    /\ worker = "persist" => current \in Requests
    /\ worker = "done" => closed /\ ch = <<>>
    /\ worker = "none" => ch = <<>> /\ accepted = <<>> /\ handled = <<>> /\ ~closed
==============================================================================
