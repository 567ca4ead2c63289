------------------------------- MODULE Sidecar -------------------------------
(***************************************************************************)
(* The life of a sidecar process as main.go composes it: boot with         *)
(* NewCipherWithStore and NewSQLiteLogger, requests that store secrets and *)
(* leave audit events, SIGTERM with its ten seconds of draining, the       *)
(* deferred Close of the logger, the exit, and crashes at any point.  The  *)
(* database outlives the process; its ciphertexts must stay readable.      *)
(***************************************************************************)
EXTENDS Cipher, AuditLog

CONSTANT MaxEvents  \* bound on the events one process accepts

ASSUME SidecarAssumption == MaxEvents \in Nat

VARIABLES
    proc,      \* main: down, serving, draining (Shutdown) or closing (Close)
    req,       \* request -> where its goroutine is
    timedOut,  \* history: Shutdown gave up on requests under way
    cutOff     \* history: requests whose Record panicked

procVars == <<proc, req, timedOut, cutOff>>
vars == <<cipherVars, auditVars, procVars>>

Init ==
    /\ CipherInit
    /\ AuditInit
    /\ proc = "down"
    /\ req = [r \in Requests |-> "idle"]
    /\ timedOut = FALSE
    /\ cutOff = {}

\* main up to ListenAndServe.  With no active key or with two the process
\* exits at once, which changes nothing.
Boot ==
    /\ proc = "down"
    /\ NewCipherWithStore
    /\ NewSQLiteLogger
    /\ proc' = "serving"
    /\ UNCHANGED <<req, timedOut, cutOff>>

Busy(r) == req[r] # "idle"

\* The server takes a request; bounded by MaxEvents.
Accept(r) ==
    /\ proc = "serving"
    /\ ~Busy(r)
    /\ Len(accepted) + Cardinality({q \in Requests : Busy(q)}) < MaxEvents
    /\ req' = [req EXCEPT ![r] = "handler"]
    /\ UNCHANGED <<cipherVars, auditVars, proc, timedOut, cutOff>>

\* The handler behind auditOAuth, with PersistEncrypted (withRC) or the
\* upstream refresh token of a callback, or without a secret to store.
Handle(r) ==
    /\ proc # "down"
    /\ req[r] = "handler"
    /\ req' = [req EXCEPT ![r] = "record"]
    /\ \/ \E b \in Blobs : Encrypt(b)
       \/ UNCHANGED cipherVars
    /\ UNCHANGED <<auditVars, proc, timedOut, cutOff>>

\* auditOAuth calls Record after the handler.  net/http recovers a panic and
\* closes the connection: the client does not get the buffered response.
Record(r) ==
    /\ proc # "down"
    /\ req[r] = "record"
    /\ \/ (Enqueue(r) \/ Drop(r)) /\ UNCHANGED cutOff
       \/ SendPanics(r) /\ cutOff' = cutOff \cup {r}
    /\ req' = [req EXCEPT ![r] = "idle"]
    /\ UNCHANGED <<cipherVars, proc, timedOut>>

RunWorker ==
    /\ proc # "down"
    /\ Worker
    /\ UNCHANGED <<cipherVars, procVars>>

\* Mutant: the logger is closed before the requests have ended.
SignalClosesLog ==
    /\ proc = "serving"
    /\ proc' = "draining"
    /\ CloseChannel
    /\ UNCHANGED <<cipherVars, req, timedOut, cutOff>>

\* SIGTERM: the listener is closed, Shutdown waits for the requests.
Signal ==
    /\ proc = "serving"
    /\ proc' = "draining"
    /\ UNCHANGED <<cipherVars, auditVars, req, timedOut, cutOff>>

\* Mutant: Close waits for the worker without having closed the channel.
WaitForWorker(expired) ==
    /\ proc = "draining"
    /\ expired = (\E r \in Requests : Busy(r))
    /\ proc' = "closing"
    /\ timedOut' = expired
    /\ UNCHANGED <<cipherVars, auditVars, req, cutOff>>

\* Shutdown returns when no request is left, or with an error after ten
\* seconds; either way the deferred auditLog.Close is next.
CloseLog(expired) ==
    /\ proc = "draining"
    /\ expired = (\E r \in Requests : Busy(r))
    /\ CloseChannel
    /\ proc' = "closing"
    /\ timedOut' = expired
    /\ UNCHANGED <<cipherVars, req, cutOff>>

\* What the process held in memory is gone, requests under way included.
End ==
    /\ proc' = "down"
    /\ LoseCipher
    /\ LoseLogger
    /\ req' = [r \in Requests |-> "idle"]
    /\ timedOut' = FALSE
    /\ cutOff' = {}

\* Close returns when the worker is done, main returns and every goroutine
\* that is still running ends with it.
Exit ==
    /\ proc = "closing"
    /\ worker = "done"
    /\ End

\* A crash, or the os.Exit of a failing listener.
Crash ==
    /\ proc # "down"
    /\ End

OperatorStep ==
    /\ Operator
    /\ UNCHANGED <<auditVars, procVars>>

Next ==
    \/ Boot \/ RunWorker \/ Signal \/ Exit \/ Crash \/ OperatorStep
    \/ \E expired \in BOOLEAN : CloseLog(expired)
    \/ \E r \in Requests : Accept(r) \/ Handle(r) \/ Record(r)

Spec == Init /\ [][Next]_vars

(***************************************************************************)
(* The worker runs whenever it can: a persist ends within its five         *)
(* seconds.  Shutdown ends within ten seconds, and main goes on.           *)
(***************************************************************************)
FairSpec ==
    /\ Spec
    /\ WF_vars(RunWorker)
    /\ WF_vars(\E expired \in BOOLEAN : CloseLog(expired))
    /\ WF_vars(Exit)

------------------------------------------------------------------------------
\* Every variable has its type.
TypeOK ==
    /\ CipherTypeOK
    /\ AuditTypeOK
    /\ proc \in {"down", "serving", "draining", "closing"}
    /\ req \in [Requests -> {"idle", "handler", "record"}]
    /\ timedOut \in BOOLEAN
    /\ cutOff \subseteq Requests

(***************************************************************************)
(* Whatever a sidecar has encrypted a later one can decrypt: after         *)
(* crashes, after the operator has inserted and retired keys under a       *)
(* running process that goes on using the old one, and after a change of   *)
(* BOUNCER_ENCRYPTION_KEY.  What builds before key versions have written   *)
(* needs the environment's key of that time, and a nonce that is not       *)
(* mistaken for a header.                                                  *)
(***************************************************************************)
Promised(b) ==
    \/ blobs[b].form = "versioned"
    \/ blobs[b].form = "legacy" /\ blobs[b].id = None /\ ~envChanged

SecretsReadable == proc # "down" => \A b \in Blobs : Promised(b) => Decrypts(b)

(***************************************************************************)
(* "Close drains pending events and waits for the worker goroutine to      *)
(* finish" (audit.go): when the worker is gone it has dealt with every     *)
(* event Record took, in the order Record took them.                       *)
(***************************************************************************)
CloseDrains == worker = "done" => handled = accepted

(***************************************************************************)
(* A request is cut off by Record's panic only when Shutdown gave up on    *)
(* it: as long as requests end within ten seconds of SIGTERM, the order    *)
(* Shutdown, then Close keeps Record off the closed channel.               *)
(***************************************************************************)
CutOffOnlyAfterTimeout == cutOff # {} => timedOut

\* A shutdown comes to its end, however many events wait and although requests
\* may still be running.
ShutdownCompletes == proc = "draining" ~> proc = "down"

(***************************************************************************)
(* The inductive invariant: of the cipher, of the logger, and of the       *)
(* process, which closes the channel only when it no longer accepts and    *)
(* has either seen every request end or given up on them.                  *)
(***************************************************************************)
SidecarInv ==
    /\ CipherInv
    /\ AuditInv
    /\ proc = "down" <=> cipher.activeID = None
    /\ proc = "down" <=> worker = "none"
    /\ proc = "down" => cutOff = {} /\ ~timedOut /\ \A r \in Requests : ~Busy(r)
    /\ proc \in {"serving", "draining"} => ~closed /\ cutOff = {}
    /\ proc = "closing" /\ ~timedOut => \A r \in Requests : ~Busy(r)
    /\ cutOff # {} => timedOut
==============================================================================
