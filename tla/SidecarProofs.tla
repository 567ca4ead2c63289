---------------------------- MODULE SidecarProofs ----------------------------
(***************************************************************************)
(* Proofs about Sidecar, for any number of keys, secrets, requests and     *)
(* events and for every size of the audit buffer.  SidecarInv is inductive *)
(* together with the types.  Its parts follow the modules: CipherInv is    *)
(* kept by every action that touches keys or ciphertexts, AuditInv by      *)
(* every action on the channel, and the rest is about the process.         *)
(***************************************************************************)
EXTENDS Sidecar, TLAPS, SequenceTheorems

-----------------------------------------------------------------------------
(* Sequences *)

\* The head of the second of two sequences may move to the end of the first.
LEMMA MoveHead ==
    ASSUME NEW S, NEW s \in Seq(S), NEW t \in Seq(S), t # <<>>
    PROVE  s \o t = (s \o <<Head(t)>>) \o Tail(t)
<1>1. <<Head(t)>> \in Seq(S) /\ Tail(t) \in Seq(S) /\ Head(t) \in S
  BY HeadTailProperties
<1>2. t = <<Head(t)>> \o Tail(t)
  BY <1>1, SMTT(30)
<1>3. s \o (<<Head(t)>> \o Tail(t)) = (s \o <<Head(t)>>) \o Tail(t)
  BY <1>1, ConcatAssociative
<1> QED
  BY <1>2, <1>3

-----------------------------------------------------------------------------
(* Keys and ciphertexts *)

\* What every action on keys and ciphertexts keeps.
CipherOK == CipherTypeOK /\ CipherInv

\* Boot: the cipher holds every row of the table and one active key.
LEMMA BootKeepsCipher ==
    CipherOK /\ NewCipherWithStore => CipherOK' /\ cipher'.activeID # None
<1> SUFFICES ASSUME CipherOK, NewCipherWithStore
             PROVE  CipherOK' /\ cipher'.activeID # None
  OBVIOUS
<1> USE CipherAssumption DEF CipherOK, CipherTypeOK, CipherInv, NewCipher, Row
<1>1. CASE SeedKey
  BY <1>1 DEF NewCipherWithStore, SeedKey
<1>2. CASE LoadKeys
  BY <1>2 DEF NewCipherWithStore, LoadKeys, ActiveKeys
<1> QED
  BY <1>1, <1>2 DEF NewCipherWithStore

\* Encrypt, by a process that has a cipher.
LEMMA EncryptKeepsCipher ==
    ASSUME CipherOK, cipher.activeID # None, NEW b \in Blobs, Encrypt(b)
    PROVE  CipherOK'
  BY CipherAssumption DEF CipherOK, CipherTypeOK, CipherInv, Encrypt, Ciphertext

\* The operator adds a key, changes a status or changes the environment.
LEMMA OperatorKeepsCipher ==
    ASSUME CipherOK, Operator
    PROVE  CipherOK' /\ UNCHANGED cipher
<1> USE CipherAssumption DEF CipherOK, CipherTypeOK, CipherInv, Row
<1>1. ASSUME NEW id \in KeyIDs, NEW status \in {"active", "retired"}, NEW m \in Materials,
             InsertEncryptionKey(id, m, status)
      PROVE  CipherOK' /\ UNCHANGED cipher
  BY <1>1 DEF InsertEncryptionKey
<1>2. ASSUME NEW id \in KeyIDs, NEW status \in {"active", "retired"},
             SetEncryptionKeyStatus(id, status)
      PROVE  CipherOK' /\ UNCHANGED cipher
  BY <1>2 DEF SetEncryptionKeyStatus
<1>3. ASSUME NEW m \in Materials, ChangeEnv(m)
      PROVE  CipherOK' /\ UNCHANGED cipher
  BY <1>3 DEF ChangeEnv
<1> QED
  BY <1>1, <1>2, <1>3 DEF Operator

\* The end of the process.
LEMMA EndKeepsCipher == CipherOK /\ LoseCipher => CipherOK' /\ cipher'.activeID = None
  BY CipherAssumption DEF CipherOK, CipherTypeOK, CipherInv, LoseCipher, NoCipher

\* Everything else.
LEMMA QuietKeepsCipher == CipherOK /\ UNCHANGED cipherVars => CipherOK'
  BY DEF CipherOK, CipherTypeOK, CipherInv, cipherVars

-----------------------------------------------------------------------------
(* Events *)

\* What every action on the channel keeps.
AuditOK == AuditTypeOK /\ AuditInv

\* Record takes an event at the end of the channel.
LEMMA EnqueueKeepsOrder ==
    ASSUME AuditOK, worker # "none", NEW e \in Requests, Enqueue(e)
    PROVE  AuditOK' /\ UNCHANGED <<closed, worker>>
<1> USE AuditAssumption DEF AuditOK, AuditTypeOK, Enqueue
<1>1. AuditTypeOK' /\ UNCHANGED <<closed, worker>>
  OBVIOUS
<1>2. Pending \in Seq(Requests) /\ Pending' = Pending
  BY DEF AuditInv, Pending
<1>3. accepted' = handled' \o Pending' \o ch'
  <2>1. /\ handled \o Pending \in Seq(Requests)
        /\ ch \in Seq(Requests) /\ <<e>> \in Seq(Requests)
    BY <1>2, ConcatProperties
  <2>2. ((handled \o Pending) \o ch) \o <<e>> = (handled \o Pending) \o (ch \o <<e>>)
    BY ONLY <2>1, ConcatAssociative
  <2>3. accepted' = accepted \o <<e>> /\ ch' = ch \o <<e>> /\ handled' = handled
    BY AppendIsConcat
  <2> QED
    BY <1>2, <2>2, <2>3 DEF AuditInv
<1>4. worker \notin {"none", "done"}
  BY DEF AuditInv
<1> QED
  BY <1>1, <1>3, <1>4 DEF AuditInv

\* The worker moves events on in their order.
LEMMA WorkerKeepsOrder ==
    ASSUME AuditOK, Worker
    PROVE  AuditOK' /\ UNCHANGED closed /\ worker # "none" /\ worker' # "none"
<1> USE AuditAssumption DEF AuditOK, AuditTypeOK, AuditInv, Pending
<1>1. CASE Receive
  <2>1. Head(ch) \in Requests /\ Tail(ch) \in Seq(Requests) /\ Len(Tail(ch)) = Len(ch) - 1
    BY <1>1, HeadTailProperties DEF Receive
  <2>2. handled \o <<>> = handled
    BY ConcatEmptySeq
  <2>3. accepted' = handled' \o Pending' \o ch'
    BY <1>1, <2>2, MoveHead DEF Receive
  <2> QED
    BY <1>1, <2>1, <2>3 DEF Receive
<1>2. CASE Persist
  <2>1. handled' = handled \o <<current>> /\ handled' \in Seq(Requests)
    BY <1>2 DEF Persist
  <2>2. handled' \o <<>> = handled'
    BY <2>1, ConcatEmptySeq
  <2> QED
    BY <1>2, <2>1, <2>2 DEF Persist
<1>3. CASE Finish
  BY <1>3 DEF Finish
<1> QED
  BY <1>1, <1>2, <1>3 DEF Worker

\* Closing the channel leaves its events to the worker.
LEMMA CloseKeepsOrder ==
    AuditOK /\ worker # "none" /\ CloseChannel => AuditOK' /\ closed' /\ UNCHANGED worker
  BY DEF AuditOK, AuditTypeOK, AuditInv, Pending, CloseChannel

\* Boot and the end of the process.
LEMMA LoggerStarts == AuditOK /\ NewSQLiteLogger => AuditOK' /\ worker' # "none" /\ ~closed'
<1> SUFFICES ASSUME AuditOK, NewSQLiteLogger PROVE AuditOK' /\ worker' # "none" /\ ~closed'
  OBVIOUS
<1>1. <<>> \o <<>> \o <<>> = <<>>
  BY EmptySeq, ConcatEmptySeq
<1> QED
  BY <1>1 DEF AuditOK, AuditTypeOK, AuditInv, Pending, NewSQLiteLogger

LEMMA LoggerEnds == AuditOK /\ LoseLogger => AuditOK' /\ worker' = "none"
<1> SUFFICES ASSUME AuditOK, LoseLogger PROVE AuditOK' /\ worker' = "none"
  OBVIOUS
<1>1. <<>> \o <<>> \o <<>> = <<>>
  BY EmptySeq, ConcatEmptySeq
<1>2. <<>> \in Seq(Requests) /\ Len(<<>>) = 0
  BY EmptySeq
<1>3. AuditTypeOK'
  <2>1. /\ ch' \in Seq(Requests) /\ Len(ch') = 0
        /\ accepted' \in Seq(Requests) /\ handled' \in Seq(Requests)
    BY <1>2 DEF LoseLogger
  <2>2. Len(ch') <= BufferSize
    BY <2>1, AuditAssumption
  <2>3. /\ closed' \in BOOLEAN /\ worker' \in {"none", "receive", "persist", "done"}
        /\ current' \in Requests \cup {Nobody}
    BY DEF LoseLogger
  <2> QED
    BY <2>1, <2>2, <2>3 DEF AuditTypeOK
<1>4. Pending' = <<>> /\ AuditInv'
  BY <1>1 DEF AuditInv, Pending, LoseLogger
<1> QED
  BY <1>3, <1>4 DEF AuditOK, LoseLogger

LEMMA QuietKeepsOrder == AuditOK /\ UNCHANGED auditVars => AuditOK'
  BY DEF AuditOK, AuditTypeOK, AuditInv, Pending, auditVars

-----------------------------------------------------------------------------
(* The process *)

ProcTypeOK ==
    /\ proc \in {"down", "serving", "draining", "closing"}
    /\ req \in [Requests -> {"idle", "handler", "record"}]
    /\ timedOut \in BOOLEAN
    /\ cutOff \subseteq Requests

\* SidecarInv without the invariants of the two components.
ProcInv ==
    /\ proc = "down" <=> cipher.activeID = None
    /\ proc = "down" <=> worker = "none"
    /\ proc = "down" => cutOff = {} /\ ~timedOut /\ \A r \in Requests : ~Busy(r)
    /\ proc \in {"serving", "draining"} => ~closed /\ cutOff = {}
    /\ proc = "closing" /\ ~timedOut => \A r \in Requests : ~Busy(r)
    /\ cutOff # {} => timedOut

ProcOK == ProcTypeOK /\ ProcInv

\* The three parts are the types and the invariant of the whole.
LEMMA Parts == (TypeOK /\ SidecarInv) <=> (CipherOK /\ AuditOK /\ ProcOK)
  BY DEF TypeOK, SidecarInv, CipherOK, AuditOK, ProcOK, ProcTypeOK, ProcInv

\* Every action of the process and of the operator keeps all three parts.
LEMMA StepKeepsParts ==
    CipherOK /\ AuditOK /\ ProcOK /\ [Next]_vars => (CipherOK /\ AuditOK /\ ProcOK)'
<1> SUFFICES ASSUME CipherOK, AuditOK, ProcOK, [Next]_vars
             PROVE  CipherOK' /\ AuditOK' /\ ProcOK'
  OBVIOUS
<1> USE DEF ProcOK, ProcTypeOK, ProcInv, Busy, procVars
<1>1. CASE Boot
  <2>1. CipherOK' /\ cipher'.activeID # None
    BY <1>1, BootKeepsCipher DEF Boot
  <2>2. AuditOK' /\ worker' # "none" /\ ~closed'
    BY <1>1, LoggerStarts DEF Boot
  <2> QED
    BY <1>1, <2>1, <2>2 DEF Boot
<1>2. ASSUME NEW r \in Requests, Accept(r)
      PROVE  CipherOK' /\ AuditOK' /\ ProcOK'
  <2>1. CipherOK' /\ AuditOK'
    BY <1>2, QuietKeepsCipher, QuietKeepsOrder DEF Accept
  <2> QED
    BY <1>2, <2>1 DEF Accept, cipherVars, auditVars
<1>3. ASSUME NEW r \in Requests, Handle(r)
      PROVE  CipherOK' /\ AuditOK' /\ ProcOK'
  <2>1. CipherOK' /\ UNCHANGED cipher
    <3>1. ASSUME NEW b \in Blobs, Encrypt(b) PROVE CipherOK' /\ UNCHANGED cipher
      <4>1. cipher.activeID # None
        BY <1>3 DEF Handle
      <4> QED
        BY <3>1, <4>1, EncryptKeepsCipher DEF Encrypt
    <3>2. CASE UNCHANGED cipherVars
      BY <3>2, QuietKeepsCipher DEF cipherVars
    <3> QED
      BY <1>3, <3>1, <3>2 DEF Handle
  <2>2. AuditOK'
    BY <1>3, QuietKeepsOrder DEF Handle
  <2> QED
    BY <1>3, <2>1, <2>2 DEF Handle, auditVars
<1>4. ASSUME NEW r \in Requests, Record(r)
      PROVE  CipherOK' /\ AuditOK' /\ ProcOK'
  <2>1. CipherOK' /\ UNCHANGED cipher
    BY <1>4, QuietKeepsCipher DEF Record, cipherVars
  <2>2. AuditOK' /\ UNCHANGED <<closed, worker>>
    <3>1. CASE Enqueue(r)
      <4>1. worker # "none"
        BY <1>4 DEF Record
      <4> QED
        BY <3>1, <4>1, EnqueueKeepsOrder
    <3>2. CASE UNCHANGED auditVars
      BY <3>2, QuietKeepsOrder DEF auditVars
    <3> QED
      BY <1>4, <3>1, <3>2 DEF Record, Drop, SendPanics
  <2>3. \/ UNCHANGED cutOff
        \/ cutOff' = cutOff \cup {r} /\ closed
    BY <1>4 DEF Record, SendPanics
  <2>4. closed => proc = "closing"
    BY <1>4 DEF Record
  <2>5. /\ proc # "down" /\ Busy(r) /\ UNCHANGED <<proc, timedOut>>
        /\ req' = [req EXCEPT ![r] = "idle"]
    BY <1>4 DEF Record
  <2> QED
    BY <2>1, <2>2, <2>3, <2>4, <2>5
<1>5. CASE RunWorker
  <2>1. CipherOK' /\ UNCHANGED cipher
    BY <1>5, QuietKeepsCipher DEF RunWorker, cipherVars
  <2>2. AuditOK' /\ UNCHANGED closed /\ worker # "none" /\ worker' # "none"
    BY <1>5, WorkerKeepsOrder DEF RunWorker
  <2> QED
    BY <1>5, <2>1, <2>2 DEF RunWorker
<1>6. CASE Signal
  <2>1. CipherOK' /\ AuditOK'
    BY <1>6, QuietKeepsCipher, QuietKeepsOrder DEF Signal
  <2> QED
    BY <1>6, <2>1 DEF Signal, cipherVars, auditVars
<1>7. ASSUME NEW expired \in BOOLEAN, CloseLog(expired)
      PROVE  CipherOK' /\ AuditOK' /\ ProcOK'
  <2>1. CipherOK' /\ UNCHANGED cipher
    BY <1>7, QuietKeepsCipher DEF CloseLog, cipherVars
  <2>2. AuditOK' /\ closed' /\ UNCHANGED worker
    <3>1. worker # "none" /\ CloseChannel
      BY <1>7 DEF CloseLog
    <3> QED
      BY <3>1, CloseKeepsOrder
  <2> QED
    BY <1>7, <2>1, <2>2 DEF CloseLog
<1>8. CASE End
  <2>1. CipherOK' /\ cipher'.activeID = None
    BY <1>8, EndKeepsCipher DEF End
  <2>2. AuditOK' /\ worker' = "none"
    BY <1>8, LoggerEnds DEF End
  <2> QED
    BY <1>8, <2>1, <2>2 DEF End
<1>9. CASE OperatorStep
  <2>1. CipherOK' /\ UNCHANGED cipher
    BY <1>9, OperatorKeepsCipher DEF OperatorStep
  <2>2. AuditOK'
    BY <1>9, QuietKeepsOrder DEF OperatorStep
  <2> QED
    BY <1>9, <2>1, <2>2 DEF OperatorStep, auditVars
<1>10. CASE UNCHANGED vars
  <2>1. CipherOK' /\ AuditOK'
    BY <1>10, QuietKeepsCipher, QuietKeepsOrder DEF vars
  <2> QED
    BY <1>10, <2>1 DEF vars, cipherVars, auditVars
<1> QED
  BY <1>1, <1>2, <1>3, <1>4, <1>5, <1>6, <1>7, <1>8, <1>9, <1>10 DEF Next, Exit, Crash

\* The first boot has not happened: no rows, no process, no events.
LEMMA InitHasParts == Init => CipherOK /\ AuditOK /\ ProcOK
<1> SUFFICES ASSUME Init PROVE CipherOK /\ AuditOK /\ ProcOK
  OBVIOUS
<1>1. CipherOK
  <2>1. /\ DOMAIN table = {} /\ env \in Materials /\ envChanged = FALSE
        /\ DOMAIN cipher.keys = {} /\ cipher.activeID = None /\ cipher.legacy = None
    BY DEF Init, CipherInit, NoCipher
  <2>2. \A b \in Blobs : /\ blobs[b] \in [form : {"absent", "legacy", "versioned"},
                             id : KeyIDs \cup {None}, material : Materials \cup {None}]
                         /\ blobs[b].form # "versioned"
                         /\ blobs[b].form = "legacy" => blobs[b].material = env
    <3> TAKE b \in Blobs
    <3>1. CASE blobs[b] = NoBlob
      BY <3>1 DEF NoBlob, Ciphertext
    <3>2. ASSUME NEW id \in KeyIDs \cup {None}, blobs[b] = Ciphertext("legacy", id, env)
          PROVE  /\ blobs[b] \in [form : {"absent", "legacy", "versioned"},
                     id : KeyIDs \cup {None}, material : Materials \cup {None}]
                 /\ blobs[b].form # "versioned"
                 /\ blobs[b].form = "legacy" => blobs[b].material = env
      BY <2>1, <3>2 DEF Ciphertext
    <3> QED
      BY <3>1, <3>2 DEF Init, CipherInit
  <2>3. blobs \in [Blobs -> [form : {"absent", "legacy", "versioned"},
                            id : KeyIDs \cup {None}, material : Materials \cup {None}]]
    BY <2>2 DEF Init, CipherInit
  <2> QED
    BY <2>1, <2>2, <2>3 DEF CipherOK, CipherTypeOK, CipherInv
<1>2. AuditOK
  <2>1. <<>> \o <<>> \o <<>> = <<>>
    BY EmptySeq, ConcatEmptySeq
  <2>2. <<>> \in Seq(Requests) /\ Len(<<>>) = 0
    BY EmptySeq
  <2>3. Len(ch) <= BufferSize
    BY <2>2, AuditAssumption DEF Init, AuditInit
  <2> QED
    BY <2>1, <2>2, <2>3 DEF Init, AuditInit, AuditOK, AuditTypeOK, AuditInv, Pending
<1>3. ProcOK
  BY DEF Init, CipherInit, AuditInit, NoCipher, ProcOK, ProcTypeOK, ProcInv, Busy
<1> QED
  BY <1>1, <1>2, <1>3

-----------------------------------------------------------------------------
(* Theorems *)

\* The types and the inductive invariant of the process, its cipher and its
\* logger hold in every state, across crashes and the operator's changes.
THEOREM SidecarInvariant == Spec => [](TypeOK /\ SidecarInv)
<1>1. Init => TypeOK /\ SidecarInv
  BY InitHasParts, Parts
<1>2. TypeOK /\ SidecarInv /\ [Next]_vars => (TypeOK /\ SidecarInv)'
  <2>1. (CipherOK /\ AuditOK /\ ProcOK)' => (TypeOK /\ SidecarInv)'
    BY DEF TypeOK, SidecarInv, CipherOK, AuditOK, ProcOK, ProcTypeOK, ProcInv
  <2> QED
    BY <2>1, StepKeepsParts, Parts
<1> QED
  BY <1>1, <1>2, PTL DEF Spec

\* The key table, the ciphertexts, the channel and the requests keep their types.
THEOREM TypeCorrect == Spec => []TypeOK
  BY SidecarInvariant, PTL

\* A running sidecar can decrypt every versioned ciphertext in the database,
\* and every legacy one as long as the environment's key has not changed.
THEOREM SecretsAlwaysReadable == Spec => []SecretsReadable
<1>1. TypeOK /\ SidecarInv => SecretsReadable
  <2> SUFFICES ASSUME TypeOK, SidecarInv, proc # "down", NEW b \in Blobs, Promised(b)
               PROVE  Decrypts(b)
    BY DEF SecretsReadable
  <2>1. cipher.activeID # None
    BY DEF SidecarInv
  <2>2. CASE blobs[b].form = "versioned"
    <3>1. /\ blobs[b].id \in DOMAIN table /\ blobs[b].id \in DOMAIN cipher.keys
          /\ blobs[b].material = cipher.keys[blobs[b].id]
      BY <2>1, <2>2 DEF SidecarInv, CipherInv
    <3>2. blobs[b].id # None
      BY <3>1, CipherAssumption DEF TypeOK, CipherTypeOK
    <3> QED
      BY <2>2, <3>1, <3>2 DEF Decrypts, LooksVersioned
  <2>3. CASE blobs[b].form = "legacy" /\ blobs[b].id = None /\ ~envChanged
    BY <2>1, <2>3 DEF SidecarInv, CipherInv, Decrypts, LooksVersioned
  <2> QED
    BY <2>2, <2>3 DEF Promised
<1> QED
  BY <1>1, SidecarInvariant, PTL

\* When the worker has ended, every event Record took has been dealt with, in
\* the order of the calls.
THEOREM CloseAlwaysDrains == Spec => []CloseDrains
<1>1. TypeOK /\ SidecarInv => CloseDrains
  <2> SUFFICES ASSUME TypeOK, SidecarInv, worker = "done" PROVE handled = accepted
    BY DEF CloseDrains
  <2>1. Pending = <<>> /\ ch = <<>> /\ accepted = (handled \o Pending) \o ch
    BY DEF SidecarInv, AuditInv, Pending
  <2>2. handled \in Seq(Requests) /\ handled \o <<>> = handled
    BY ConcatEmptySeq DEF TypeOK, AuditTypeOK
  <2> QED
    BY <2>1, <2>2
<1> QED
  BY <1>1, SidecarInvariant, PTL

\* No request is cut off by a panic of Record unless Shutdown gave up on it.
THEOREM CutOffNeedsTimeout == Spec => []CutOffOnlyAfterTimeout
<1>1. SidecarInv => CutOffOnlyAfterTimeout
  BY DEF SidecarInv, CutOffOnlyAfterTimeout
<1> QED
  BY <1>1, SidecarInvariant, PTL
==============================================================================
