-------------------------------- MODULE Spool --------------------------------
(***************************************************************************)
(* The file-backed spool transport (srl.transport.spool): senders queue    *)
(* signed messages, receivers import them, and directories of JSON files   *)
(* are all they share.  Each atomic file write and each read of what       *)
(* another process writes is an action.                                    *)
(*                                                                         *)
(* A signature file is the record of what is signed, and the reference to  *)
(* it (the hash of the file) is the record itself.  A malformed message    *)
(* is quarantined under the hash of its bytes and meets no other message;  *)
(* it is not modelled.  The classification check repeats one the schema    *)
(* made, so the status REJECTED is out of reach.                           *)
(***************************************************************************)
EXTENDS Naturals, FiniteSets

CONSTANTS
    Senders, Receivers,  \* the processes
    Messages,            \* message ids
    Key,                 \* Key[m]: idempotency key and payload reference
    SendsOf,             \* SendsOf[s]: the messages sender s queues
    MayRequeue,          \* senders queue a message again
    MayExpire,           \* the messages whose time to live may run out
    MayRevoke,           \* the signing key may be revoked
    MayDeadLetter,       \* the operator calls dead_letter
    MaxSends,            \* bound: queue_message calls in a behaviour
    MaxCrashes           \* bound: kills in a behaviour

ASSUME SpoolAssumption ==
    /\ Senders \cap Receivers = {}
    /\ DOMAIN Key = Messages
    /\ SendsOf \in [Senders -> SUBSET Messages]
    /\ MayExpire \subseteq Messages
    /\ MayRequeue \in BOOLEAN /\ MayRevoke \in BOOLEAN /\ MayDeadLetter \in BOOLEAN
    /\ MaxSends \in Nat /\ MaxCrashes \in Nat

VARIABLES
    queued,      \* outbox/queued
    sigs,        \* signatures/<id>.json
    imported,    \* inbox/imported
    acks,        \* acks/<id>.json: the status
    quarantine,  \* quarantine/<id>.json
    dlq,         \* dlq/<id>.json
    expired,     \* messages older than the receivers' time to live
    revoked,     \* the key is in the receivers' revoked set
    pc, job,     \* control and locals of the processes
    chain,       \* history: the signatures the imports were checked with
    sends, crashes

files == <<queued, sigs, imported, acks, quarantine, dlq>>
world == <<expired, revoked>>
bounds == <<sends, crashes>>
vars == <<files, world, pc, job, chain, bounds>>

Procs == Senders \cup Receivers
AckStatus == {"none", "ACKNOWLEDGED", "QUARANTINED", "EXPIRED"}
Steps == {"idle", "write_message", "write_signature",
          "read_signature", "dup_check", "chain_check", "ttl_check",
          "quarantine", "dead_letter", "import", "ack", "reconcile", "rebuild"}

\* No signature: the number before the first.
NoSig == [seq |-> 0]

\* Of a set of signatures the one with the highest sequence number, and of
\* those any (the code takes the largest hash), or NoSig.
Latest(S) == IF S = {} THEN {NoSig} ELSE {s \in S : \A t \in S : t.seq <= s.seq}

Fresh == [msg |-> "none", sig |-> NoSig, late |-> FALSE, ack |-> "none", todo |-> {}]
Goto(p, step) == pc' = [pc EXCEPT ![p] = step]
Done(p) == Goto(p, "idle") /\ job' = [job EXCEPT ![p] = Fresh]
Msg(p) == job[p].msg

\* Signatures as latest_signature sees them, and the imported messages' ones.
AllSigs == {sigs[m] : m \in Messages} \ {NoSig}
ImportedSigs == {sigs[m] : m \in imported} \ {NoSig}

Init ==
    /\ queued = {}
    /\ sigs = [m \in Messages |-> NoSig]
    /\ imported = {}
    /\ acks = [m \in Messages |-> "none"]
    /\ quarantine = {}
    /\ dlq = {}
    /\ expired = {}
    /\ revoked = FALSE
    /\ pc = [p \in Procs |-> "idle"]
    /\ job = [p \in Procs |-> Fresh]
    /\ chain = {}
    /\ sends = 0
    /\ crashes = 0
-----------------------------------------------------------------------------
(* Wrong variants of the actions below, each a bug the properties must catch. *)

\* Any signature that is newer than the last one goes.
ChainCheckNewer(r) ==
    /\ pc[r] = "chain_check"
    /\ \E last \in Latest(ImportedSigs) :
         IF job[r].sig.seq >= last.seq
         THEN Goto(r, "ttl_check") /\ UNCHANGED job
         ELSE Goto(r, "quarantine") /\ job' = [job EXCEPT ![r].ack = "QUARANTINED"]
    /\ UNCHANGED <<files, world, chain, bounds>>

\* The time to live is looked at on the first delivery only.
TtlCheckFirst(r) ==
    /\ pc[r] = "ttl_check"
    /\ LET late == job[r].late /\ acks[Msg(r)] = "none"
       IN  \/ late /\ Goto(r, "dead_letter") /\ job' = [job EXCEPT ![r].ack = "EXPIRED"]
           \/ ~late /\ Goto(r, "import") /\ job' = [job EXCEPT ![r].ack = "ACKNOWLEDGED"]
    /\ UNCHANGED <<files, world, chain, bounds>>

\* Reconciliation rebuilds nothing.
RebuildAckSkipped(r) ==
    /\ pc[r] = "rebuild"
    /\ Goto(r, "reconcile")
    /\ job' = [job EXCEPT ![r].todo = @ \ {Msg(r)}]
    /\ UNCHANGED <<files, world, chain, bounds>>
-----------------------------------------------------------------------------
(* queue_message *)

\* Sign the message as the successor of the latest signature on disk.
StartQueue(s) ==
    /\ pc[s] = "idle"
    /\ sends < MaxSends
    /\ sends' = sends + 1
    /\ \E m \in SendsOf[s], prior \in Latest(AllSigs) :
         /\ MayRequeue \/ m \notin queued
         /\ job' = [job EXCEPT ![s].msg = m,
                               ![s].sig = [msg |-> m, seq |-> prior.seq + 1, prev |-> prior]]
    /\ Goto(s, "write_message")
    /\ UNCHANGED <<files, world, chain, crashes>>

WriteMessage(s) ==
    /\ pc[s] = "write_message"
    /\ queued' = queued \cup {Msg(s)}
    /\ Goto(s, "write_signature")
    /\ UNCHANGED <<sigs, imported, acks, quarantine, dlq, world, job, chain, bounds>>

WriteSignature(s) ==
    /\ pc[s] = "write_signature"
    /\ sigs' = [sigs EXCEPT ![Msg(s)] = job[s].sig]
    /\ Done(s)
    /\ UNCHANGED <<queued, imported, acks, quarantine, dlq, world, chain, bounds>>
-----------------------------------------------------------------------------
(* receive *)

\* A delivery, the first or a repeated one, with the receiver's clock read.
StartReceive(r) ==
    /\ pc[r] = "idle"
    /\ \E m \in queued : job' = [job EXCEPT ![r].msg = m, ![r].late = m \in expired]
    /\ Goto(r, "read_signature")
    /\ UNCHANGED <<files, world, chain, bounds>>

\* No signature file, or one the verifier refuses: quarantine.
ReadSignature(r) ==
    /\ pc[r] = "read_signature"
    /\ \/ /\ sigs[Msg(r)] # NoSig /\ ~revoked
          /\ job' = [job EXCEPT ![r].sig = sigs[Msg(r)]]
          /\ Goto(r, "dup_check")
       \/ /\ sigs[Msg(r)] = NoSig \/ revoked
          /\ job' = [job EXCEPT ![r].ack = "QUARANTINED"]
          /\ Goto(r, "quarantine")
    /\ UNCHANGED <<files, world, chain, bounds>>

\* _is_duplicate: answered without writing anything.
DupCheck(r) ==
    /\ pc[r] = "dup_check"
    /\ LET duplicate == \E m \in imported : m = Msg(r) \/ Key[m] = Key[Msg(r)]
       IN  \/ duplicate /\ Done(r)
           \/ ~duplicate /\ Goto(r, "chain_check") /\ UNCHANGED job
    /\ UNCHANGED <<files, world, chain, bounds>>

\* _hash_chain_accepts: the next number, and the latest import as predecessor.
ChainCheck(r) ==
    /\ pc[r] = "chain_check"
    /\ \E last \in Latest(ImportedSigs) :
         IF /\ last # NoSig => job[r].sig.seq = last.seq + 1
            /\ job[r].sig.prev = last
         THEN Goto(r, "ttl_check") /\ UNCHANGED job
         ELSE Goto(r, "quarantine") /\ job' = [job EXCEPT ![r].ack = "QUARANTINED"]
    /\ UNCHANGED <<files, world, chain, bounds>>

TtlCheck(r) ==
    /\ pc[r] = "ttl_check"
    /\ \/ job[r].late /\ Goto(r, "dead_letter") /\ job' = [job EXCEPT ![r].ack = "EXPIRED"]
       \/ ~job[r].late /\ Goto(r, "import") /\ job' = [job EXCEPT ![r].ack = "ACKNOWLEDGED"]
    /\ UNCHANGED <<files, world, chain, bounds>>

Quarantine(r) ==
    /\ pc[r] = "quarantine"
    /\ quarantine' = quarantine \cup {Msg(r)}
    /\ Goto(r, "ack")
    /\ UNCHANGED <<queued, sigs, imported, acks, dlq, world, job, chain, bounds>>

DeadLetter(r) ==
    /\ pc[r] = "dead_letter"
    /\ dlq' = dlq \cup {Msg(r)}
    /\ Goto(r, "ack")
    /\ UNCHANGED <<queued, sigs, imported, acks, quarantine, world, job, chain, bounds>>

Import(r) ==
    /\ pc[r] = "import"
    /\ imported' = imported \cup {Msg(r)}
    /\ chain' = chain \cup {job[r].sig}
    /\ Goto(r, "ack")
    /\ UNCHANGED <<queued, sigs, acks, quarantine, dlq, world, job, bounds>>

\* The acknowledgement overwrites an earlier one of the message.
WriteAck(r) ==
    /\ pc[r] = "ack"
    /\ acks' = [acks EXCEPT ![Msg(r)] = job[r].ack]
    /\ Done(r)
    /\ UNCHANGED <<queued, sigs, imported, quarantine, dlq, world, chain, bounds>>
-----------------------------------------------------------------------------
(* reconcile_acknowledgements *)

StartReconcile(r) ==
    /\ pc[r] = "idle"
    /\ imported # {}
    /\ job' = [job EXCEPT ![r].todo = imported]
    /\ Goto(r, "reconcile")
    /\ UNCHANGED <<files, world, chain, bounds>>

\* A message with any acknowledgement is skipped.
Reconcile(r) ==
    /\ pc[r] = "reconcile"
    /\ \/ job[r].todo = {} /\ Done(r)
       \/ \E m \in job[r].todo :
            \/ /\ acks[m] # "none"
               /\ job' = [job EXCEPT ![r].todo = @ \ {m}]
               /\ UNCHANGED pc
            \/ /\ acks[m] = "none"
               /\ job' = [job EXCEPT ![r].msg = m]
               /\ Goto(r, "rebuild")
    /\ UNCHANGED <<files, world, chain, bounds>>

RebuildAck(r) ==
    /\ pc[r] = "rebuild"
    /\ acks' = [acks EXCEPT ![Msg(r)] = "ACKNOWLEDGED"]
    /\ job' = [job EXCEPT ![r].todo = @ \ {Msg(r)}]
    /\ Goto(r, "reconcile")
    /\ UNCHANGED <<queued, sigs, imported, quarantine, dlq, world, chain, bounds>>
-----------------------------------------------------------------------------
(* dead_letter, and the world *)

DeadLetterByHand ==
    /\ MayDeadLetter
    /\ \E m \in queued \ dlq : dlq' = dlq \cup {m}
    /\ UNCHANGED <<queued, sigs, imported, acks, quarantine, world, pc, job, chain, bounds>>

Crash(p) ==
    /\ pc[p] # "idle"
    /\ crashes < MaxCrashes
    /\ crashes' = crashes + 1
    /\ Done(p)
    /\ UNCHANGED <<files, world, chain, sends>>

Expire ==
    /\ \E m \in MayExpire \ expired : expired' = expired \cup {m}
    /\ UNCHANGED <<files, revoked, pc, job, chain, bounds>>

Revoke ==
    /\ MayRevoke /\ ~revoked
    /\ revoked' = TRUE
    /\ UNCHANGED <<files, expired, pc, job, chain, bounds>>
-----------------------------------------------------------------------------
SenderStep(s) == WriteMessage(s) \/ WriteSignature(s)
ReceiverStep(r) ==
    \/ ReadSignature(r) \/ DupCheck(r) \/ ChainCheck(r) \/ TtlCheck(r)
    \/ Quarantine(r) \/ DeadLetter(r) \/ Import(r) \/ WriteAck(r)
    \/ Reconcile(r) \/ RebuildAck(r)

Next ==
    \/ \E s \in Senders : StartQueue(s) \/ SenderStep(s)
    \/ \E r \in Receivers : StartReceive(r) \/ StartReconcile(r) \/ ReceiverStep(r)
    \/ \E p \in Procs : Crash(p)
    \/ Expire \/ Revoke \/ DeadLetterByHand

Spec == Init /\ [][Next]_vars

\* A call that began goes on; queued messages are delivered again and again,
\* and reconciliation is called again and again.
FairSpec ==
    /\ Spec
    /\ \A s \in Senders : WF_vars(SenderStep(s))
    /\ \A r \in Receivers :
         /\ WF_vars(ReceiverStep(r)) /\ SF_vars(StartReconcile(r))
         /\ \A m \in Messages : SF_vars(StartReceive(r) /\ job'[r].msg = m)
-----------------------------------------------------------------------------
(* Properties *)

IsSig(s, m) == s.msg = m /\ s.seq \in 1..MaxSends

\* Every variable has its type.
TypeOK ==
    /\ queued \in SUBSET Messages /\ imported \in SUBSET queued
    /\ \A m \in Messages : sigs[m] = NoSig \/ IsSig(sigs[m], m)
    /\ acks \in [Messages -> AckStatus]
    /\ quarantine \in SUBSET queued /\ dlq \in SUBSET queued
    /\ expired \in SUBSET MayExpire /\ revoked \in BOOLEAN
    /\ pc \in [Procs -> Steps]
    /\ \A p \in Procs : /\ job[p].ack \in AckStatus
                        /\ job[p].todo \in SUBSET imported
                        /\ pc[p] # "idle" => Msg(p) \in Messages \/ pc[p] = "reconcile"
    /\ sends \in 0..MaxSends /\ crashes \in 0..MaxCrashes

\* Delivered twice, sent twice or sent under another id: what has one idempotency
\* key and payload is imported once.
NoDuplicateImport == \A m, n \in imported : Key[m] = Key[n] => m = n

\* The imports are one chain: of two signatures with the same number only one
\* was ever accepted, although senders race for the next number and queue their
\* messages again.
OneChain == \A s, t \in chain : s.seq = t.seq => s = t

\* An ACKNOWLEDGED receipt is never overwritten by a repeated delivery, until the key
\* is revoked: then the next delivery of an imported message is quarantined, and its
\* receipt says so.
AckKept ==
    [][\A m \in Messages :
         acks[m] = "ACKNOWLEDGED" => acks'[m] = "ACKNOWLEDGED" \/ revoked]_vars

\* A message that was dead-lettered as expired is not imported afterwards, by a
\* later delivery or after it was queued again.
ExpiredStaysDead == [][\A m \in imported' \ imported : acks[m] # "EXPIRED"]_vars

\* A receiver that died between the import and its acknowledgement: the missing
\* acknowledgement is rebuilt, as long as the key is not revoked.
MissingAckRebuilt ==
    \A m \in Messages :
        (m \in imported /\ acks[m] = "none") ~> acks[m] = "ACKNOWLEDGED" \/ revoked

\* At-least-once delivery, as the transport's document promises it: a signed message
\* that is delivered again and again is imported (itself or its duplicate), or ends up
\* in the dead-letter queue.  The code does not keep it: a message signed after one
\* that is never imported names a predecessor the receiver will never have.
AtLeastOnce ==
    \A m \in Messages :
        sigs[m] # NoSig ~> \/ m \in dlq
                           \/ \E n \in imported : Key[n] = Key[m]

\* What was imported is one chain of different messages.
ImportsSound ==
    /\ TypeOK
    /\ OneChain
    /\ NoDuplicateImport

\* Acknowledgements are rebuilt when they are missing, and a repeated delivery does
\* not take them back.
AcksRestored ==
    /\ AckKept
    /\ MissingAckRebuilt
=============================================================================
