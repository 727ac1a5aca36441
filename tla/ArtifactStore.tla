---------------------------- MODULE ArtifactStore ----------------------------
(***************************************************************************)
(* What a content-addressed store can promise its callers (the abstract    *)
(* class srl.cas.store.ArtifactStore): the bytes under a digest are the    *)
(* bytes that hash to it, and they never change.  Every put that returns   *)
(* finds its bytes there.  One that published them itself may count on     *)
(* them for ever; one that found them already there may not: a failure     *)
(* loses bytes that no put which published them has returned for.          *)
(***************************************************************************)
CONSTANTS
    Blobs,    \* byte strings
    Digests,  \* content addresses
    Digest,   \* Digest[b] is the address of b
    NoBytes   \* what an absent digest holds

VARIABLES
    content,  \* content[d]: the bytes under d, or NoBytes
    returned, \* digests a put has returned for
    kept      \* digests a put that published them has returned for

storeVars == <<content, returned, kept>>

Init ==
    /\ content = [d \in Digests |-> NoBytes]
    /\ returned = {}
    /\ kept = {}

\* Bytes appear, under their digest.
Publish ==
    /\ \E b \in Blobs :
         /\ content[Digest[b]] = NoBytes
         /\ content' = [content EXCEPT ![Digest[b]] = b]
    /\ UNCHANGED <<returned, kept>>

\* A put that published returns: from now on the bytes stay.
Acknowledge ==
    /\ \E d \in Digests : /\ content[d] # NoBytes
                         /\ returned' = returned \cup {d}
                         /\ kept' = kept \cup {d}
    /\ UNCHANGED content

\* A put that found its bytes there returns.
AnswerDuplicate ==
    /\ \E d \in Digests : content[d] # NoBytes /\ returned' = returned \cup {d}
    /\ UNCHANGED <<content, kept>>

\* A failure loses some of the bytes that are not to be kept.
Lose ==
    /\ \E lost \in SUBSET (Digests \ kept) :
         content' = [d \in Digests |-> IF d \in lost THEN NoBytes ELSE content[d]]
    /\ UNCHANGED <<returned, kept>>

Next == Publish \/ Acknowledge \/ AnswerDuplicate \/ Lose
Spec == Init /\ [][Next]_storeVars
=============================================================================
