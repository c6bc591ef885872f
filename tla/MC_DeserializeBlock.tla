------------------------ MODULE MC_DeserializeBlock ------------------------
(***************************************************************************)
(* Runs DeserializeBlock on every block of at most MaxEntries entries      *)
(* drawn from a small set, and compares what a call returns with what     *)
(* spec.md 4.2 and 7 say deserialize_block delivers.                      *)
(***************************************************************************)
EXTENDS DeserializeBlock, SequencesExt

CONSTANTS Entries, MaxEntries

Ref == INSTANCE MaterializerSpec

Json(ub, us, pr) ==
    [form |-> "json", unblocking |-> ub, unsubscribe |-> us, private |-> pr]

\* Well-formed entries: a supported record, a Subscribes record with both
\* flags set, and a record of a table the node does not ingest.
WellFormedEntries ==
    { [t |-> "Scores",     d |-> Json(JNone, JNone, JNone)],
      [t |-> "Subscribes", d |-> Json(JNone, JTrue, JTrue)],
      [t |-> "Videos",     d |-> Json(JNone, JNone, JNone)] }

\* Plus an entry whose envelope has no string "t".
WithMalformedEnvelope ==
    WellFormedEntries \cup {[t |-> JNone, d |-> Json(JNone, JNone, JNone)]}

\* Plus that entry and one whose "d" is not valid base64 JSON.
WithFaultyEntries ==
    WithMalformedEnvelope \cup {[t |-> "Scores", d |-> [EmptyObject EXCEPT !.form = "garbage"]]}

MC_Blobs ==
    {[parses |-> TRUE, entries |-> s] : s \in BoundedSeq(Entries, MaxEntries)}
    \cup {[parses |-> FALSE, entries |-> << >>]}

(***************************************************************************)
(* A call of DeserializeBlock that ends returns, and returns one model per *)
(* entry of the block, in key order, for exactly the entries that decode   *)
(* and classify to a supported kind (spec.md 4.2; 7: DecodeError and       *)
(* UnknownKind are per-transaction and non-fatal).                         *)
(***************************************************************************)
BlockDeliveredAsSpecified ==
    status \in {"returned", "threw"} =>
        /\ status = "returned"
        /\ out = Ref!SpecDeliver(blob)
=============================================================================
