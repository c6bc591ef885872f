-------------------------- MODULE DeserializeBlock --------------------------
(***************************************************************************)
(* TransactionSerializer::DeserializeBlock as a state machine: one call    *)
(* reads a block payload and walks its keys in order, building one         *)
(* transaction per entry; a get_str on a malformed entry throws out of the *)
(* call.  The node makes one call per block, so after a call returns or    *)
(* throws the next one may start.                                          *)
(***************************************************************************)
EXTENDS TransactionSerializer

CONSTANT Blobs      \* the block payloads a call may be given

VARIABLES
    blob,     \* the sequence of entries of the current block, in key order
    pos,      \* the index of the next key of the loop
    out,      \* pocketTxn, the vector built so far
    status    \* "idle", "running", "returned" or "threw"

vars == <<blob, pos, out, status>>

Init ==
    /\ blob = << >>
    /\ pos = 1
    /\ out = << >>
    /\ status = "idle"

\* A call DeserializeBlock(src) starts: pocketData.read(src), getKeys().
Call(b) ==
    /\ status # "running"
    /\ blob' = Keys(b)
    /\ pos' = 1
    /\ out' = << >>
    /\ status' = "running"

\* One iteration of the loop over the keys.
Iterate ==
    /\ status = "running"
    /\ pos <= Len(blob)
    /\ LET e == blob[pos] IN
       IF Throws(e)
       THEN /\ status' = "threw"
            /\ UNCHANGED <<blob, pos, out>>
       ELSE /\ out' = Collect(out, BuildInstance(e))
            /\ pos' = pos + 1
            /\ UNCHANGED <<blob, status>>

\* The loop ends and the vector is returned.
Return ==
    /\ status = "running"
    /\ pos > Len(blob)
    /\ status' = "returned"
    /\ UNCHANGED <<blob, pos, out>>

Next == (\E b \in Blobs : Call(b)) \/ Iterate \/ Return

Spec == Init /\ [][Next]_vars
=============================================================================
