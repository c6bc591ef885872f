---------------------------- MODULE MC_Classify ----------------------------
(***************************************************************************)
(* Checks both classifications of TransactionSerializer against the tables *)
(* of spec.md 4.2: every OP_RETURN tag (and an unknown one) in scripts     *)
(* that do and do not start with OP_RETURN, and every table name with      *)
(* every combination of flag values a legacy payload may carry.            *)
(***************************************************************************)
EXTENDS TransactionSerializer, FiniteSets

CONSTANTS Tags, Tables, FlagValues

Ref == INSTANCE MaterializerSpec

\* The first outputs a transaction may carry, as token sequences.
Scripts ==
    {<< >>, <<"OP_RETURN">>}
    \cup {<<op, tag>> : op \in {"OP_RETURN", "OP_DUP"}, tag \in Tags}
    \cup {<<"OP_RETURN", tag, "payload">> : tag \in Tags}

\* A JSON payload of a legacy record.
Payloads ==
    [form : {"json"}, unblocking : FlagValues, unsubscribe : FlagValues,
     private : FlagValues]

\* What one call classifies: a chain script or a legacy record.
Probes ==
    {[script |-> s] : s \in Scripts}
    \cup {[table |-> t, payload |-> p] : t \in Tables, p \in Payloads}

VARIABLE probe

Init == probe \in Probes

\* A caller classifies another transaction or record.
Classify == probe' \in Probes

Spec == Init /\ [][Classify]_probe

(***************************************************************************)
(* Both classifications agree with the tables of spec.md 4.2: ParseType of *)
(* a chain transaction with TagKind, and ParseType of a legacy record,     *)
(* including the priority of "unsubscribe" over "private" and a flag that  *)
(* is present but not a JSON bool, with the legacy table.                  *)
(***************************************************************************)
ClassificationMatchesSpec ==
    IF "script" \in DOMAIN probe
    THEN ParseTypeOfTx(probe.script) = Ref!SpecClassifyChain(probe.script)
    ELSE ParseType(probe.table, probe.payload)
           = Ref!SpecClassifyLegacy(probe.table, probe.payload)
=============================================================================
