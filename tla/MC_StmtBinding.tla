--------------------------- MODULE MC_StmtBinding ---------------------------
(***************************************************************************)
(* Binds scalar, vector and empty-optional arguments across chained Bind   *)
(* calls and resets of a four-placeholder statement, and collects rows    *)
(* with NULL columns and fewer columns than targets.                       *)
(***************************************************************************)
EXTENDS StmtBinding

CONSTANTS v1, v2

MC_BindCalls ==
    { <<Scalar(v1)>>,
      <<Scalar(v1), Vector(<<v2, NullValue>>)>>,
      <<Vector(<<v1, v2>>), Scalar(v2)>> }

MC_Rows == { <<v1, NullValue, v2>>, <<NullValue, v1>> }

(***************************************************************************)
(* The values bound since the last reset sit at placeholders 1, 2, ... in  *)
(* the order the Bind calls and their vector arguments list them, as far  *)
(* as the statement has placeholders, and the bind index is one past the  *)
(* number of values bound.                                                 *)
(***************************************************************************)
BindsInPlaceholderOrder ==
    /\ bindIndex = Len(args) + 1
    /\ \A k \in 1..Len(args) : k <= MaxParams => slots[k] = args[k]

(***************************************************************************)
(* The k-th target collected since the last step holds column k-1 of the  *)
(* row when that column has a value, and keeps its default otherwise (a   *)
(* NULL column or a column past the end).                                  *)
(***************************************************************************)
CollectsInColumnOrder ==
    \A k \in 1..Len(collected) :
        collected[k] = IF k <= Len(row) /\ row[k] # NullValue THEN row[k] ELSE Default
=============================================================================
