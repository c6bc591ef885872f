---------------------------- MODULE StmtBinding ----------------------------
(***************************************************************************)
(* The parameter binding of PocketDb::Stmt and the column collection of    *)
(* PocketDb::Cursor (src/src/pocketdb/stmt.h).  Stmt::Bind binds its       *)
(* arguments, in order, at m_currentBindIndex, which every bound value     *)
(* advances; a vector argument binds each element (Binder recursion).      *)
(* Cursor::CollectAll reads columns at m_currentCollectIndex, which every  *)
(* target advances, and assigns a target only when the column has a value. *)
(*                                                                         *)
(* StmtWrapper and the bodies of Reset, Step and the TryBind/TryGet        *)
(* helpers live in stmt.cpp, which is not part of the source tree: Reset   *)
(* and Step are modelled from spec.md 5 (reuse by reset + clear_bindings;  *)
(* a step fetches the next row and restarts the collection at column 0).   *)
(***************************************************************************)
EXTENDS Integers, Sequences, SequencesExt

CONSTANTS
    MaxParams,   \* the number of placeholders of the prepared statement
    MaxBound,    \* model bound: the most values bound between two resets
    BindCalls,   \* argument lists Bind is called with
    Rows,        \* the rows a step may return (sequences of column values)
    MaxTargets,  \* the most targets a CollectAll call fills
    NullValue,   \* SQL NULL: an empty optional when bound, no value when read
    Default      \* the value a target holds before it is collected into

Unbound == "unbound"

\* An argument of Bind: a scalar or a vector of scalars.
Scalar(v) == [vec |-> FALSE, v |-> v]
Vector(xs) == [vec |-> TRUE, xs |-> xs]

\* The values an argument list binds, in order.
Flat(args) == FlattenSeq([k \in DOMAIN args |->
                  IF args[k].vec THEN args[k].xs ELSE <<args[k].v>>])

VARIABLES
    slots,          \* the value bound at each placeholder 1..MaxParams
    bindIndex,      \* Stmt::m_currentBindIndex
    row,            \* the row the cursor is on
    collectIndex,   \* Cursor::m_currentCollectIndex
    collected,      \* the targets CollectAll filled since the step
    args            \* history: the values bound since the last reset

vars == <<slots, bindIndex, row, collectIndex, collected, args>>

\* TryBindStatement*(i++, t): sqlite3_bind at index i (SQLITE_RANGE, and no
\* change, past the last placeholder); the index advances either way.
BindScalar(st, v) ==
    [slots |-> IF st.i <= MaxParams THEN [st.slots EXCEPT ![st.i] = v] ELSE st.slots,
     i     |-> st.i + 1]

\* Mutant: a vector argument advancing the caller's index by one only.
BinderBind_vector_once(st, a) ==
    IF a.vec
    THEN [slots |-> FoldLeft(BindScalar, st, a.xs).slots, i |-> st.i + 1]
    ELSE BindScalar(st, a.v)

\* Binder<T>::bind(stmt, i, t): a scalar binds once; a vector recurses on
\* each element with the same index reference.
BinderBind(st, a) ==
    IF a.vec THEN FoldLeft(BindScalar, st, a.xs) ELSE BindScalar(st, a.v)

\* Stmt::Bind(binds...): the fold over the arguments from m_currentBindIndex.
\* Nothing stops a call from running past the last placeholder: those
\* values are dropped (the SQLITE_RANGE result is not looked at).
Bind(call) ==
    /\ Len(args) + Len(Flat(call)) <= MaxBound
    /\ LET st == FoldLeft(BinderBind, [slots |-> slots, i |-> bindIndex], call)
       IN  /\ slots' = st.slots
           /\ bindIndex' = st.i
    /\ args' = args \o Flat(call)
    /\ UNCHANGED <<row, collectIndex, collected>>

\* Reset + ClearBindings + ResetCurrentBindIndex before the statement is
\* reused for the next query (spec.md 5).
Reset ==
    /\ slots' = [k \in 1..MaxParams |-> Unbound]
    /\ bindIndex' = 1
    /\ args' = << >>
    /\ UNCHANGED <<row, collectIndex, collected>>

\* Cursor::Step: the next row; ResetCurrentCollectIndex.
Step(r) ==
    /\ row' = r
    /\ collectIndex' = 0
    /\ collected' = << >>
    /\ UNCHANGED <<slots, bindIndex, args>>

\* Mutant: the column index advanced only when the column had a value.
CollectOne_skip_null(st, t) ==
    LET ok == st.i < Len(row) /\ row[st.i + 1] # NullValue
    IN  [i |-> IF ok THEN st.i + 1 ELSE st.i,
         out |-> Append(st.out, IF ok THEN row[st.i + 1] ELSE t)]

\* Collector<T>::collect(stmt, i, t): TryGetColumn*(i++), t = val if ok.
CollectOne(st, t) ==
    LET ok == st.i < Len(row) /\ row[st.i + 1] # NullValue
    IN  [i |-> st.i + 1, out |-> Append(st.out, IF ok THEN row[st.i + 1] ELSE t)]

\* Cursor::CollectAll(collects...) on n targets holding Default.
CollectAll(n) ==
    /\ Len(collected) + n <= MaxTargets
    /\ LET st == FoldLeft(CollectOne, [i |-> collectIndex, out |-> collected],
                          [k \in 1..n |-> Default])
       IN  /\ collectIndex' = st.i
           /\ collected' = st.out
    /\ UNCHANGED <<slots, bindIndex, row, args>>

Init ==
    /\ slots = [k \in 1..MaxParams |-> Unbound]
    /\ bindIndex = 1
    /\ row = << >>
    /\ collectIndex = 0
    /\ collected = << >>
    /\ args = << >>

Next ==
    \/ \E call \in BindCalls : Bind(call)
    \/ Reset
    \/ \E r \in Rows : Step(r)
    \/ \E n \in 1..MaxTargets : CollectAll(n)

Spec == Init /\ [][Next]_vars
=============================================================================
