------------------------------- MODULE RowCopy -------------------------------
(* What a process that caches a few settings rows promises, in the abstract:   *)
(* rows are written one at a time, the process holds a copy whose every row is *)
(* a value that row has had, it may forget the copy (a restart), and a copy    *)
(* that stays different from the rows is replaced by what they hold.           *)
(*                                                                            *)
(* The copy as a whole need never have been in the database: it is taken row   *)
(* by row.  It may also go back, from a newer state to an older one.           *)
CONSTANTS
    Row,            \* the rows copied
    Value,          \* what a row can hold
    Unset           \* no copy yet

VARIABLES
    source,         \* the rows
    copy,           \* the process's copy of them, or Unset
    had             \* for each row, the values it has held

vars == <<source, copy, had>>

Init ==
    /\ source \in [Row -> Value]
    /\ copy = Unset
    /\ had = [r \in Row |-> {source[r]}]

Write(r, v) ==
    /\ source' = [source EXCEPT ![r] = v]
    /\ had' = [had EXCEPT ![r] = @ \cup {v}]
    /\ UNCHANGED copy

Take ==
    /\ copy' \in [Row -> Value]
    /\ \A r \in Row : copy'[r] \in had[r]
    /\ UNCHANGED <<source, had>>

Forget ==
    /\ copy' = Unset
    /\ UNCHANGED <<source, had>>

(* The Take that matters: the copy becomes what the rows hold.                 *)
CatchUp ==
    /\ copy # source
    /\ copy' = source
    /\ UNCHANGED <<source, had>>

Next ==
    \/ \E r \in Row, v \in Value : Write(r, v)
    \/ Take
    \/ Forget

Spec == Init /\ [][Next]_vars /\ WF_vars(CatchUp)
=============================================================================
