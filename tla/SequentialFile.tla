--------------------------- MODULE SequentialFile ---------------------------
(* What file.H promises of one file that holds at most Limit bytes: a       *)
(* sequence of bytes that survives closing and opening, a current position, *)
(* and in result what the last call of Read copied to the caller.           *)
EXTENDS Naturals, Sequences

CONSTANTS Bytes, Limit
VARIABLES data, pos, result

vars == <<data, pos, result>>
Least(m, n) == IF m < n THEN m ELSE n

Init == data = <<>> /\ pos = 0 /\ result = <<>>

Read(n) ==
    LET k == Least(n, Len(data) - pos)
    IN  /\ result' = SubSeq(data, pos + 1, pos + k)
        /\ pos' = pos + k
        /\ UNCHANGED data

(* The part of buf that fits replaces what follows the position. *)
Write(buf) ==
    LET k == Least(Len(buf), Limit - pos)
    IN  /\ data' = SubSeq(data, 1, pos) \o SubSeq(buf, 1, k)
                     \o SubSeq(data, pos + k + 1, Len(data))
        /\ pos' = pos + k
        /\ UNCHANGED result

(* Opening a file again and Reset. *)
Rewind == pos' = 0 /\ UNCHANGED <<data, result>>

(* Deleting the file; a new one is empty. *)
Delete == data' = <<>> /\ pos' = 0 /\ UNCHANGED result

Next ==
    \/ \E n \in 1 .. Limit : Read(n)
    \/ \E n \in 1 .. Limit : \E buf \in [1 .. n -> Bytes] : Write(buf)
    \/ Rewind \/ Delete

Spec == Init /\ [][Next]_vars
=============================================================================
