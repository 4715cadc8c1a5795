---------------------------- MODULE AddressSpace ----------------------------
(* What a program may expect of demand-paged memory: every page holds what  *)
(* was last written to it, and zero before.  No step of the page table may  *)
(* show.                                                                    *)
CONSTANTS Pages, Values, Zero
VARIABLE content

Init == content = [p \in Pages |-> Zero]

(* A write to page p shows in page p only. *)
Store(p) ==
    /\ content'[p] \in Values
    /\ \A q \in Pages \ {p} : content'[q] = content[q]

Next == \E p \in Pages : Store(p)

Spec == Init /\ [][Next]_content
=============================================================================
