----------------------------- MODULE MCVMPools -----------------------------
(* Tables of eight entries: pages of 32 bytes, directories of 256.  Both    *)
(* pools and FAULT_ADDR have a page table of their own, as in kernel.C.     *)
EXTENDS VMPools, TLC

CONSTANTS code_pool, heap_pool, f1, f2, f3, f4, f5, f6, f7, absent

Order == <<code_pool, heap_pool>>
BaseOf == code_pool :> 512 @@ heap_pool :> 1024
SizeOf == code_pool :> 128 @@ heap_pool :> 64
BudgetOf == code_pool :> 96 @@ heap_pool :> 32
ASSUME ClientFits
FaultAddr == {256}
=============================================================================
