----------------------------- MODULE StoreIndex -----------------------------
(***************************************************************************)
(* BlockPool::GetStoreIndex (block_pool.h): the size class of a request,   *)
(* computed with shifts, against the table of block sizes StoreIndex of    *)
(* the same class.                                                         *)
(***************************************************************************)
EXTENDS Integers

BlockBase == 64            \* BLOCK_BASE_SIZE
BlockMax == BlockBase * 1024
InvalidStore == -1

\* The sizes of the six stores.
StoreSize == [i \in 0 .. 5 |-> IF i = 0 THEN BlockBase
                           ELSE IF i = 1 THEN BlockBase * 4
                           ELSE IF i = 2 THEN BlockBase * 16
                           ELSE IF i = 3 THEN BlockBase * 64
                           ELSE IF i = 4 THEN BlockBase * 256
                           ELSE BlockMax]

\* How often the loop shifts r by two bits before it is less than four.  The
\* largest r is 1023, so that the fifth test never fails.
Shifts(r) == IF r < 4 THEN 0
             ELSE IF r \div 4 < 4 THEN 1
             ELSE IF r \div 16 < 4 THEN 2
             ELSE IF r \div 64 < 4 THEN 3
             ELSE 4

GetStoreIndex(size) ==
    IF size = 0 \/ size > BlockMax THEN InvalidStore
    ELSE IF size <= BlockBase THEN 0
    ELSE 1 + Shifts((size - 1) \div BlockBase)

\* The stores whose blocks hold a request.
Fitting(size) == {i \in DOMAIN StoreSize : 0 < size /\ size <= StoreSize[i]}
=============================================================================
