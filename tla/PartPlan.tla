------------------------------ MODULE PartPlan ------------------------------
(***************************************************************************)
(* How a file is cut into parts: handleCreateUpload counts them in int64   *)
(* and keeps the count in an int32, the page web/index.html slices the     *)
(* file by that count. The widths are parameters; the int32 gives way      *)
(* first.                                                                  *)
(***************************************************************************)
EXTENDS Integers

CONSTANTS
    PartSize,  \* bytes of a part, but for the last one
    MaxInt64,  \* the largest int64
    MaxInt32   \* the largest int32

ASSUME PlanAssumption ==
    /\ PartSize \in Nat \ {0}
    /\ MaxInt32 \in Nat \ {0}
    /\ MaxInt64 \in Nat
    \* Parts of 8 MiB outnumber an int32 long before their bytes outgrow an int64.
    /\ PartSize * (MaxInt32 + 1) <= MaxInt64

\* Two's complement: arithmetic wraps around beyond max.
Wrap(x, max) == ((x + max + 1) % (2 * (max + 1))) - (max + 1)

\* Go's integer division truncates toward zero.
Quotient(x, y) == IF x >= 0 THEN x \div y ELSE -((-x) \div y)

\* Mutant: a file that fills its last part gets one more.
PartCountOneMore(size) ==
    LET count == Wrap(Quotient(Wrap(size + PartSize, MaxInt64), PartSize), MaxInt32)
    IN  IF count = 0 THEN 1 ELSE count

PartCountOf(size) ==
    LET count == Wrap(Quotient(Wrap(size + PartSize - 1, MaxInt64), PartSize), MaxInt32)
    IN  IF count = 0 THEN 1 ELSE count

\* file.slice(start, end) of part n: the bytes from start up to end, end excluded.
Start(n) == (n - 1) * PartSize
End(n, size) == IF Start(n) + PartSize < size THEN Start(n) + PartSize ELSE size

\* The slices follow one another, none is empty, and they end where the file does.
IsPlan(count, size) ==
    /\ count >= 1
    /\ \A n \in 1 .. count : Start(n) < End(n, size)
    /\ \A n \in 1 .. count - 1 : End(n, size) = Start(n + 1)
    /\ End(count, size) = size

\* Sizes for which the count does not overflow; nor does the sum, for them.
Plannable(size) == size <= MaxInt32 * PartSize

\* Among the sizes that handleCreateUpload accepts, those whose parts, as the
\* page cuts them, make up the file are the plannable ones. No size beyond is
\* saved by the correction of a zero count, by truncation to a small count or
\* by a sum that wraps twice.
PlansAreRight ==
    \A size \in 1 .. MaxInt64 :
        IsPlan(PartCountOf(size), size) <=> Plannable(size)

=============================================================================
