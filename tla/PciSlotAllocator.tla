--------------------------- MODULE PciSlotAllocator ---------------------------
(***************************************************************************)
(* pciSlotAllocator (src/config.go): the slot allocator of one PCI/PCIe    *)
(* root bus, driven by VMBuilder while it composes -device arguments.      *)
(* Alloc scans from nextSlot past used slots, panics once the scan passes  *)
(* slot 0x1f, takes the slot and returns it formatted as "0x%x"; Reserve   *)
(* marks a slot used. The builder calls it from one goroutine.             *)
(***************************************************************************)
EXTENDS Integers, Sequences, FiniteSets

CONSTANTS
    ReserveSlots,   \* slots a caller may Reserve
    MaxAllocs       \* bound on the number of Alloc calls

ASSUME ReserveSlots \subseteq 0..31 /\ MaxAllocs \in Nat

VARIABLES
    isQ35,      \* the flag newPCISlotAllocator was given
    nextSlot,   \* a.nextSlot
    used,       \* {s : a.used[s]}
    returned,   \* the strings Alloc has returned, in order
    panicked    \* Alloc has panicked with "ran out of PCI slots"

vars == <<isQ35, nextSlot, used, returned, panicked>>

-----------------------------------------------------------------------------
(* fmt.Sprintf("0x%x", slot): lower-case hex digits, no leading zeros.     *)

HexDigit == <<"0", "1", "2", "3", "4", "5", "6", "7",
              "8", "9", "a", "b", "c", "d", "e", "f">>

RECURSIVE HexDigits(_)
HexDigits(n) ==
    IF n < 16 THEN <<HexDigit[n + 1]>>
    ELSE HexDigits(n \div 16) \o <<HexDigit[(n % 16) + 1]>>

FormatSlot(n) == <<"0", "x">> \o HexDigits(n)

\* Reference: the value of a "0x..." string, digit by digit.
DigitValue(d) == CHOOSE v \in 0..15 : HexDigit[v + 1] = d

RECURSIVE HexValue(_)
HexValue(ds) ==
    IF ds = <<>> THEN 0
    ELSE HexValue(SubSeq(ds, 1, Len(ds) - 1)) * 16 + DigitValue(ds[Len(ds)])

ParseSlot(s) == HexValue(SubSeq(s, 3, Len(s)))

-----------------------------------------------------------------------------
(* The allocator.                                                          *)

\* The slots newPCISlotAllocator reserves: 0 for the root complex, and 1
\* and 2 for Q35's pcie-root-ports.
InitialUsed(q35) == IF q35 THEN {0, 1, 2} ELSE {0}

\* The scan `for a.used[a.nextSlot] { a.nextSlot++; if > 0x1f panic }`:
\* the slot it stops at, or -1 for the panic.
RECURSIVE Scan(_, _)
Scan(n, u) ==
    IF n \notin u THEN n
    ELSE IF n + 1 > 31 THEN -1
    ELSE Scan(n + 1, u)

\* Mutant of Init: the struct literal leaves nextSlot at its zero value.
InitZeroNext ==
    /\ isQ35 \in BOOLEAN
    /\ nextSlot = 0
    /\ used = InitialUsed(isQ35)
    /\ returned = <<>>
    /\ panicked = FALSE

\* newPCISlotAllocator(isQ35).
Init ==
    /\ isQ35 \in BOOLEAN
    /\ nextSlot = 3
    /\ used = InitialUsed(isQ35)
    /\ returned = <<>>
    /\ panicked = FALSE

\* Alloc: scan, take the slot, step past it, return it formatted.
Alloc ==
    LET slot == Scan(nextSlot, used) IN
    /\ ~panicked
    /\ Len(returned) < MaxAllocs
    /\ IF slot = -1
          THEN /\ panicked' = TRUE
               /\ UNCHANGED <<nextSlot, used, returned>>
          ELSE /\ used' = used \cup {slot}
               /\ nextSlot' = slot + 1
               /\ returned' = Append(returned, FormatSlot(slot))
               /\ UNCHANGED panicked
    /\ UNCHANGED isQ35

\* Reserve(slot): idempotent.
Reserve(slot) ==
    /\ ~panicked
    /\ slot \notin used
    /\ used' = used \cup {slot}
    /\ UNCHANGED <<isQ35, nextSlot, returned, panicked>>

Next == Alloc \/ \E s \in ReserveSlots : Reserve(s)

Spec == Init /\ [][Next]_vars

-----------------------------------------------------------------------------
(* Properties.                                                             *)

TypeOK ==
    /\ isQ35 \in BOOLEAN
    \* the scan starts at slot 3 and moves one slot per Alloc or used slot
    /\ nextSlot \in 3..(3 + MaxAllocs + Cardinality(ReserveSlots))
    /\ used \subseteq 0..(2 + MaxAllocs + Cardinality(ReserveSlots))
    /\ panicked \in BOOLEAN
    /\ Len(returned) <= MaxAllocs

\* Every address is a device number QEMU accepts on the root bus, 0x0 ..
\* 0x1f, and on Q35 it avoids the three reserved slots (spec 8.1: "in
\* [3, 31]"); exhaustion must panic instead.
AllocInRange ==
    \A i \in 1..Len(returned) : ParseSlot(returned[i]) \in 3..31

=============================================================================
