---------------------------- MODULE TargetMemory ----------------------------
(***************************************************************************)
(* The target's memory as the library sees it: the request checks of       *)
(* include/gtlibcpp/backend.hpp, what a backend's read and write do, and   *)
(* the byte strings of memory_session.hpp.  Addresses wrap at 2^w, written *)
(* Top + 1 here; a cell that is not mapped fails every access to it.       *)
(*                                                                         *)
(* A result is [fail, bytes]: an error code and nothing, or "none" and the *)
(* bytes.                                                                  *)
(***************************************************************************)
EXTENDS Integers, Sequences

CONSTANTS
    Top,      \* the highest address
    MaxSize,  \* the 1 MiB cap of one request
    Byte      \* what a cell can hold, 0 among it

ASSUME MemoryAssumption ==
    /\ Top \in Nat /\ MaxSize \in 1..Top
    /\ Byte \subseteq Nat /\ 0 \in Byte

Addresses == 0..Top
Unmapped  == -1
Memories  == [Addresses -> Byte \cup {Unmapped}]

\* Unsigned addition of addresses.
Plus(a, b) == (a + b) % (Top + 1)

Failed(code) == [fail |-> code, bytes |-> <<>>]
Got(bytes)   == [fail |-> "none", bytes |-> bytes]

\* validate_read_request and validate_write_request: "none" when it may go on.
Validated(a, n) ==
    IF n = 0 \/ n > MaxSize THEN "invalid_size"
    ELSE IF Plus(a, n) < a THEN "invalid_address"
    ELSE "none"

Mapped(m, a, n) == \A i \in a..a+n-1 : m[i] # Unmapped

\* What the backend reads of an open target: every byte or a failure.
Fetched(m, a, n) ==
    IF Mapped(m, a, n) THEN Got([i \in 1..n |-> m[a + i - 1]]) ELSE Failed("read_failed")

\* read_bytes, and read<T> with its size.
Read(m, a, n) ==
    IF Validated(a, n) = "none" THEN Fetched(m, a, n) ELSE Failed(Validated(a, n))

\* The memory after bytes have been stored from a on.
Stored(m, a, bytes) ==
    [x \in Addresses |-> IF x - a + 1 \in DOMAIN bytes THEN bytes[x - a + 1] ELSE m[x]]

\* What the backend's write can come to: all of it, or a failure before which a
\* beginning may have been stored.
Put(m, a, bytes) ==
    IF Mapped(m, a, Len(bytes))
    THEN {[fail |-> "none", mem |-> Stored(m, a, bytes)]}
    ELSE {[fail |-> "write_failed", mem |-> Stored(m, a, SubSeq(bytes, 1, k))] :
            k \in {j \in 0..Len(bytes)-1 : Mapped(m, a, j)}}

\* write_bytes, and write<T> with the bytes of its value.
Written(m, a, bytes) ==
    IF Validated(a, Len(bytes)) = "none" THEN Put(m, a, bytes)
    ELSE {[fail |-> Validated(a, Len(bytes)), mem |-> m]}

-----------------------------------------------------------------------------
(* BoundedString *)

\* from_utf8: what comes before the first NUL within the capacity.
FromBytes(bytes, capacity, needsNul) ==
    LET usable == IF Len(bytes) < capacity THEN Len(bytes) ELSE capacity
        nuls   == {i \in 1..usable : bytes[i] = 0}
        ends   == {i \in 1..usable+1 : \A j \in nuls : i <= j}
    IN IF capacity = 0 \/ (needsNul /\ nuls = {}) THEN Failed("invalid_string")
       ELSE Got(SubSeq(bytes, 1, (CHOOSE i \in ends : \A j \in ends : j <= i) - 1))

\* to_bytes: room for the string and its terminator, or nothing.
ToBytes(text, capacity) ==
    IF capacity < Len(text) + 1 THEN Failed("invalid_string")
    ELSE Got(Append(text, 0))
=============================================================================
