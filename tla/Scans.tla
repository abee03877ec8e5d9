-------------------------------- MODULE Scans --------------------------------
(***************************************************************************)
(* The scanners over a MemorySession: first_scan, next_scan and            *)
(* refine_candidates (include/gtlibcpp/candidate_scan.hpp) and scan_aob    *)
(* (include/gtlibcpp/aob_scan.hpp).  Each chunk and each candidate is a    *)
(* read of its own, and the target writes between them.                    *)
(*                                                                         *)
(* A value is its cells read in little-endian order.  Floating point types *)
(* compare with a tolerance, integral ones with tolerance 0.               *)
(***************************************************************************)
EXTENDS MemorySession, SequencesExt

CONSTANTS
    Chunk,       \* 64 KiB
    Base,        \* a cell is a digit in this base
    MaxPattern,  \* the 4096 bytes of a signature
    MaxLength,   \* the 16 MiB scan_aob accepts
    FirstScans, NextScans, AobScans  \* the scans the client makes: their args

ASSUME ScanAssumption ==
    /\ Chunk \in Width..MaxSize /\ Base \in Nat /\ \A b \in Byte : b < Base
    /\ MaxPattern \in Nat /\ MaxLength \in Nat
    /\ \A s \in FirstScans : {s.start, s.range, s.align, s.max} \subseteq Nat
    /\ \A s \in NextScans : s.max \in Nat

\* The members of a finite set of numbers, the least first.
Ascending(S) == [k \in 1..Cardinality(S) |-> CHOOSE i \in S : Cardinality({j \in S : j <= i}) = k]

ValueOf(bytes) == FoldRight(LAMBDA b, high : b + Base * high, bytes, 0)

Near(x, y, tolerance) == x - y <= tolerance /\ y - x <= tolerance

ChunkLength(length, at, size) == IF length - at < size THEN length - at ELSE size

-----------------------------------------------------------------------------
(* first_scan *)

\* args: start, range, type, target, upper, align, max, tolerance.
FirstFault(s) ==
    IF \/ s.start = 0 \/ s.range = 0 \/ s.max = 0
       \/ \A k \in 0..s.align : s.align # 2^k
    THEN "invalid_size"
    ELSE IF s.start > Top - s.range THEN "invalid_address" ELSE "none"

Matches(s, v) ==
    CASE s.type = "exact" -> Near(v, s.target, s.tolerance)
      [] s.type = "range" -> s.target <= v /\ v <= s.upper
      [] s.type = "unknown_initial" -> TRUE

FirstScan(s) == Begin(NewCall("first_scan", s, 0, FirstFault(s)))

FirstOver ==
    \/ call.at >= call.args.range
    \/ call.args.range - call.at < Width
    \/ Len(call.found) >= call.args.max

\* The matches in a chunk read at address a, in the order of their addresses.
InChunk(s, a, bytes) ==
    LET value(i) == ValueOf(SubSeq(bytes, i, i + Width - 1))
        hits     == {i \in 1..Len(bytes)-Width+1 :
                       (a + i - 1) % s.align = 0 /\ Matches(s, value(i))}
        order    == Ascending(hits)
    IN [k \in DOMAIN order |-> [address |-> a + order[k] - 1, value |-> value(order[k])]]

\* Mutant: the matches of the last chunk are all kept.
Cut_Over(found, max) == found

Cut(found, max) == IF Len(found) > max THEN SubSeq(found, 1, max) ELSE found

\* A chunk that cannot be read is passed over.
FirstChunk ==
    /\ Running("first_scan") /\ ~FirstOver
    /\ LET s    == call.args
           size == ChunkLength(s.range, call.at, Chunk)
           r    == Read(mem, s.start + call.at, size)
           hits == IF r.fail = "none" THEN InChunk(s, s.start + call.at, r.bytes) ELSE <<>>
       IN GoOn(Moved(call.at + size, Cut(call.found \o hits, s.max)))

-----------------------------------------------------------------------------
(* next_scan and refine_candidates *)

\* evaluate_comparison.
Holds(s, new, old) ==
    CASE s.comparison = "equal"        -> Near(new, s.target, s.tolerance)
      [] s.comparison = "changed"      -> ~Near(new, old, s.tolerance)
      [] s.comparison = "unchanged"    -> Near(new, old, s.tolerance)
      [] s.comparison = "increased"    -> new > old
      [] s.comparison = "decreased"    -> new < old
      [] s.comparison = "greater_than" -> new > s.target
      [] s.comparison = "less_than"    -> new < s.target
      [] s.comparison = "between"      -> s.target <= new /\ new <= s.upper

\* The snapshot is what the last scan found.
NextScan(s, upper) ==
    /\ call.kind \in {"first_scan", "next_scan"} /\ call.fail = "none"
    /\ Begin(NewCall("next_scan",
                     [comparison |-> s.comparison, target |-> s.target, upper |-> upper,
                      tolerance |-> s.tolerance, max |-> s.max, previous |-> call.found], 1,
                     IF Len(call.found) > s.max \/ s.max = 0 THEN "invalid_size" ELSE "none"))

\* refine_candidates: the same loop, with upper = target; its answer is the
\* addresses alone.
RefineCandidates(s) == NextScan(s, s.target)

\* Mutant: the end of the address space is counted one value early.
NextCandidate_Strict ==
    /\ Running("next_scan") /\ call.at <= Len(call.args.previous)
    /\ LET old == call.args.previous[call.at]
           r   == Read(mem, old.address, Width)
           new == ValueOf(r.bytes)
       IN GoOn(IF old.address >= Top - Width THEN FailWith("invalid_size")
               ELSE IF r.fail = "none" /\ Holds(call.args, new, old.value)
               THEN With([address |-> old.address, value |-> new])
               ELSE [call EXCEPT !.at = @ + 1])

\* A candidate that cannot be read any more is dropped.
NextCandidate ==
    /\ Running("next_scan") /\ call.at <= Len(call.args.previous)
    /\ LET old == call.args.previous[call.at]
           r   == Read(mem, old.address, Width)
           new == ValueOf(r.bytes)
       IN GoOn(IF old.address = 0 \/ old.address > Top - Width
               THEN FailWith("invalid_size")
               ELSE IF r.fail = "none" /\ Holds(call.args, new, old.value)
               THEN With([address |-> old.address, value |-> new])
               ELSE [call EXCEPT !.at = @ + 1])

-----------------------------------------------------------------------------
(* scan_aob *)

Wildcard == -1
Nibble   == [c \in {"0", "1", "2"} |-> CASE c = "0" -> 0 [] c = "1" -> 1 [] c = "2" -> 2]

\* parse_aob on a sequence of characters: the pattern, or <<>> when it is refused.
\* Items are separated by blanks; an item is one or two '?' or two digits.
ParseAob(text) ==
    LET bad == <<Unmapped - 1>>
        Items[i \in 1..Len(text)+1] ==
            IF i > Len(text) THEN <<>>
            ELSE IF text[i] = " " THEN Items[i + 1]
            ELSE LET wild == text[i] = "?"
                     wide == i < Len(text) /\ (wild => text[i + 1] = "?")
                     next == IF wide THEN i + 2 ELSE i + 1
                     item == IF wild THEN Wildcard
                             ELSE 16 * Nibble[text[i]] + Nibble[text[i + 1]]
                 IN IF \/ ~wild /\ ~(wide /\ {text[i], text[i+1]} \subseteq DOMAIN Nibble)
                       \/ next <= Len(text) /\ text[next] # " "
                       \/ Items[next] = bad
                    THEN bad ELSE <<item>> \o Items[next]
    IN IF Items[1] = bad \/ Len(Items[1]) > MaxPattern THEN <<>> ELSE Items[1]

\* parse_aob makes a sequence of bytes and wildcards.
ASSUME PatternAssumption ==
    \A s \in AobScans :
       {s.start, s.length, s.max} \subseteq Nat /\ ParseAob(s.signature) \in Seq(Int)

\* args: start, length, signature, max.
AobRefused(s) ==
    \/ s.length = 0 \/ s.length > MaxLength \/ s.max = 0
    \/ s.start > Top - s.length

AobScan(s) ==
    LET pattern == ParseAob(s.signature)
    IN Begin(NewCall("scan_aob", [start |-> s.start, length |-> s.length, max |-> s.max,
                                  pattern |-> pattern], 0,
                     IF pattern = <<>> THEN "invalid_type"
                     ELSE IF AobRefused(s) THEN "invalid_size" ELSE "none"))

PatternAt(pattern, bytes, i) ==
    \A k \in DOMAIN pattern : pattern[k] \in {Wildcard, bytes[i + k - 1]}

AobOver ==
    \/ Len(call.args.pattern) > call.args.length
    \/ call.at >= call.args.length
    \/ Len(call.found) >= call.args.max

\* Mutant: consecutive chunks do not overlap.
AobChunk_NoOverlap ==
    /\ Running("scan_aob") /\ ~AobOver
    /\ LET s     == call.args
           size  == ChunkLength(s.length, call.at, Chunk)
           r     == Read(mem, s.start + call.at, size)
           hits  == {i \in 1..Len(r.bytes)-Len(s.pattern)+1 : PatternAt(s.pattern, r.bytes, i)}
           order == Ascending(hits)
       IN GoOn(IF r.fail # "none" THEN FailWith(r.fail)
               ELSE Moved(IF size = s.length - call.at THEN s.length ELSE call.at + Chunk,
                          Cut(call.found \o [k \in DOMAIN order |->
                                [address |-> s.start + call.at + order[k] - 1]], s.max)))

\* Consecutive chunks overlap by all but one byte of the pattern; a chunk that
\* cannot be read ends the scan.
AobChunk ==
    /\ Running("scan_aob") /\ ~AobOver
    /\ LET s     == call.args
           size  == ChunkLength(s.length, call.at, Chunk + Len(s.pattern) - 1)
           r     == Read(mem, s.start + call.at, size)
           hits  == {i \in 1..Len(r.bytes)-Len(s.pattern)+1 : PatternAt(s.pattern, r.bytes, i)}
           order == Ascending(hits)
       IN GoOn(IF r.fail # "none" THEN FailWith(r.fail)
               ELSE Moved(IF size = s.length - call.at THEN s.length ELSE call.at + Chunk,
                          Cut(call.found \o [k \in DOMAIN order |->
                                [address |-> s.start + call.at + order[k] - 1]], s.max)))

-----------------------------------------------------------------------------

ScanStep == FirstChunk \/ NextCandidate \/ AobChunk

ScanOver ==
    \/ call.fail # "none"
    \/ call.kind = "first_scan" /\ FirstOver
    \/ call.kind = "next_scan" /\ call.at > Len(call.args.previous)
    \/ call.kind = "scan_aob" /\ AobOver
=============================================================================
