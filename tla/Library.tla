------------------------------- MODULE Library -------------------------------
(***************************************************************************)
(* A client of the library against a target that runs on: one call of the  *)
(* session, or a first scan and its refinements, or a pattern scan.        *)
(* MemorySession keeps nothing between two calls but the backend and its   *)
(* identity, so nothing is lost by looking at the calls one at a time.     *)
(***************************************************************************)
EXTENDS Scans

vars == sessionVars

Over == SessionOver \/ ScanOver

Init == SessionInit

\* The target writes a cell of its own, maps or unmaps it, or exits.
TargetMoves ==
    /\ moves < MaxMoves
    /\ moves' = moves + 1
    /\ \/ \E a \in Addresses, b \in Byte \cup {Unmapped} :
             b # mem[a] /\ mem' = [mem EXCEPT ![a] = b]
       \/ mem' = [a \in Addresses |-> Unmapped]
    /\ past' = IF Over THEN past ELSE past \cup {mem'}
    /\ UNCHANGED call

Next ==
    \/ call.kind = "none" /\ \/ \E c \in Calls : BeginSession(c)
                             \/ \E s \in FirstScans : FirstScan(s)
                             \/ \E s \in AobScans : AobScan(s)
    \/ Over /\ \E s \in NextScans : NextScan(s, s.upper) \/ RefineCandidates(s)
    \/ SessionStep
    \/ ScanStep
    \/ call.kind # "none" /\ TargetMoves

Spec == Init /\ [][Next]_vars

-----------------------------------------------------------------------------

Cells(m, x, n) == [i \in 1..n |-> m[x + i - 1]]
Holding(m, x, bytes) == \A i \in DOMAIN bytes : m[x + i - 1] = bytes[i]

Found == {call.found[k].address : k \in DOMAIN call.found}

\* x is in the answer, or beyond the end of a full one.
Answered(x) ==
    \/ x \in Found
    \/ Len(call.found) = call.args.max /\ x > call.found[Len(call.found)].address

\* The memory and the call have their types; a scan reports no more than the
\* caller allowed (max_matches) and does not run past its range.
TypeOK ==
    /\ mem \in Memories /\ moves \in 0..MaxMoves
    /\ mem \in past \/ Over
    /\ call.kind \in {"first_scan", "next_scan", "scan_aob"} /\ call.fail = "none"
         => Len(call.found) <= call.args.max
    /\ call.kind = "first_scan" => call.at <= call.args.range
    /\ call.kind = "scan_aob" => call.at <= call.args.length
    /\ call.kind = "next_scan" => call.at <= Len(call.args.previous) + 1

-----------------------------------------------------------------------------
(* The scans: chunks and candidates are read one by one, so an answer is   *)
(* of no single moment; these say what it is nevertheless good for.        *)

\* The value at x as m has it, and whether the first scan s wants it.
ValueAt(m, x) == ValueOf(Cells(m, x, Width))
Hit(s, m, x)  == Mapped(m, x, Width) /\ Matches(s, ValueAt(m, x))

AobHit(s, m, x) ==
    /\ Mapped(m, x, Len(s.pattern))
    /\ \A k \in DOMAIN s.pattern : s.pattern[k] \in {Wildcard, m[x + k - 1]}

\* What is reported lies in the range with the alignment asked for, once, in
\* ascending order, and held what was asked for at some time of the scan.
ScanIsSound ==
    /\ call.kind \in {"first_scan", "scan_aob"} =>
         \A j, k \in DOMAIN call.found : j < k => call.found[j].address < call.found[k].address
    /\ call.kind = "first_scan" =>
         \A k \in DOMAIN call.found :
            LET x == call.found[k].address
            IN /\ x \in call.args.start..call.args.start + call.args.range - Width
               /\ x % call.args.align = 0
               /\ \E m \in past : Hit(call.args, m, x) /\ ValueAt(m, x) = call.found[k].value
    /\ call.kind = "scan_aob" =>
         \A x \in Found : \E m \in past :
            x + Len(call.args.pattern) <= call.args.start + call.args.length /\ AobHit(call.args, m, x)

\* first_scan cuts its range into chunks that do not overlap; x is in one of them.
InOneChunk(s, x) == (x - s.start) \div Chunk = (x + Width - 1 - s.start) \div Chunk

\* The chunk around x could be read all the time.
ChunkReadable(s, x) ==
    LET from == ((x - s.start) \div Chunk) * Chunk
    IN \A m \in past : Mapped(m, s.start + from, ChunkLength(s.range, from, Chunk))

\* What held it all the time is reported, unless the answer was full before.
ScanIsComplete ==
    Over /\ call.fail = "none" =>
      /\ call.kind = "first_scan" =>
           \A x \in call.args.start..call.args.start + call.args.range - Width :
             /\ x % call.args.align = 0
             /\ InOneChunk(call.args, x) /\ ChunkReadable(call.args, x)
             /\ \A m \in past : Hit(call.args, m, x)
             => Answered(x)
      /\ call.kind = "scan_aob" =>
           \A x \in call.args.start..call.args.start + call.args.length - Len(call.args.pattern) :
             (\A m \in past : AobHit(call.args, m, x)) => Answered(x)

\* A scan repeats no address and reports none that never held what was asked for
\* while it ran, and an address that held it all the time is in the answer, unless
\* the answer was full before it.  Of first_scan this is true only of values that lie
\* in one 64 KiB chunk (candidate_scan.hpp:123); scan_aob's chunks overlap, so that
\* it misses none, and none is found twice (aob_scan.hpp 64, 82-83).
ScanIsExact == ScanIsSound /\ ScanIsComplete

\* A refinement keeps the order of the snapshot, adds nothing to it, keeps every
\* candidate that met the comparison with its recorded value all the time and none
\* that never did, records the value it compared, and never refuses an address the
\* library itself recorded (next_scan 198-219).
RefineIsExact ==
    call.kind = "next_scan" =>
      LET s == call.args
          Old(x) == CHOOSE v \in {c.value : c \in {d \in {s.previous[k] : k \in DOMAIN s.previous} :
                                                      d.address = x}} : TRUE
          Meets(m, x) == Mapped(m, x, Width) /\ Holds(s, ValueAt(m, x), Old(x))
          before == {s.previous[k].address : k \in DOMAIN s.previous}
      IN /\ call.fail # "none" => Len(s.previous) > s.max \/ s.max = 0
         /\ \A j, k \in DOMAIN call.found : j < k => call.found[j].address < call.found[k].address
         /\ \A k \in DOMAIN call.found :
              LET x == call.found[k].address
              IN x \in before /\ \E m \in past : Meets(m, x) /\ ValueAt(m, x) = call.found[k].value
         /\ Over /\ call.fail = "none" =>
              \A x \in before : (\A m \in past : Meets(m, x)) => x \in Found

-----------------------------------------------------------------------------
(* The session's calls                                                     *)

\* A batch stops at the first offset that fails: what it completed is a beginning
\* of what was asked, each written value was there, the address that failed is the
\* last one attempted, and a batch that did not fail is whole (204-214, 384-395).
BatchIsAPrefix ==
    call.kind \in {"read_offsets", "write_offsets"} =>
      /\ call.found = SubSeq(Targets, 1, Len(call.found))
      /\ Over /\ call.fail = "none" => call.found = Targets
      /\ call.fail # "none" => Attempted[Len(Attempted)] = Targets[Len(call.found) + 1]
      /\ call.kind = "write_offsets" =>
           \A k \in DOMAIN call.found :
              \E m \in past : Holding(m, call.found[k], call.args.value)

\* Every link of a resolved chain is the pointer the target held, at some time of
\* the call, at the link before it plus its offset; none is NULL (359-377).  The
\* links may be of different moments.
ChainIsAnchored ==
    call.kind = "resolve" =>
      \A k \in DOMAIN call.found :
         LET from == IF k = 1 THEN call.args.base ELSE call.found[k - 1]
         IN /\ call.found[k] # 0
            /\ \E m \in past : m[Plus(from, call.args.offsets[k])] = call.found[k]

\* The cells a write step may change.
Extent ==
    CASE call.kind = "verify" -> call.args.base..call.args.base + Width - 1
      [] call.kind = "write_string" -> call.args.base..call.args.base + call.args.size - 1
      [] call.kind = "write_offsets" -> Targets[call.at]..Targets[call.at] + Width - 1
      [] OTHER -> {}

\* The library changes no cell outside what it was asked to write, and a call that
\* succeeds answers with what the target then holds: a verified value is there, and a
\* string reads back as it was written, with its terminator (compare_write_verify,
\* BoundedString::to_bytes and from_utf8).
WritesAreExact ==
    [][ /\ moves' = moves => \A a \in Addresses : mem'[a] # mem[a] => a \in Extent
        /\ call' # call /\ Over' /\ call'.fail = "none" =>
             /\ call.kind = "verify" => Holding(mem', call.args.base, call.args.value)
             /\ call.kind = "write_string" =>
                  FromBytes(Cells(mem', call.args.base, call.args.size), call.args.size, TRUE)
                    = Got(call.args.text)
             /\ call.kind = "read_string" =>
                  Holding(mem', call.args.base, call'.found[1]) ]_vars
=============================================================================
