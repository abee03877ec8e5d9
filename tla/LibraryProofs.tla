---------------------------- MODULE LibraryProofs ----------------------------
(***************************************************************************)
(* Theorems about the library's calls, for any memory, address space,      *)
(* value width, chunk, range, pattern, snapshot, chain and batch, with a   *)
(* target that writes, maps, unmaps or exits between any two requests:     *)
(* pointer chains and batches (LInv), scans and refinements (SInv: what a  *)
(* scan has found says everything about the part of its range behind it,   *)
(* over the set of memories the target has had), and the steps that write. *)
(***************************************************************************)
EXTENDS Library, SequenceTheorems, FiniteSetTheorems, TLAPS

SessionKinds == {"resolve", "read_offsets", "write_offsets"}
Batches      == {"read_offsets", "write_offsets"}

CallShape ==
    call = [kind |-> call.kind, args |-> call.args, at |-> call.at,
            found |-> call.found, fail |-> call.fail]

\* What the call will look at is among the memories the property speaks of.
Witnessed == call.kind \in SessionKinds /\ ~SessionOver => mem \in past

\* A chain stands behind the last link it found, a batch behind the last address.
InStep ==
    call.kind \in SessionKinds =>
      /\ call.at = Len(call.found) + 1
      /\ call.found \in Seq(Nat) /\ Len(call.found) <= Len(call.args.offsets)

Batched ==
    call.kind \in Batches =>
      /\ \A k \in DOMAIN call.found : call.found[k] = Targets[k]
      /\ Over /\ call.fail = "none" => Len(call.found) = Len(call.args.offsets)
      /\ call.fail # "none" => Len(call.found) < Len(call.args.offsets)
      /\ call.kind = "write_offsets" =>
           \A k \in DOMAIN call.found :
              \E m \in past : Holding(m, call.found[k], call.args.value)

LInv ==
    /\ mem \in Memories
    /\ CallShape /\ CallArgs(call.kind, call.args)
    /\ Witnessed /\ InStep /\ Batched /\ ChainIsAnchored

-----------------------------------------------------------------------------
(* Sequences, addresses and memory *)

\* A function on 1..n is a sequence of length n.
LEMMA FunctionIsSequence ==
    ASSUME NEW S, NEW n \in Nat, NEW f \in [1..n -> S]
    PROVE  f \in Seq(S) /\ Len(f) = n /\ DOMAIN f = 1..n
<1>1. f \in Seq(S)
  BY SeqDef
<1>2. DOMAIN f = 1..Len(f) /\ Len(f) \in Nat
  BY <1>1, LenProperties
<1>3. DOMAIN f = 1..n
  OBVIOUS
<1>4. Len(f) = n
  BY <1>2, <1>3
<1>5. QED
  BY <1>1, <1>3, <1>4

Below(S, i) == {j \in S : j <= i}

\* Ascending counts a finite set of numbers out: in order, once each, and all of it.
LEMMA AscendingEnumerates ==
    ASSUME NEW S, S \subseteq Int, IsFiniteSet(S)
    PROVE  /\ Cardinality(S) \in Nat
           /\ Ascending(S) \in [1..Cardinality(S) -> S]
           /\ \A j, k \in 1..Cardinality(S) : j < k => Ascending(S)[j] < Ascending(S)[k]
           /\ \A x \in S : \E k \in 1..Cardinality(S) : Ascending(S)[k] = x
<1> DEFINE n       == Cardinality(S)
           rank(i) == Cardinality(Below(S, i))
<1>1. n \in Nat
  BY FS_CardinalityType
<1>2. \A i \in S : IsFiniteSet(Below(S, i)) /\ rank(i) \in 1..n
  <2>1. TAKE i \in S
  <2>2. IsFiniteSet(Below(S, i)) /\ rank(i) <= n
    BY FS_Subset DEF Below
  <2>3. i \in Below(S, i)
    BY DEF Below
  <2>4. rank(i) \in Nat /\ rank(i) # 0
    BY <2>2, <2>3, FS_CardinalityType, FS_EmptySet
  <2>5. QED
    BY <1>1, <2>2, <2>4
<1>3. \A i, j \in S : i < j => rank(i) < rank(j)
  <2>1. SUFFICES ASSUME NEW i \in S, NEW j \in S, i < j
                 PROVE  rank(i) < rank(j)
    OBVIOUS
  <2>2. Below(S, i) \in SUBSET Below(S, j) /\ Below(S, i) # Below(S, j)
    <3>1. j \in Below(S, j) /\ j \notin Below(S, i)
      BY <2>1 DEF Below
    <3>2. \A l \in Below(S, i) : l \in Below(S, j)
      BY <2>1 DEF Below
    <3>3. QED
      BY ONLY <3>1, <3>2
  <2>3. rank(i) <= rank(j) /\ rank(i) # rank(j)
    BY <1>2, <2>2, FS_Subset
  <2>4. QED
    BY <1>1, <1>2, <2>3
<1>4. \A i, j \in S : rank(i) = rank(j) => i = j
  BY <1>1, <1>2, <1>3
<1> DEFINE f == [i \in S |-> rank(i)]
<1>5. f \in Injection(S, 1..n)
  <2>1. f \in [S -> 1..n]
    BY <1>2
  <2>2. IsInjective(f)
    BY <1>4 DEF IsInjective
  <2>3. QED
    BY <2>1, <2>2 DEF Injection
<1>6. \A k \in 1..n : \E i \in S : rank(i) = k
  <2>1. IsFiniteSet(1..n) /\ Cardinality(1..n) = n
    BY <1>1, FS_Interval
  <2>2. f \in Surjection(S, 1..n)
    BY <1>5, <2>1, FS_Injection
  <2>3. \A k \in 1..n : \E i \in S : f[i] = k
    BY <2>2 DEF Surjection
  <2>4. QED
    BY <2>3
<1>7. \A k \in 1..n : Ascending(S)[k] \in S /\ rank(Ascending(S)[k]) = k
  <2>1. TAKE k \in 1..n
  <2>2. Ascending(S)[k] = CHOOSE i \in S : rank(i) = k
    BY DEF Ascending, Below
  <2>3. \E i \in S : rank(i) = k
    BY <1>6
  <2> HIDE DEF rank, n
  <2>4. QED
    BY <2>2, <2>3
<1>8. Ascending(S) \in [1..n -> S]
  <2> DEFINE c(k) == CHOOSE i \in S : Cardinality({j \in S : j <= i}) = k
  <2>1. Ascending(S) = [k \in 1..n |-> c(k)]
    BY DEF Ascending
  <2> HIDE DEF c, n, rank
  <2>2. \A k \in 1..n : c(k) \in S
    BY <1>7, <2>1
  <2>3. QED
    BY <2>1, <2>2
<1>9. \A j, k \in 1..n : j < k => Ascending(S)[j] < Ascending(S)[k]
  <2> HIDE DEF rank, n
  <2>1. SUFFICES ASSUME NEW j \in 1..n, NEW k \in 1..n, j < k
                 PROVE  Ascending(S)[j] < Ascending(S)[k]
    OBVIOUS
  <2> DEFINE x == Ascending(S)[j]
             y == Ascending(S)[k]
  <2>2. x \in Int /\ y \in Int /\ x \in S /\ y \in S /\ rank(x) = j /\ rank(y) = k
    BY <1>7
  <2> HIDE DEF x, y
  <2>3. x < y
    BY <1>1, <1>3, <2>1, <2>2
  <2>4. QED
    BY <2>3 DEF x, y
<1>10. \A x \in S : \E k \in 1..n : Ascending(S)[k] = x
  BY <1>2, <1>4, <1>7
<1>11. QED
  BY <1>1, <1>8, <1>9, <1>10

\* What the arguments of a call are.
LEMMA ArgsFacts ==
    ASSUME NEW k, NEW x, CallArgs(k, x)
    PROVE  /\ k \in SessionKinds =>
                x.base \in Addresses /\ x.offsets \in Seq(Nat) /\ Len(x.offsets) \in Nat
           /\ k \in {"verify", "write_offsets"} =>
                /\ x.base \in Addresses
                /\ x.value \in Seq(Byte) /\ Len(x.value) = Width /\ DOMAIN x.value = 1..Width
<1>1. k \in SessionKinds =>
         x.base \in Addresses /\ x.offsets \in Seq(Nat) /\ Len(x.offsets) \in Nat
  <2>1. k \in SessionKinds => x.base \in Addresses /\ x.offsets \in Seq(Nat)
    BY DEF CallArgs, SessionKinds, SessionCalls
  <2>2. QED
    BY <2>1, LenProperties
<1>2. k \in {"verify", "write_offsets"} => x.base \in Addresses /\ x.value \in [1..Width -> Byte]
  BY DEF CallArgs, SessionCalls
<1>3. Width \in Nat
  BY SessionAssumption, MemoryAssumption
<1>4. QED
  BY <1>1, <1>2, <1>3, FunctionIsSequence

\* A request that passes the checks does not reach past the last address.
LEMMA NoWrap ==
    ASSUME NEW a \in Addresses, NEW n \in Nat, Validated(a, n) = "none"
    PROVE  n \in 1..MaxSize /\ a + n <= Top + 1
<1>1. n \in 1..MaxSize /\ (a + n) % (Top + 1) >= a
  BY MemoryAssumption DEF Validated, Plus, Addresses
<1>2. CASE a + n > Top + 1
  <2>1. (a + n) % (Top + 1) = a + n - (Top + 1)
    BY <1>1, <1>2, MemoryAssumption DEF Addresses
  <2>2. QED
    BY <1>1, <2>1, MemoryAssumption DEF Addresses
<1>3. QED
  BY <1>1, <1>2, MemoryAssumption DEF Addresses

LEMMA PlusType ==
    ASSUME NEW a \in Nat, NEW b \in Nat
    PROVE  Plus(a, b) \in Addresses
  BY MemoryAssumption DEF Plus, Addresses

\* A pointer that was read is what the memory holds there.
LEMMA ReadOne ==
    ASSUME NEW m \in Memories, NEW a \in Addresses, Read(m, a, 1).fail = "none"
    PROVE  Read(m, a, 1).bytes[1] = m[a] /\ m[a] \in Nat
<1>1. Read(m, a, 1) = Fetched(m, a, 1)
  BY DEF Read, Failed, Validated
<1>2. Mapped(m, a, 1) /\ Fetched(m, a, 1).bytes = [i \in 1..1 |-> m[a + i - 1]]
  BY <1>1 DEF Fetched, Failed, Got
<1>3. a \in a..a+1-1 /\ a + 1 - 1 = a
  BY DEF Addresses
<1>4. m[a] # Unmapped
  BY <1>2, <1>3 DEF Mapped
<1>5. m[a] \in Nat
  BY <1>4, MemoryAssumption DEF Memories
<1>6. [i \in 1..1 |-> m[a + i - 1]][1] = m[a + 1 - 1]
  OBVIOUS
<1>7. QED
  BY <1>1, <1>2, <1>3, <1>5, <1>6

LEMMA StoredType ==
    ASSUME NEW m \in Memories, NEW a, NEW bytes \in Seq(Byte)
    PROVE  Stored(m, a, bytes) \in Memories
  BY DEF Stored, Memories

LEMMA WrittenType ==
    ASSUME NEW m \in Memories, NEW a, NEW bytes \in Seq(Byte),
           NEW r \in Written(m, a, bytes)
    PROVE  r.mem \in Memories
<1>1. CASE r.mem = m \/ r.mem = Stored(m, a, bytes)
  BY <1>1, StoredType
<1>2. ASSUME NEW k \in 0..Len(bytes)-1, r.mem = Stored(m, a, SubSeq(bytes, 1, k))
      PROVE  r.mem \in Memories
  <2>1. SubSeq(bytes, 1, k) \in Seq(Byte)
    OBVIOUS
  <2>2. QED
    BY <1>2, <2>1, StoredType
<1>3. QED
  BY <1>1, <1>2 DEF Written, Put

\* A write, whatever becomes of it, leaves a memory; one that succeeds has stored
\* everything.
LEMMA WriteFacts ==
    ASSUME NEW m \in Memories, NEW a \in Addresses, NEW bytes \in Seq(Byte),
           NEW r \in Written(m, a, bytes)
    PROVE  /\ r.mem \in Memories
           /\ r.fail = "none" => Holding(r.mem, a, bytes)
<1>1. Len(bytes) \in Nat /\ DOMAIN bytes = 1..Len(bytes)
  OBVIOUS
<1>2. CASE Validated(a, Len(bytes)) # "none"
  BY <1>2 DEF Written
<1>3. CASE Validated(a, Len(bytes)) = "none" /\ Mapped(m, a, Len(bytes))
  <2>1. r = [fail |-> "none", mem |-> Stored(m, a, bytes)]
    BY <1>3 DEF Written, Put
  <2>2. a + Len(bytes) <= Top + 1
    BY <1>1, <1>3, NoWrap
  <2>3. \A i \in DOMAIN bytes :
          /\ a + i - 1 \in Addresses /\ (a + i - 1) - a + 1 = i
    BY <1>1, <2>2, MemoryAssumption DEF Addresses
  <2>4. Holding(Stored(m, a, bytes), a, bytes)
    BY <2>3 DEF Holding, Stored
  <2>5. QED
    BY <2>1, <2>4, StoredType
<1>4. CASE Validated(a, Len(bytes)) = "none" /\ ~Mapped(m, a, Len(bytes))
  <2>1. PICK k \in 0..Len(bytes)-1 :
           r = [fail |-> "write_failed", mem |-> Stored(m, a, SubSeq(bytes, 1, k))]
    BY <1>4 DEF Written, Put
  <2>2. SubSeq(bytes, 1, k) \in Seq(Byte)
    BY <1>1
  <2>3. QED
    BY <2>1, <2>2, StoredType
<1>5. QED
  BY <1>2, <1>3, <1>4

LEMMA AppendFacts ==
    ASSUME NEW q \in Seq(Nat), NEW n \in Nat
    PROVE  /\ Append(q, n) \in Seq(Nat)
           /\ Len(q) \in Nat /\ Len(Append(q, n)) = Len(q) + 1
           /\ DOMAIN q = 1..Len(q) /\ DOMAIN Append(q, n) = 1..(Len(q) + 1)
           /\ \A i \in 1..Len(q) : Append(q, n)[i] = q[i]
           /\ Append(q, n)[Len(q) + 1] = n
  OBVIOUS

-----------------------------------------------------------------------------
(* Calls *)

LEMMA CallFields ==
    ASSUME CallShape, NEW v
    PROVE  /\ FailWith(v) = [kind |-> call.kind, args |-> call.args, at |-> call.at,
                             found |-> call.found, fail |-> v]
           /\ [call EXCEPT !.at = v] = [kind |-> call.kind, args |-> call.args, at |-> v,
                                        found |-> call.found, fail |-> call.fail]
  BY DEF CallShape, FailWith

\* A step inside a call of another kind tells the properties nothing.
LEMMA OtherKeeps ==
    ASSUME LInv, call.kind \notin SessionKinds, mem' \in Memories,
           NEW a, NEW f, NEW e,
           call' = [kind |-> call.kind, args |-> call.args, at |-> a, found |-> f, fail |-> e]
    PROVE  LInv'
<1>1. /\ call'.kind = call.kind /\ call'.args = call.args
      /\ call'.at = a /\ call'.found = f /\ call'.fail = e
  OBVIOUS
<1>2. CallShape' /\ CallArgs(call.kind, call.args)'
  BY <1>1 DEF LInv, CallShape, CallArgs
<1>3. QED
  BY <1>1, <1>2 DEF LInv, Witnessed, InStep, Batched, ChainIsAnchored, SessionKinds, Batches

\* A call that begins has found nothing.
LEMMA BeginKeeps ==
    ASSUME LInv, NEW k, NEW x, NEW a, NEW e,
           Begin(NewCall(k, x, a, e)),
           CallArgs(k, x),
           k \in SessionKinds => a = 1,
           k \in Batches => e = "none"
    PROVE  LInv'
<1>1. /\ call' = [kind |-> k, args |-> x, at |-> a, found |-> <<>>, fail |-> e]
      /\ past' = {mem} /\ mem' = mem
  BY DEF Begin, NewCall
<1>2. /\ call'.kind = k /\ call'.args = x
      /\ call'.at = a /\ call'.found = <<>> /\ call'.fail = e
  BY <1>1
<1>3. CallShape' /\ mem' \in Memories /\ Witnessed'
  BY <1>1, <1>2 DEF LInv, CallShape, Witnessed
<1>4. CallArgs(call.kind, call.args)'
  BY <1>2 DEF CallArgs
<1>5. k \in SessionKinds => x.offsets \in Seq(Nat) /\ Len(x.offsets) \in Nat
  BY DEF CallArgs, SessionKinds
<1>6. InStep'
  BY <1>2, <1>5 DEF InStep
<1>7. ChainIsAnchored'
  BY <1>2 DEF ChainIsAnchored
<1>8. Batched'
  BY <1>2, <1>5 DEF Batched, Batches, SessionKinds, Over, SessionOver, ScanOver
<1>9. QED
  BY <1>3, <1>4, <1>6, <1>7, <1>8 DEF LInv

LEMMA CallBegins ==
    ASSUME LInv,
           \/ \E c \in Calls : BeginSession(c)
           \/ \E s \in FirstScans : FirstScan(s)
           \/ \E s \in AobScans : AobScan(s)
           \/ \E s \in NextScans : NextScan(s, s.upper) \/ RefineCandidates(s)
    PROVE  LInv'
<1>1. ASSUME NEW c \in Calls, BeginSession(c)
      PROVE  LInv'
  <2> DEFINE e == CASE c.kind = "resolve" /\ c.args.offsets = <<>> -> "invalid_offsets"
                    [] c.kind = "verify" /\ c.args.attempts = 0 -> "verification_mismatch"
                    [] OTHER -> "none"
  <2>1. Begin(NewCall(c.kind, c.args, 1, e))
    BY <1>1 DEF BeginSession
  <2>2. c.kind \in Batches => e = "none"
    BY DEF Batches
  <2> HIDE DEF e
  <2>3. QED
    BY <2>1, <2>2, CallsAssumption, BeginKeeps
<1>2. ASSUME NEW s \in FirstScans, FirstScan(s)
      PROVE  LInv'
  BY <1>2, BeginKeeps DEF FirstScan, SessionKinds, SessionCalls, Batches, CallArgs
<1>3. ASSUME NEW s \in AobScans, AobScan(s)
      PROVE  LInv'
  BY <1>3, BeginKeeps DEF AobScan, SessionKinds, SessionCalls, Batches, CallArgs
<1>4. ASSUME NEW s \in NextScans, NextScan(s, s.upper) \/ RefineCandidates(s)
      PROVE  LInv'
  BY <1>4, BeginKeeps DEF NextScan, RefineCandidates, SessionKinds, SessionCalls, Batches,
     CallArgs
<1>5. QED
  BY <1>1, <1>2, <1>3, <1>4

\* The calls that are neither chain nor batch.
LEMMA OthersKeep ==
    ASSUME LInv,
           \/ ReadBytes \/ ReadString \/ WriteString \/ VerifyWrite \/ VerifyRead
           \/ ScanStep
    PROVE  LInv'
<1>1. call.kind \notin SessionKinds
  BY DEF ReadBytes, ReadString, WriteString, VerifyWrite, VerifyRead, ScanStep, FirstChunk,
     NextCandidate, AobChunk, Running, SessionKinds
<1>2. CallShape /\ mem \in Memories /\ CallArgs(call.kind, call.args)
  BY DEF LInv
<1>3. mem' \in Memories
  <2>1. CASE WriteString
    <3>1. call.args.text \in Seq(Byte)
      BY <1>2, <2>1 DEF WriteString, Running, CallArgs
    <3>2. ToBytes(call.args.text, call.args.size).fail = "none"
            => ToBytes(call.args.text, call.args.size).bytes \in Seq(Byte)
      BY <3>1, MemoryAssumption DEF ToBytes, Failed, Got
    <3>3. QED
      BY <1>2, <2>1, <3>2, WrittenType DEF WriteString, GoOn, GoOnWriting
  <2>2. CASE VerifyWrite
    BY <1>2, <2>2, ArgsFacts, WrittenType DEF VerifyWrite, GoOnWriting, Running
  <2>3. CASE mem' = mem
    BY <1>2, <2>3
  <2>4. QED
    BY <2>1, <2>2, <2>3 DEF ReadBytes, ReadString, VerifyRead, ScanStep, FirstChunk,
       NextCandidate, AobChunk, GoOn
<1>4. \/ \E v : call' = With(v) \/ call' = FailWith(v) \/ call' = [call EXCEPT !.at = v]
      \/ \E v, w : call' = Moved(v, w)
  <2>1. CASE ReadBytes
    BY <2>1 DEF ReadBytes, GoOn
  <2>2. CASE ReadString
    BY <2>2 DEF ReadString, GoOn
  <2>3. CASE WriteString
    BY <2>3 DEF WriteString, GoOn, GoOnWriting
  <2>4. CASE VerifyWrite
    BY <2>4 DEF VerifyWrite, GoOnWriting
  <2>5. CASE VerifyRead
    BY <2>5 DEF VerifyRead, GoOn
  <2>6. CASE FirstChunk
    BY <2>6 DEF FirstChunk, GoOn
  <2>7. CASE NextCandidate
    BY <2>7 DEF NextCandidate, GoOn
  <2>8. CASE AobChunk
    BY <2>8 DEF AobChunk, GoOn
  <2>9. QED
    BY <2>1, <2>2, <2>3, <2>4, <2>5, <2>6, <2>7, <2>8 DEF ScanStep
<1> DEFINE Recorded == \E a, f, e : call' = [kind |-> call.kind, args |-> call.args,
                                            at |-> a, found |-> f, fail |-> e]
<1>5. Recorded
  <2>1. ASSUME NEW v, call' = With(v)
        PROVE  Recorded
    BY <2>1 DEF With, Moved
  <2>2. ASSUME NEW v, call' = FailWith(v)
        PROVE  Recorded
    <3>1. call' = [kind |-> call.kind, args |-> call.args, at |-> call.at,
                   found |-> call.found, fail |-> v]
      BY <1>2, <2>2, CallFields
    <3>2. QED
      BY <3>1
  <2>3. ASSUME NEW v, call' = [call EXCEPT !.at = v]
        PROVE  Recorded
    <3>1. call' = [kind |-> call.kind, args |-> call.args, at |-> v,
                   found |-> call.found, fail |-> call.fail]
      BY <1>2, <2>3, CallFields
    <3>2. QED
      BY <3>1
  <2>4. ASSUME NEW v, NEW w, call' = Moved(v, w)
        PROVE  Recorded
    BY <2>4 DEF Moved
  <2>5. QED
    BY <1>4, <2>1, <2>2, <2>3, <2>4
<1>6. QED
  BY <1>1, <1>3, <1>5, OtherKeeps

-----------------------------------------------------------------------------
(* Chains and batches *)

\* One link more, or the end of the walk.
LEMMA ResolveKeeps ==
    ASSUME LInv, ResolveStep
    PROVE  LInv'
<1> DEFINE from == IF call.at = 1 THEN call.args.base ELSE call.found[call.at - 1]
           a    == Plus(from, call.args.offsets[call.at])
           p    == Read(mem, a, 1).bytes[1]
<1>1. /\ call.kind = "resolve" /\ call.fail = "none" /\ call.at <= Len(call.args.offsets)
      /\ mem' = mem /\ past' = past /\ mem \in Memories /\ CallShape
  BY DEF LInv, ResolveStep, Running, GoOn
<1>2. /\ call.at = Len(call.found) + 1 /\ call.found \in Seq(Nat)
      /\ call.args.base \in Addresses /\ call.args.offsets \in Seq(Nat)
      /\ Len(call.args.offsets) \in Nat
      /\ mem \in past /\ ChainIsAnchored
  BY <1>1, ArgsFacts DEF LInv, InStep, Witnessed, SessionKinds, SessionOver
<1>3. a \in Addresses
  <2>1. Len(call.found) \in Nat /\ call.at \in 1..Len(call.args.offsets)
    BY <1>1, <1>2
  <2>2. call.args.offsets[call.at] \in Nat
    BY <1>2, <2>1
  <2>3. call.at # 1 => call.found[call.at - 1] \in Nat
    BY <1>2, <2>1
  <2>4. from \in Nat
    BY <1>2, <2>3, MemoryAssumption DEF Addresses
  <2> HIDE DEF from
  <2>5. QED
    BY <2>2, <2>4, PlusType
<1>4. \/ Read(mem, a, 1).fail = "none" /\ p # 0 /\ call' = With(p)
      \/ \E e : e # "none" /\ call' = FailWith(e)
  BY DEF ResolveStep, GoOn
<1>5. ASSUME NEW e, e # "none", call' = FailWith(e)
      PROVE  LInv'
  <2>0. call' = [kind |-> call.kind, args |-> call.args, at |-> call.at,
                 found |-> call.found, fail |-> e]
    BY <1>1, <1>5, CallFields
  <2>1. /\ call'.kind = call.kind /\ call'.args = call.args /\ call'.at = call.at
        /\ call'.found = call.found /\ call'.fail = e
        /\ CallShape'
    BY <2>0 DEF CallShape
  <2>2. QED
    BY <1>1, <1>2, <1>5, <2>1 DEF LInv, CallArgs, Witnessed, InStep, Batched, Batches,
       ChainIsAnchored, SessionOver, SessionKinds
<1>6. ASSUME Read(mem, a, 1).fail = "none", p # 0, call' = With(p)
      PROVE  LInv'
  <2>1. p = mem[a] /\ p \in Nat
    BY <1>1, <1>3, <1>6, ReadOne
  <2>2. /\ call'.kind = call.kind /\ call'.args = call.args /\ call'.at = call.at + 1
        /\ call'.found = Append(call.found, p) /\ call'.fail = call.fail
        /\ CallShape'
    BY <1>6 DEF With, Moved, CallShape
  <2> HIDE DEF p
  <2>3. /\ call'.found \in Seq(Nat) /\ Len(call.found) \in Nat
        /\ Len(call'.found) = Len(call.found) + 1
        /\ DOMAIN call.found = 1..Len(call.found)
        /\ DOMAIN call'.found = 1..(Len(call.found) + 1)
        /\ \A i \in 1..Len(call.found) : call'.found[i] = call.found[i]
        /\ call'.found[Len(call.found) + 1] = p
    BY <1>2, <2>1, <2>2, AppendFacts
  <2>4. ChainIsAnchored'
    <3> SUFFICES ASSUME NEW k \in 1..(Len(call.found) + 1)
                 PROVE  LET last == IF k = 1 THEN call.args.base ELSE call'.found[k - 1]
                        IN /\ call'.found[k] # 0
                           /\ \E m \in past : m[Plus(last, call.args.offsets[k])]
                                                 = call'.found[k]
      BY <1>1, <2>2, <2>3 DEF ChainIsAnchored
    <3>1. CASE k \in 1..Len(call.found)
      <4>1. k # 1 => k - 1 \in 1..Len(call.found)
        BY <2>3, <3>1
      <4>2. LET last == IF k = 1 THEN call.args.base ELSE call.found[k - 1]
            IN /\ call.found[k] # 0
               /\ \E m \in past : m[Plus(last, call.args.offsets[k])] = call.found[k]
        <5>1. ChainIsAnchored /\ call.kind = "resolve" /\ k \in DOMAIN call.found
          BY <1>1, <1>2, <3>1 DEF LInv
        <5>2. QED
          BY ONLY <5>1 DEF ChainIsAnchored
      <4>3. CASE k = 1
        BY ONLY <2>3, <3>1, <4>2, <4>3
      <4>4. CASE k # 1
        <5>1. call'.found[k - 1] = call.found[k - 1]
          BY <2>3, <4>1, <4>4
        <5>2. QED
          BY ONLY <2>3, <3>1, <4>2, <4>4, <5>1
      <4>5. QED
        BY ONLY <4>3, <4>4
    <3>2. CASE k = Len(call.found) + 1
      <4>1. k = call.at /\ (k # 1 => call'.found[k - 1] = call.found[k - 1])
        <5>1. k = call.at /\ (k # 1 => k - 1 \in 1..Len(call.found))
          BY ONLY <1>2, <2>3, <3>2
        <5>2. QED
          BY ONLY <2>3, <5>1
      <4>2. /\ p # 0 /\ call'.found[k] = p /\ mem \in past
            /\ mem[Plus(IF k = 1 THEN call.args.base ELSE call'.found[k - 1],
                        call.args.offsets[k])] = p
        <5>1. from = IF k = 1 THEN call.args.base ELSE call'.found[k - 1]
          BY ONLY <4>1
        <5>2. mem[Plus(from, call.args.offsets[k])] = p
          BY ONLY <2>1, <4>1
        <5> HIDE DEF from
        <5>3. p # 0 /\ call'.found[k] = p /\ mem \in past
          BY <1>2, <1>6, <2>3, <3>2
        <5>4. QED
          BY ONLY <5>1, <5>2, <5>3
      <4>3. QED
        BY ONLY <4>2
    <3>3. QED
      BY <2>3, <3>1, <3>2
  <2>5. InStep'
    BY <1>1, <1>2, <2>2, <2>3 DEF InStep
  <2>6. QED
    BY <1>1, <1>2, <2>2, <2>4, <2>5 DEF LInv, CallArgs, Witnessed, Batched, Batches
<1>7. QED
  BY <1>4, <1>5, <1>6

LEMMA TargetsFacts ==
    ASSUME call.args.base \in Addresses, call.args.offsets \in Seq(Nat)
    PROVE  /\ Targets \in Seq(Nat) /\ Len(Targets) = Len(call.args.offsets)
           /\ \A k \in 1..Len(call.args.offsets) : Targets[k] \in Addresses
<1>1. DOMAIN call.args.offsets = 1..Len(call.args.offsets) /\ Len(call.args.offsets) \in Nat
  OBVIOUS
<1>2. \A k \in 1..Len(call.args.offsets) : Targets[k] \in Addresses
  <2>1. TAKE k \in 1..Len(call.args.offsets)
  <2>2. call.args.base \in Nat /\ call.args.offsets[k] \in Nat
    BY MemoryAssumption DEF Addresses
  <2>3. Targets[k] = Plus(call.args.base, call.args.offsets[k])
    BY <1>1 DEF Targets
  <2>4. QED
    BY <2>2, <2>3, PlusType
<1>3. DOMAIN Targets = 1..Len(call.args.offsets) /\ Targets = [k \in DOMAIN Targets |-> Targets[k]]
  BY <1>1 DEF Targets
<1>4. Targets \in [1..Len(call.args.offsets) -> Nat]
  BY <1>2, <1>3, MemoryAssumption DEF Addresses
<1> HIDE DEF Targets
<1>5. Targets \in Seq(Nat)
  BY <1>1, <1>4, SeqDef
<1>6. Len(Targets) = Len(call.args.offsets)
  BY <1>1, <1>3, <1>5, LenProperties
<1>7. QED
  BY <1>2, <1>5, <1>6

\* One address of a batch: it is done, or the batch ends there.
LEMMA BatchKeeps ==
    ASSUME LInv, call.kind \in Batches, call.fail = "none",
           call.at <= Len(call.args.offsets),
           mem' \in Memories, past' = past \cup {mem'},
           \/ /\ call' = With(Targets[call.at])
              /\ call.kind = "write_offsets"
                   => Holding(mem', Targets[call.at], call.args.value)
           \/ \E e : e # "none" /\ call' = FailWith(e)
    PROVE  LInv'
<1>1. /\ call.at = Len(call.found) + 1 /\ call.found \in Seq(Nat)
      /\ call.args.base \in Addresses /\ call.args.offsets \in Seq(Nat)
      /\ Len(call.args.offsets) \in Nat /\ Len(call.found) \in Nat
      /\ CallShape /\ CallArgs(call.kind, call.args)
  BY ArgsFacts DEF LInv, InStep, SessionKinds, Batches
<1>2. /\ \A k \in 1..Len(call.found) : call.found[k] = Targets[k]
      /\ call.kind = "write_offsets" =>
           \A k \in 1..Len(call.found) :
              \E m \in past : Holding(m, call.found[k], call.args.value)
  <2>1. DOMAIN call.found = 1..Len(call.found)
    BY <1>1
  <2>2. Batched
    BY DEF LInv
  <2>3. /\ \A k \in DOMAIN call.found : call.found[k] = Targets[k]
        /\ call.kind = "write_offsets" =>
             \A k \in DOMAIN call.found :
                \E m \in past : Holding(m, call.found[k], call.args.value)
    BY ONLY <2>2, call.kind \in Batches DEF Batched, Batches
  <2>4. QED
    BY ONLY <2>1, <2>3
<1>3. mem' \in past' /\ past \subseteq past'
  OBVIOUS
<1>4. ASSUME NEW e, e # "none", call' = FailWith(e)
      PROVE  LInv'
  <2>1. call' = [kind |-> call.kind, args |-> call.args, at |-> call.at,
                 found |-> call.found, fail |-> e]
    BY <1>1, <1>4, CallFields
  <2>2. /\ call'.kind = call.kind /\ call'.args = call.args /\ call'.at = call.at
        /\ call'.found = call.found /\ call'.fail = e
        /\ CallShape'
    BY <2>1 DEF CallShape
  <2>3. Targets' = Targets /\ CallArgs(call.kind, call.args)'
    BY <1>1, <2>2 DEF Targets, CallArgs
  <2>4. InStep' /\ ChainIsAnchored' /\ Witnessed'
    BY <1>1, <1>3, <2>2 DEF InStep, ChainIsAnchored, Witnessed, Batches
  <2>5. Batched'
    <3>1. /\ DOMAIN call'.found = 1..Len(call.found)
          /\ Len(call'.found) < Len(call'.args.offsets)
      BY <1>1, <2>2
    <3>2. QED
      BY <1>2, <1>3, <1>4, <2>2, <2>3, <3>1 DEF Batched, Holding
  <2>6. QED
    BY <2>2, <2>3, <2>4, <2>5 DEF LInv
<1>5. ASSUME call' = With(Targets[call.at]),
             call.kind = "write_offsets" => Holding(mem', Targets[call.at], call.args.value)
      PROVE  LInv'
  <2> DEFINE t == Targets[call.at]
  <2>1. /\ call'.kind = call.kind /\ call'.args = call.args /\ call'.at = call.at + 1
        /\ call'.found = Append(call.found, t) /\ call'.fail = call.fail
        /\ CallShape'
    BY <1>5 DEF With, Moved, CallShape
  <2>2. t \in Nat
    BY <1>1, TargetsFacts, MemoryAssumption DEF Addresses
  <2>3. Targets' = Targets /\ CallArgs(call.kind, call.args)'
    BY <1>1, <2>1 DEF Targets, CallArgs
  <2>4. t = Targets[Len(call.found) + 1]
    BY <1>1
  <2>5. call.kind = "write_offsets" => Holding(mem', t, call.args.value)
    BY <1>5
  <2> HIDE DEF t
  <2>6. /\ call'.found \in Seq(Nat) /\ Len(call'.found) = Len(call.found) + 1
        /\ DOMAIN call'.found = 1..(Len(call.found) + 1)
        /\ \A i \in 1..Len(call.found) : call'.found[i] = call.found[i]
        /\ call'.found[Len(call.found) + 1] = t
    BY <1>1, <2>1, <2>2, AppendFacts
  <2>7. InStep' /\ ChainIsAnchored' /\ Witnessed'
    BY <1>1, <1>3, <2>1, <2>6 DEF InStep, ChainIsAnchored, Witnessed, Batches
  <2>8. ASSUME NEW k \in DOMAIN call'.found
        PROVE  /\ call'.found[k] = Targets[k]
               /\ call.kind = "write_offsets" =>
                    \E m \in past' : Holding(m, call'.found[k], call.args.value)
    <3>1. CASE k \in 1..Len(call.found)
      BY <1>2, <1>3, <2>6, <3>1
    <3>2. CASE k = Len(call.found) + 1
      BY <1>3, <2>4, <2>5, <2>6, <3>2
    <3>3. QED
      BY <1>1, <2>6, <3>1, <3>2
  <2>9. /\ call'.fail = "none"
        /\ Over' => Len(call'.found) = Len(call'.args.offsets)
    <3>1. call'.fail = "none" /\ call'.kind \in Batches
      BY <2>1
    <3>2. Over' => call'.at > Len(call'.args.offsets)
      BY ONLY <3>1 DEF Over, SessionOver, ScanOver, Batches
    <3>3. call'.at = Len(call.found) + 2 /\ Len(call.found) + 1 <= Len(call'.args.offsets)
      BY <1>1, <2>1
    <3>4. Len(call'.found) = Len(call.found) + 1 /\ Len(call'.args.offsets) \in Nat
      BY <1>1, <2>1, <2>6
    <3>5. QED
      BY ONLY <1>1, <3>1, <3>2, <3>3, <3>4
  <2>10. Batched'
    BY <2>1, <2>3, <2>8, <2>9 DEF Batched, Holding
  <2>11. QED
    BY <2>1, <2>3, <2>7, <2>10 DEF LInv
<1>6. QED
  BY <1>4, <1>5

LEMMA BatchReadKeeps ==
    ASSUME LInv, BatchRead
    PROVE  LInv'
<1>1. /\ call.kind \in Batches /\ call.fail = "none" /\ call.at <= Len(call.args.offsets)
      /\ call.kind # "write_offsets" /\ mem' = mem /\ past' = past
      /\ \/ call' = With(Targets[call.at])
         \/ \E e : e # "none" /\ call' = FailWith(e)
  BY DEF BatchRead, Running, GoOn, Batches
<1>2. mem \in Memories /\ mem \in past
  <2>1. call.at \in Nat /\ Len(call.args.offsets) \in Nat
    BY <1>1 DEF LInv, InStep, CallArgs, SessionKinds, Batches
  <2>2. QED
    BY <1>1, <2>1 DEF LInv, Witnessed, SessionOver, SessionKinds, Batches
<1>3. past' = past \cup {mem'}
  BY <1>1, <1>2
<1>4. QED
  BY <1>1, <1>2, <1>3, BatchKeeps

LEMMA BatchWriteKeeps ==
    ASSUME LInv, BatchWrite
    PROVE  LInv'
<1>1. /\ call.kind \in Batches /\ call.kind = "write_offsets" /\ call.fail = "none"
      /\ call.at <= Len(call.args.offsets)
  BY DEF BatchWrite, Running, Batches
<1>2. PICK r \in Written(mem, Targets[call.at], call.args.value) :
        GoOnWriting(IF r.fail = "none" THEN With(Targets[call.at]) ELSE FailWith(r.fail), r)
  BY DEF BatchWrite
<1>3. /\ call.args.base \in Addresses /\ call.args.offsets \in Seq(Nat)
      /\ call.args.value \in Seq(Byte) /\ mem \in Memories
      /\ call.at \in 1..Len(call.args.offsets)
  BY <1>1, ArgsFacts DEF LInv, InStep, SessionKinds
<1>4. Targets[call.at] \in Addresses
  BY <1>3, TargetsFacts
<1>5. /\ r.mem \in Memories
      /\ r.fail = "none" => Holding(r.mem, Targets[call.at], call.args.value)
  BY <1>2, <1>3, <1>4, WriteFacts
<1>6. /\ mem' = r.mem /\ past' = past \cup {mem'}
      /\ \/ r.fail = "none" /\ call' = With(Targets[call.at])
         \/ r.fail # "none" /\ call' = FailWith(r.fail)
  BY <1>2 DEF GoOnWriting
<1>7. Holding(r.mem, Targets[call.at], call.args.value)
        => Holding(mem', Targets[call.at], call.args.value)
  BY <1>6
<1>8. QED
  BY <1>1, <1>5, <1>6, <1>7, BatchKeeps

LEMMA TargetMovesKeeps ==
    ASSUME LInv, TargetMoves
    PROVE  LInv'
<1>1. call' = call /\ past \subseteq past' /\ (~Over => mem' \in past')
  BY DEF TargetMoves
<1>2. mem' \in Memories
  <2>1. CASE mem' = [a \in Addresses |-> Unmapped]
    BY <2>1 DEF Memories
  <2>2. ASSUME NEW a \in Addresses, NEW b \in Byte \cup {Unmapped},
               mem' = [mem EXCEPT ![a] = b]
        PROVE  mem' \in Memories
    BY <2>2 DEF LInv, Memories
  <2>3. QED
    BY <2>1, <2>2 DEF TargetMoves
<1>3. call.kind \in SessionKinds => (Over <=> SessionOver)
  BY DEF Over, SessionOver, ScanOver, SessionKinds
<1>4. Targets' = Targets /\ (Over' <=> Over) /\ (SessionOver' <=> SessionOver)
  BY <1>1 DEF Targets, Over, SessionOver, ScanOver, FirstOver, AobOver
<1>5. CallShape' /\ CallArgs(call.kind, call.args)' /\ InStep'
  BY <1>1 DEF LInv, CallShape, CallArgs, InStep
<1>6. Witnessed'
  BY <1>1, <1>3, <1>4 DEF Witnessed
<1>7. Batched'
  BY <1>1, <1>4 DEF LInv, Batched, Holding
<1>8. ChainIsAnchored'
  BY <1>1 DEF LInv, ChainIsAnchored
<1>9. QED
  BY <1>2, <1>5, <1>6, <1>7, <1>8 DEF LInv

LEMMA LInvInit ==
    ASSUME Init
    PROVE  LInv
<1>1. /\ mem \in Memories
      /\ call = [kind |-> "none", args |-> <<>>, at |-> 1, found |-> <<>>, fail |-> "none"]
  BY SessionAssumption DEF Init, SessionInit, NewCall
<1>2. call.kind = "none"
  BY <1>1
<1>3. CallShape
  BY <1>1 DEF CallShape
<1>4. QED
  BY <1>1, <1>2, <1>3 DEF LInv, CallArgs, Witnessed, InStep, Batched, ChainIsAnchored,
     SessionKinds, SessionCalls, Batches

LEMMA LInvStep ==
    ASSUME LInv, [Next]_vars
    PROVE  LInv'
<1>1. CASE Next
  <2>1. CASE \/ \E c \in Calls : BeginSession(c)
             \/ \E s \in FirstScans : FirstScan(s)
             \/ \E s \in AobScans : AobScan(s)
             \/ \E s \in NextScans : NextScan(s, s.upper) \/ RefineCandidates(s)
    BY <2>1, CallBegins
  <2>2. CASE SessionStep \/ ScanStep
    BY <2>2, OthersKeep, ResolveKeeps, BatchReadKeeps, BatchWriteKeeps DEF SessionStep
  <2>3. CASE TargetMoves
    BY <2>3, TargetMovesKeeps
  <2>4. QED
    BY <1>1, <2>1, <2>2, <2>3 DEF Next
<1>2. CASE UNCHANGED vars
  <2>1. mem' = mem /\ call' = call /\ past' = past
    BY <1>2 DEF vars, sessionVars
  <2>2. Targets' = Targets /\ (Over' <=> Over) /\ (SessionOver' <=> SessionOver)
    BY <2>1 DEF Targets, Over, SessionOver, ScanOver, FirstOver, AobOver
  <2>3. CallShape' /\ CallArgs(call.kind, call.args)' /\ InStep' /\ Witnessed'
    BY <2>1, <2>2 DEF LInv, CallShape, CallArgs, InStep, Witnessed
  <2>4. Batched' /\ ChainIsAnchored'
    BY <2>1, <2>2 DEF LInv, Batched, Holding, ChainIsAnchored
  <2>5. QED
    BY <2>1, <2>3, <2>4 DEF LInv
<1>3. QED
  BY <1>1, <1>2

LEMMA LInvHolds == Spec => []LInv
<1>1. Init => LInv
  BY LInvInit
<1>2. LInv /\ [Next]_vars => LInv'
  BY LInvStep
<1>3. QED
  BY <1>1, <1>2, PTL DEF Spec

-----------------------------------------------------------------------------

\* Whatever the target writes while resolve_pointer_chain walks, every link it
\* answers is a pointer the target held, during the call, where the link before it
\* leads; and no link is NULL.
THEOREM ChainsAreAnchored == Spec => []ChainIsAnchored
<1>1. LInv => ChainIsAnchored
  BY DEF LInv
<1>2. QED
  BY <1>1, LInvHolds, PTL

LastOf(s, t) == (s \o t)[Len(s \o t)]

LEMMA LastOfConcat ==
    ASSUME NEW s \in Seq(Nat), NEW t \in Seq(Nat), NEW k \in Nat, k > 0, Len(t) = k
    PROVE  LastOf(s, t) = t[k]
<1>1. Len(s) \in Nat /\ Len(s \o t) = Len(s) + k
  <2>1. Len(s \o t) = Len(s) + Len(t)
    BY ConcatProperties
  <2>2. QED
    BY <2>1, LenProperties
<1>2. Len(s) + k \in 1..Len(s) + Len(t) /\ ~(Len(s) + k <= Len(s)) /\ Len(s) + k - Len(s) = k
  BY <1>1
<1>3. (s \o t)[Len(s) + k] = t[k]
  <2>1. \A i \in 1..Len(s) + Len(t) :
           (s \o t)[i] = IF i <= Len(s) THEN s[i] ELSE t[i - Len(s)]
    BY ConcatProperties
  <2> DEFINE st == s \o t
  <2> HIDE DEF st
  <2>2. st[Len(s) + k] = t[Len(s) + k - Len(s)]
    BY <1>2, <2>1 DEF st
  <2>3. QED
    BY <1>2, <2>2 DEF st
<1>4. QED
  BY <1>1, <1>3 DEF LastOf

LEMMA BatchedIsPrefix ==
    ASSUME LInv
    PROVE  BatchIsAPrefix
<1> SUFFICES ASSUME call.kind \in Batches
             PROVE  BatchIsAPrefix
  BY DEF BatchIsAPrefix, Batches
<1>1. /\ call.found \in Seq(Nat) /\ Len(call.found) <= Len(call.args.offsets)
      /\ call.args.base \in Addresses /\ call.args.offsets \in Seq(Nat)
      /\ Len(call.args.offsets) \in Nat /\ Len(call.found) \in Nat
      /\ DOMAIN call.found = 1..Len(call.found)
  BY ArgsFacts DEF LInv, InStep, SessionKinds, Batches
<1>2. Targets \in Seq(Nat) /\ Len(Targets) = Len(call.args.offsets)
  BY <1>1, TargetsFacts
<1>3. \A k \in 1..Len(call.found) : call.found[k] = Targets[k]
  BY <1>1 DEF LInv, Batched
<1> DEFINE n == Len(call.found)
<1>4. call.found = SubSeq(Targets, 1, n)
  <2>1. SubSeq(Targets, 1, n) = [k \in 1..n |-> Targets[k]]
    BY <1>1, <1>2
  <2>2. call.found = [k \in 1..n |-> call.found[k]]
    BY <1>1
  <2>3. QED
    BY <1>3, <2>1, <2>2
<1>5. Over /\ call.fail = "none" => call.found = Targets
  <2>1. SUFFICES ASSUME Over, call.fail = "none"
                 PROVE  call.found = Targets
    OBVIOUS
  <2>2. n = Len(Targets)
    BY <1>2, <2>1 DEF LInv, Batched
  <2>3. SubSeq(Targets, 1, Len(Targets)) = Targets
    BY <1>2
  <2>4. QED
    BY <1>4, <2>2, <2>3
<1>6. call.fail # "none" => Attempted[Len(Attempted)] = Targets[n + 1]
  <2>1. SUFFICES ASSUME call.fail # "none"
                 PROVE  Attempted[Len(Attempted)] = Targets[n + 1]
    OBVIOUS
  <2>2. n + 1 \in 1..Len(Targets)
    BY <1>1, <1>2, <2>1 DEF LInv, Batched
  <2> DEFINE tried == SubSeq(Targets, 1, n + 1)
  <2>3. tried \in Seq(Nat) /\ Len(tried) = n + 1 /\ tried[n + 1] = Targets[n + 1]
    BY <1>1, <1>2, <2>2
  <2>4. Attempted = call.args.offsets \o tried
    BY <2>1 DEF Attempted
  <2> HIDE DEF tried, n
  <2>5. n + 1 \in Nat /\ n + 1 > 0 /\ Len(call.args.offsets) \in Nat
        /\ call.args.offsets \in Seq(Nat)
    BY <1>1, <1>2, <2>2
  <2>6. LastOf(call.args.offsets, tried) = tried[n + 1]
    BY <2>3, <2>5, LastOfConcat
  <2>7. QED
    BY <2>3, <2>4, <2>6 DEF LastOf
<1>7. call.kind = "write_offsets" =>
        \A k \in DOMAIN call.found :
           \E m \in past : Holding(m, call.found[k], call.args.value)
  BY DEF LInv, Batched
<1>8. QED
  BY <1>4, <1>5, <1>6, <1>7 DEF BatchIsAPrefix

\* A batch of any length over any memory stops at the first address that fails: what
\* it completed is a beginning of what was asked, each value it wrote was there, the
\* last address it attempted is the one that failed, and one that did not fail is
\* whole (read_offsets, write_offsets).
THEOREM BatchesArePrefixes == Spec => []BatchIsAPrefix
<1>1. LInv => BatchIsAPrefix
  BY BatchedIsPrefix
<1>2. QED
  BY <1>1, LInvHolds, PTL

-----------------------------------------------------------------------------
(* Scans: reads, answers and chunks *)

LEMMA GreatestExists ==
    ASSUME NEW S, S \subseteq Int, IsFiniteSet(S), S # {}
    PROVE  \E i \in S : \A j \in S : j <= i
<1> DEFINE n == Cardinality(S)
           g == Ascending(S)
<1>1. /\ n \in Nat /\ g \in [1..n -> S]
      /\ \A j, k \in 1..n : j < k => g[j] < g[k]
      /\ \A x \in S : \E k \in 1..n : g[k] = x
  BY AscendingEnumerates
<1> HIDE DEF n, g
<1>2. n \in 1..n
  <2>1. PICK x \in S : TRUE
    OBVIOUS
  <2>2. \E k \in 1..n : g[k] = x
    BY <1>1
  <2>3. QED
    BY <1>1, <2>2
<1>3. \A k \in 1..n : g[k] <= g[n]
  <2>1. TAKE k \in 1..n
  <2>2. g[k] \in Int /\ g[n] \in Int /\ (k < n \/ k = n)
    <3>1. g[k] \in S /\ g[n] \in S
      BY <1>1, <1>2
    <3>2. k < n \/ k = n
      BY <1>1
    <3>3. QED
      BY ONLY <3>1, <3>2, S \subseteq Int
  <2>3. k < n => g[k] < g[n]
    BY <1>1, <1>2
  <2>4. QED
    BY <2>2, <2>3
<1>4. \A j \in S : j <= g[n]
  BY <1>1, <1>3
<1>5. g[n] \in S
  BY <1>1, <1>2
<1>6. QED
  BY <1>4, <1>5

\* A read that succeeds has seen every cell it was asked for; one of a legal size
\* that does not reach the last address fails only on a cell that is not mapped.
LEMMA ReadFacts ==
    ASSUME NEW m \in Memories, NEW a \in Addresses, NEW n \in Nat
    PROVE  /\ Read(m, a, n).fail = "none" =>
                /\ n \in 1..MaxSize /\ a + n <= Top + 1 /\ Mapped(m, a, n)
                /\ Read(m, a, n).bytes = Cells(m, a, n)
           /\ n \in 1..MaxSize /\ a + n <= Top /\ Mapped(m, a, n) => Read(m, a, n).fail = "none"
<1>1. ASSUME Read(m, a, n).fail = "none"
      PROVE  /\ n \in 1..MaxSize /\ a + n <= Top + 1 /\ Mapped(m, a, n)
             /\ Read(m, a, n).bytes = Cells(m, a, n)
  <2>1. Validated(a, n) = "none"
    BY <1>1 DEF Read, Failed
  <2>2. n \in 1..MaxSize /\ a + n <= Top + 1
    BY <2>1, NoWrap
  <2>3. Read(m, a, n) = Fetched(m, a, n)
    BY <2>1 DEF Read
  <2>4. Mapped(m, a, n) /\ Read(m, a, n) = Got([i \in 1..n |-> m[a + i - 1]])
    BY <1>1, <2>3 DEF Fetched, Failed
  <2>5. QED
    BY <2>2, <2>4 DEF Got, Cells
<1>2. ASSUME n \in 1..MaxSize, a + n <= Top, Mapped(m, a, n)
      PROVE  Read(m, a, n).fail = "none"
  <2>1. a + n \in 0..Top /\ a \in Nat
    BY <1>2, MemoryAssumption DEF Addresses
  <2>2. Plus(a, n) = a + n
    BY <2>1, MemoryAssumption DEF Plus
  <2>3. Validated(a, n) = "none"
    BY <1>2, <2>1, <2>2, MemoryAssumption DEF Validated
  <2>4. QED
    BY <1>2, <2>3 DEF Read, Fetched, Got
<1>3. QED
  BY <1>1, <1>2

\* What first_scan and next_scan, and what scan_aob, report.
Candidates == {[address |-> x, value |-> ValueAt(m, x)] : m \in Memories, x \in Addresses}
Places     == {[address |-> x] : x \in Addresses}
Answers    == Candidates \cup Places

Ascends(f) == \A j, k \in DOMAIN f : j < k => f[j].address < f[k].address

\* x is in the answer f, or beyond the end of a full one.
Reached(f, max, x) ==
    \/ \E k \in DOMAIN f : f[k].address = x
    \/ Len(f) = max /\ x > f[Len(f)].address

LEMMA AnswersHaveAddresses ==
    ASSUME NEW r \in Answers
    PROVE  r.address \in Addresses /\ r.address \in Nat
<1>1. r.address \in Addresses
  <2>1. CASE r \in Candidates
    BY <2>1 DEF Candidates
  <2>2. CASE r \in Places
    BY <2>2 DEF Places
  <2>3. QED
    BY <2>1, <2>2 DEF Answers
<1>2. QED
  BY <1>1, MemoryAssumption DEF Addresses

\* h is the answer f with a later one behind it, cut at the limit: it is ascending,
\* keeps all f has, and of g drops only what is beyond its end.
Extends(h, f, g, max) ==
    /\ h \in Seq(Answers) /\ Len(h) <= max /\ Ascends(h)
    /\ \A k \in DOMAIN h : \/ \E j \in DOMAIN f : h[k] = f[j]
                           \/ \E j \in DOMAIN g : h[k] = g[j]
    /\ \A j \in DOMAIN f : \E k \in DOMAIN h : h[k] = f[j]
    /\ \A j \in DOMAIN g : \/ \E k \in DOMAIN h : h[k] = g[j]
                           \/ Len(h) = max /\ g[j].address > h[Len(h)].address

LEMMA CutExtends ==
    ASSUME NEW f \in Seq(Answers), NEW g \in Seq(Answers), NEW max \in Nat, Len(f) < max,
           Ascends(f), Ascends(g),
           \A j \in DOMAIN f, k \in DOMAIN g : f[j].address < g[k].address,
           NEW h, h = Cut(f \o g, max)
    PROVE  Extends(h, f, g, max)
<1> DEFINE all == f \o g
           a   == Len(f)
           b   == Len(g)
           n   == IF a + b > max THEN max ELSE a + b
<1>1. /\ a \in Nat /\ b \in Nat /\ DOMAIN f = 1..a /\ DOMAIN g = 1..b
      /\ n \in Nat /\ n <= max /\ n <= a + b /\ a <= n /\ (n < a + b => n = max)
  BY LenProperties
<1>2. /\ all \in Seq(Answers) /\ Len(all) = a + b
      /\ \A i \in 1..a : all[i] = f[i]
      /\ \A i \in a+1..a+b : all[i] = g[i - a]
  <2>1. /\ all \in Seq(Answers) /\ Len(all) = a + b
        /\ \A i \in 1..a + b : all[i] = IF i <= a THEN f[i] ELSE g[i - a]
    BY ConcatProperties
  <2>2. QED
    BY <1>1, <2>1
<1> HIDE DEF all
<1>3. \A i \in 1..a+b : all[i] \in Answers
  BY <1>1, <1>2, ElementOfSeq
<1>4. /\ h \in Seq(Answers) /\ Len(h) = n /\ DOMAIN h = 1..n
      /\ \A i \in 1..n : h[i] = all[i]
  <2>1. CASE a + b > max
    <3>1. h = SubSeq(all, 1, max)
      BY <1>1, <1>2, <2>1 DEF Cut, all
    <3>2. \A i \in 1..max : all[i] \in Answers
      BY <1>1, <1>3, <2>1
    <3>3. /\ h \in Seq(Answers) /\ Len(h) = IF 1 <= max THEN max - 1 + 1 ELSE 0
          /\ \A i \in 1..max - 1 + 1 : h[i] = all[1 + i - 1]
      BY <3>1, <3>2, SubSeqProperties
    <3>4. Len(h) = max /\ \A i \in 1..max : h[i] = all[i]
      BY <1>1, <3>3
    <3>5. QED
      BY <2>1, <3>3, <3>4, LenProperties
  <2>2. CASE ~(a + b > max)
    <3>1. h = all
      BY <1>1, <1>2, <2>2 DEF Cut, all
    <3>2. QED
      BY <1>2, <2>2, <3>1, LenProperties
  <2>3. QED
    BY <2>1, <2>2
<1> HIDE DEF n
<1>5. \A j, k \in 1..a+b : j < k => all[j].address < all[k].address
  <2>1. SUFFICES ASSUME NEW j \in 1..a+b, NEW k \in 1..a+b, j < k
                 PROVE  all[j].address < all[k].address
    OBVIOUS
  <2>2. CASE k <= a
    <3>1. j \in DOMAIN f /\ k \in DOMAIN f /\ all[j] = f[j] /\ all[k] = f[k]
      BY <1>1, <1>2, <2>1, <2>2
    <3>2. QED
      BY <2>1, <3>1 DEF Ascends
  <2>3. CASE j <= a /\ k > a
    <3>1. j \in DOMAIN f /\ k - a \in DOMAIN g /\ all[j] = f[j] /\ all[k] = g[k - a]
      BY <1>1, <1>2, <2>1, <2>3
    <3>2. QED
      BY <3>1
  <2>4. CASE j > a
    <3>1. /\ j - a \in DOMAIN g /\ k - a \in DOMAIN g /\ j - a < k - a
          /\ all[j] = g[j - a] /\ all[k] = g[k - a]
      BY <1>1, <1>2, <2>1, <2>4
    <3>2. QED
      BY <3>1 DEF Ascends
  <2>5. QED
    BY <1>1, <2>1, <2>2, <2>3, <2>4
<1>6. Ascends(h)
  <2>1. SUFFICES ASSUME NEW j \in DOMAIN h, NEW k \in DOMAIN h, j < k
                 PROVE  h[j].address < h[k].address
    BY DEF Ascends
  <2>2. j \in 1..n /\ k \in 1..n
    BY <1>4
  <2>3. j \in 1..a+b /\ k \in 1..a+b
    BY ONLY <1>1, <2>2
  <2>4. QED
    BY <1>4, <1>5, <2>1, <2>2, <2>3
<1>7. \A k \in DOMAIN h : \/ \E j \in DOMAIN f : h[k] = f[j]
                          \/ \E j \in DOMAIN g : h[k] = g[j]
  <2>1. TAKE k \in DOMAIN h
  <2>2. k \in 1..a \/ (k \in a+1..a+b /\ k - a \in 1..b)
    BY <1>1, <1>4
  <2>3. QED
    BY <1>1, <1>2, <1>4, <2>2
<1>8. \A j \in DOMAIN f : \E k \in DOMAIN h : h[k] = f[j]
  <2>1. TAKE j \in DOMAIN f
  <2>2. j \in DOMAIN h /\ h[j] = f[j]
    BY <1>1, <1>2, <1>4
  <2>3. QED
    BY <2>2
<1>9. \A j \in DOMAIN g : \/ \E k \in DOMAIN h : h[k] = g[j]
                          \/ Len(h) = max /\ g[j].address > h[Len(h)].address
  <2>1. TAKE j \in DOMAIN g
  <2>2. a + j \in a+1..a+b /\ all[a + j] = g[j]
    <3>1. a + j \in a+1..a+b /\ a + j - a = j
      BY <1>1
    <3>2. QED
      BY <1>2, <3>1
  <2>3. CASE a + j <= n
    <3>1. a + j \in DOMAIN h /\ h[a + j] = g[j]
      BY <1>1, <1>4, <2>2, <2>3
    <3>2. QED
      BY <3>1
  <2>4. CASE a + j > n
    <3>1. n = max /\ n \in 1..a+b /\ n \in 1..n /\ a + j \in 1..a+b
      BY <1>1, <2>2, <2>4
    <3>2. all[n].address < all[a + j].address
      BY <1>5, <2>4, <3>1
    <3>3. h[n] = all[n]
      BY <1>4, <3>1
    <3>4. h[n].address \in Nat /\ g[j].address \in Nat
      BY <1>3, <2>2, <3>1, <3>3, AnswersHaveAddresses
    <3>5. QED
      BY <1>4, <2>2, <3>1, <3>2, <3>3, <3>4
  <2>5. QED
    BY <1>1, <2>3, <2>4
<1>10. QED
  BY <1>1, <1>4, <1>6, <1>7, <1>8, <1>9 DEF Extends

\* Any w of the n cells from a on are the cells from where they start.
CutOut(m, a, n, w) ==
    \A i \in 1..n-w+1 : SubSeq(Cells(m, a, n), i, i + w - 1) = Cells(m, a + i - 1, w)

LEMMA CellsOfCells ==
    ASSUME NEW m, NEW a \in Nat, NEW n \in Nat, NEW w \in Nat \ {0}
    PROVE  CutOut(m, a, n, w)
<1>0. SUFFICES ASSUME NEW i \in 1..n-w+1
               PROVE  SubSeq(Cells(m, a, n), i, i + w - 1) = Cells(m, a + i - 1, w)
  BY DEF CutOut
<1> DEFINE c == Cells(m, a, n)
           d == SubSeq(c, i, i + w - 1)
           e == Cells(m, a + i - 1, w)
<1>1. i \in Int /\ i + w - 1 \in Int /\ i <= i + w - 1 /\ (i + w - 1) - i + 1 = w
  OBVIOUS
<1>2. \A j \in i..i + w - 1 : c[j] \in {c[l] : l \in 1..n}
  OBVIOUS
<1>3. /\ d \in Seq({c[l] : l \in 1..n}) /\ Len(d) = w
      /\ \A j \in 1..w : d[j] = c[i + j - 1]
  BY <1>1, <1>2, SubSeqProperties
<1>4. DOMAIN d = 1..w /\ d = [j \in 1..w |-> d[j]]
  BY <1>3, LenProperties
<1>5. \A j \in 1..w : c[i + j - 1] = m[(a + i - 1) + j - 1]
  <2>1. TAKE j \in 1..w
  <2>2. i + j - 1 \in 1..n /\ a + (i + j - 1) - 1 = (a + i - 1) + j - 1
    OBVIOUS
  <2>3. c[i + j - 1] = m[a + (i + j - 1) - 1]
    BY <2>2 DEF Cells
  <2>4. QED
    BY <2>2, <2>3
<1>6. e = [j \in 1..w |-> m[(a + i - 1) + j - 1]]
  BY DEF Cells
<1> HIDE DEF c, d, e
<1>7. d = e
  BY <1>3, <1>4, <1>5, <1>6
<1>8. QED
  BY <1>7 DEF c, d, e

\* g has, in the order of their addresses, exactly the aligned values in the n cells
\* from a on that match.
ChunkAnswer(g, s, m, a, n) ==
    /\ g \in Seq(Answers) /\ Ascends(g)
    /\ \A k \in DOMAIN g :
         /\ g[k].address \in a..a + n - Width /\ g[k].address % s.align = 0
         /\ Hit(s, m, g[k].address) /\ g[k].value = ValueAt(m, g[k].address)
    /\ \A x \in a..a + n - Width :
         x % s.align = 0 /\ Matches(s, ValueAt(m, x))
           => \E k \in DOMAIN g : g[k].address = x

LEMMA InChunkFacts ==
    ASSUME NEW m \in Memories, NEW s, NEW a \in Addresses, NEW n \in Nat,
           a + n <= Top + 1, Mapped(m, a, n),
           NEW g, g = InChunk(s, a, Cells(m, a, n))
    PROVE  ChunkAnswer(g, s, m, a, n)
<1> DEFINE bytes    == Cells(m, a, n)
           value(i) == ValueOf(SubSeq(bytes, i, i + Width - 1))
           hits     == {i \in 1..Len(bytes)-Width+1 :
                          (a + i - 1) % s.align = 0 /\ Matches(s, value(i))}
           order    == Ascending(hits)
           size     == Cardinality(hits)
<1>1. a \in Nat /\ Width \in Nat \ {0} /\ Top \in Nat
  BY SessionAssumption, MemoryAssumption DEF Addresses
<1>2. Len(bytes) = n
  <2>1. bytes \in [1..n -> {m[a + i - 1] : i \in 1..n}]
    BY DEF Cells
  <2>2. QED
    BY <2>1, FunctionIsSequence
<1>3. \A i \in 1..n-Width+1 : value(i) = ValueAt(m, a + i - 1)
  <2>1. CutOut(m, a, n, Width)
    BY ONLY <1>1, n \in Nat, CellsOfCells
  <2>2. QED
    BY <2>1 DEF CutOut, ValueAt
<1>4. hits = {i \in 1..n-Width+1 : (a + i - 1) % s.align = 0 /\ Matches(s, ValueAt(m, a + i - 1))}
  BY <1>2, <1>3
<1>5. g = [k \in DOMAIN order |-> [address |-> a + order[k] - 1, value |-> value(order[k])]]
  BY DEF InChunk
<1> HIDE DEF value, hits
<1>6. hits \subseteq 1..n-Width+1 /\ hits \subseteq Int /\ IsFiniteSet(hits)
  <2>1. hits \in SUBSET (1..n-Width+1) /\ n - Width + 1 \in Int
    BY <1>1, <1>4
  <2>2. IsFiniteSet(1..n-Width+1)
    BY <2>1, FS_Interval
  <2>3. IsFiniteSet(hits)
    BY <2>1, <2>2, FS_Subset
  <2>4. \A i \in hits : i \in 1..n-Width+1 /\ i \in Int
    BY <2>1
  <2>5. QED
    BY <2>3, <2>4
<1>7. /\ size \in Nat /\ order \in [1..size -> hits]
      /\ \A j, k \in 1..size : j < k => order[j] < order[k]
      /\ \A x \in hits : \E k \in 1..size : order[k] = x
  BY <1>6, AscendingEnumerates
<1> HIDE DEF order, size, bytes
<1>8. /\ g = [k \in 1..size |-> [address |-> a + order[k] - 1,
                                value |-> ValueAt(m, a + order[k] - 1)]]
      /\ DOMAIN g = 1..size
  <2>1. \A k \in 1..size : value(order[k]) = ValueAt(m, a + order[k] - 1)
    BY <1>3, <1>6, <1>7
  <2>2. DOMAIN order = 1..size
    BY <1>7
  <2>3. QED
    BY <1>5, <2>1, <2>2
<1>9. \A k \in 1..size : /\ order[k] \in 1..n-Width+1 /\ order[k] \in hits
                         /\ a + order[k] - 1 \in a..a + n - Width
                         /\ a + order[k] - 1 \in Addresses
                         /\ g[k] = [address |-> a + order[k] - 1,
                                    value |-> ValueAt(m, a + order[k] - 1)]
                         /\ g[k].address = a + order[k] - 1
                         /\ g[k].value = ValueAt(m, a + order[k] - 1)
  <2>1. TAKE k \in 1..size
  <2>2. order[k] \in 1..n-Width+1 /\ order[k] \in hits
    BY <1>6, <1>7
  <2>3. a + order[k] - 1 \in a..a + n - Width /\ a + order[k] - 1 \in Addresses
    BY <1>1, <2>2 DEF Addresses
  <2>4. g[k] = [address |-> a + order[k] - 1, value |-> ValueAt(m, a + order[k] - 1)]
    BY <1>8
  <2>5. QED
    BY <2>2, <2>3, <2>4
<1>10. g \in Seq(Answers)
  <2>1. \A k \in 1..size : g[k] \in Answers
    <3>1. TAKE k \in 1..size
    <3> DEFINE x == a + order[k] - 1
    <3>2. x \in Addresses /\ g[k] = [address |-> x, value |-> ValueAt(m, x)]
      BY <1>9
    <3> HIDE DEF x
    <3>3. g[k] \in Candidates
      BY <3>2 DEF Candidates
    <3>4. QED
      BY <3>3 DEF Answers
  <2>2. g \in [1..size -> Answers]
    BY <1>8, <2>1
  <2>3. QED
    BY <1>7, <2>2, FunctionIsSequence
<1>11. Ascends(g)
  <2>1. SUFFICES ASSUME NEW j \in 1..size, NEW k \in 1..size, j < k
                 PROVE  g[j].address < g[k].address
    BY <1>8 DEF Ascends
  <2>2. order[j] < order[k]
    BY <1>7, <2>1
  <2>3. order[j] \in 1..n-Width+1 /\ order[k] \in 1..n-Width+1
    BY <1>9
  <2>4. g[j].address = a + order[j] - 1 /\ g[k].address = a + order[k] - 1
    BY <1>9
  <2>5. QED
    BY ONLY <1>1, <2>2, <2>3, <2>4
<1>12. \A k \in DOMAIN g :
         /\ g[k].address \in a..a + n - Width /\ g[k].address % s.align = 0
         /\ Hit(s, m, g[k].address) /\ g[k].value = ValueAt(m, g[k].address)
  <2>1. TAKE k \in DOMAIN g
  <2> DEFINE x == a + order[k] - 1
  <2>2. x \in a..a + n - Width /\ g[k].address = x /\ g[k].value = ValueAt(m, x)
    BY <1>8, <1>9
  <2>3. x % s.align = 0 /\ Matches(s, ValueAt(m, x))
    BY <1>4, <1>8, <1>9
  <2> HIDE DEF x
  <2>4. Mapped(m, x, Width)
    <3>1. \A i \in x..x + Width - 1 : i \in a..a + n - 1
      BY <1>1, <2>2
    <3>2. QED
      BY <3>1 DEF Mapped
  <2>5. QED
    BY <2>2, <2>3, <2>4 DEF Hit
<1>13. ASSUME NEW x \in a..a + n - Width, x % s.align = 0, Matches(s, ValueAt(m, x))
       PROVE  \E k \in DOMAIN g : g[k].address = x
  <2>1. x - a + 1 \in 1..n-Width+1 /\ a + (x - a + 1) - 1 = x
    BY <1>1
  <2>2. x - a + 1 \in hits
    BY <1>4, <1>13, <2>1
  <2>3. PICK k \in 1..size : order[k] = x - a + 1
    BY <1>7, <2>2
  <2>4. g[k].address = x
    BY <1>9, <2>1, <2>3
  <2>5. QED
    BY <1>8, <2>4
<1>14. QED
  BY <1>10, <1>11, <1>12, <1>13 DEF ChunkAnswer

LEMMA Quotient ==
    ASSUME NEW x \in Nat, NEW d \in Nat \ {0}
    PROVE  /\ x \div d \in Nat
           /\ (x \div d) * d <= x /\ x < (x \div d) * d + d
           /\ \A q \in Nat : q * d <= x /\ x < q * d + d => x \div d = q
<1> DEFINE y == x \div d
<1>1. y \in Nat /\ y * d <= x /\ x < y * d + d
  BY Z3
<1> HIDE DEF y
<1>2. ASSUME NEW q \in Nat, q * d <= x, x < q * d + d
      PROVE  y = q
  <2>1. CASE y >= q + 1
    <3>1. y * d >= (q + 1) * d
      BY <1>1, <2>1
    <3>2. (q + 1) * d = q * d + d
      OBVIOUS
    <3>3. QED
      BY <1>1, <1>2, <3>1, <3>2
  <2>2. CASE q >= y + 1
    <3>1. q * d >= (y + 1) * d
      BY <1>1, <2>2
    <3>2. (y + 1) * d = y * d + d
      BY <1>1
    <3>3. QED
      BY <1>1, <1>2, <3>1, <3>2
  <2>3. QED
    BY <1>1, <2>1, <2>2
<1>3. QED
  BY <1>1, <1>2 DEF y

-----------------------------------------------------------------------------
(* first_scan: how far a scan s is, the memories ms having been there since it *)
(* began.                                                                      *)

FirstWitness(s, ms, r) ==
    /\ r.address \in s.start..s.start + s.range - Width /\ r.address % s.align = 0
    /\ \E m \in ms : Hit(s, m, r.address) /\ ValueAt(m, r.address) = r.value

\* ms held all the time, at x, what s asks for, in a chunk that could be read.
FirstHeld(s, ms, x) ==
    LET from == ((x - s.start) \div Chunk) * Chunk
    IN /\ x % s.align = 0 /\ InOneChunk(s, x)
       /\ \A m \in ms : Mapped(m, s.start + from, ChunkLength(s.range, from, Chunk))
       /\ \A m \in ms : Hit(s, m, x)

FirstState(s, at, f, ms) ==
    /\ at \in 0..s.range /\ (at = s.range \/ \E q \in Nat : at = q * Chunk)
    /\ f \in Seq(Answers) /\ Ascends(f) /\ Len(f) <= s.max
    /\ \A k \in DOMAIN f : FirstWitness(s, ms, f[k]) /\ f[k].address < s.start + at
    /\ \A x \in s.start..s.start + s.range - Width :
         x < s.start + at /\ FirstHeld(s, ms, x) => Reached(f, s.max, x)

LEMMA FirstArgs ==
    ASSUME NEW s \in FirstScans, FirstFault(s) = "none"
    PROVE  /\ s.start \in Nat \ {0} /\ s.range \in Nat \ {0} /\ s.max \in Nat \ {0}
           /\ s.start + s.range <= Top /\ Top \in Nat
           /\ Chunk \in Nat \ {0} /\ Chunk <= MaxSize /\ MaxSize \in Nat
           /\ Width \in Nat \ {0} /\ Width <= Chunk
<1>1. s.start \in Nat /\ s.range \in Nat /\ s.max \in Nat
  BY ScanAssumption
<1>2. s.start # 0 /\ s.range # 0 /\ s.max # 0 /\ ~(s.start > Top - s.range)
  BY DEF FirstFault
<1>3. Top \in Nat /\ MaxSize \in 1..Top /\ Width \in 1..MaxSize /\ Chunk \in Width..MaxSize
  BY MemoryAssumption, SessionAssumption, ScanAssumption
<1>4. QED
  BY <1>1, <1>2, <1>3

\* One chunk more, read or passed over.
LEMMA FirstChunkStep ==
    ASSUME NEW s \in FirstScans, FirstFault(s) = "none", NEW at, NEW f, NEW ms,
           FirstState(s, at, f, ms), at < s.range, Len(f) < s.max,
           NEW m \in ms, m \in Memories,
           NEW size, size = ChunkLength(s.range, at, Chunk),
           NEW g, g = IF Read(m, s.start + at, size).fail = "none"
                      THEN InChunk(s, s.start + at, Read(m, s.start + at, size).bytes)
                      ELSE <<>>
    PROVE  FirstState(s, at + size, Cut(f \o g, s.max), ms)
<1> DEFINE a == s.start + at
           h == Cut(f \o g, s.max)
           r == Read(m, a, size)
<1>1. /\ s.start \in Nat \ {0} /\ s.range \in Nat \ {0} /\ s.max \in Nat \ {0}
      /\ s.start + s.range <= Top /\ Top \in Nat
      /\ Chunk \in Nat \ {0} /\ Chunk <= MaxSize /\ MaxSize \in Nat
      /\ Width \in Nat \ {0} /\ Width <= Chunk
  BY FirstArgs
<1>2. /\ at \in 0..s.range /\ (at = s.range \/ \E q \in Nat : at = q * Chunk)
      /\ f \in Seq(Answers) /\ Ascends(f)
      /\ \A k \in DOMAIN f : FirstWitness(s, ms, f[k]) /\ f[k].address < s.start + at
      /\ \A x \in s.start..s.start + s.range - Width :
           x < s.start + at /\ FirstHeld(s, ms, x) => Reached(f, s.max, x)
  BY DEF FirstState
<1>0. at \in Nat
  BY <1>1, <1>2
<1>3. PICK q \in Nat : at = q * Chunk
  BY <1>1, <1>2
<1>4. /\ size \in 1..Chunk /\ at + size <= s.range
      /\ (at + size = s.range \/ size = Chunk)
  <2>1. size = IF s.range - at < Chunk THEN s.range - at ELSE Chunk
    BY DEF ChunkLength
  <2>2. QED
    BY ONLY <1>0, <1>1, <2>1, at < s.range
<1>5. /\ a \in Addresses /\ a \in Nat /\ size \in Nat /\ size \in 1..MaxSize
      /\ a + size <= Top
  <2>1. /\ s.start + at \in Nat /\ (s.start + at) + size <= Top
        /\ size \in Nat /\ size \in 1..MaxSize /\ s.start + at \in 0..Top
    BY ONLY <1>0, <1>1, <1>4
  <2>2. QED
    BY <2>1 DEF Addresses
<1>6. at + size \in 0..s.range /\ (at + size = s.range \/ \E p \in Nat : at + size = p * Chunk)
  <2>1. CASE at + size = s.range
    BY <1>1, <2>1
  <2>2. CASE size = Chunk
    <3>1. at + size = (q + 1) * Chunk /\ q + 1 \in Nat
      BY <1>1, <1>3, <2>2
    <3>2. at + size \in 0..s.range
      BY ONLY <1>1, <1>0, <1>4
    <3>3. QED
      BY ONLY <3>1, <3>2
  <2>3. QED
    BY <1>4, <2>1, <2>2
<1>7. r.fail = "none" => ChunkAnswer(g, s, m, a, size)
  <2>1. SUFFICES ASSUME r.fail = "none"
                 PROVE  ChunkAnswer(g, s, m, a, size)
    OBVIOUS
  <2>2. Mapped(m, a, size) /\ g = InChunk(s, a, Cells(m, a, size)) /\ a + size <= Top + 1
    BY <1>1, <1>5, <2>1, ReadFacts
  <2> HIDE DEF a, r
  <2>3. QED
    BY ONLY <1>5, <2>2, m \in Memories, InChunkFacts
<1>8. r.fail # "none" => g = <<>>
  OBVIOUS
<1> HIDE DEF r
<1>9. /\ g \in Seq(Answers) /\ Ascends(g)
      /\ \A k \in DOMAIN g :
           /\ g[k].address \in a..a + size - Width /\ g[k].address % s.align = 0
           /\ Hit(s, m, g[k].address) /\ g[k].value = ValueAt(m, g[k].address)
  <2>1. CASE r.fail = "none"
    BY ONLY <1>7, <2>1 DEF ChunkAnswer
  <2>2. CASE r.fail # "none"
    <3>0. g = <<>>
      BY ONLY <1>8, <2>2
    <3>1. g \in Seq(Answers) /\ Len(g) = 0
      BY ONLY <3>0
    <3>2. DOMAIN g = {}
      BY ONLY <3>1, LenProperties
    <3>3. QED
      BY ONLY <3>1, <3>2 DEF Ascends
  <2>3. QED
    BY <2>1, <2>2
<1>10. \A j \in DOMAIN f, k \in DOMAIN g : f[j].address < g[k].address
  <2>1. TAKE j \in DOMAIN f, k \in DOMAIN g
  <2>2. f[j].address < a /\ f[j] \in Answers
    BY <1>2, LenProperties, ElementOfSeq
  <2>3. f[j].address \in Nat /\ g[k].address >= a /\ g[k].address \in Int
    BY <1>5, <1>9, <2>2, AnswersHaveAddresses
  <2>4. QED
    BY <1>5, <2>2, <2>3
<1>11. /\ h \in Seq(Answers) /\ Len(h) <= s.max /\ Ascends(h)
       /\ \A k \in DOMAIN h : \/ \E j \in DOMAIN f : h[k] = f[j]
                              \/ \E j \in DOMAIN g : h[k] = g[j]
       /\ \A j \in DOMAIN f : \E k \in DOMAIN h : h[k] = f[j]
       /\ \A j \in DOMAIN g : \/ \E k \in DOMAIN h : h[k] = g[j]
                              \/ Len(h) = s.max /\ g[j].address > h[Len(h)].address
  <2>1. f \in Seq(Answers) /\ Ascends(f)
    BY <1>2
  <2>2. g \in Seq(Answers) /\ Ascends(g)
    BY <1>9
  <2>3. Extends(h, f, g, s.max)
    BY ONLY <1>1, <1>10, <2>1, <2>2, Len(f) < s.max, CutExtends
  <2>4. QED
    BY ONLY <2>3 DEF Extends
<1> HIDE DEF h
<1>12. \A k \in DOMAIN h : FirstWitness(s, ms, h[k]) /\ h[k].address < s.start + (at + size)
  <2>1. TAKE k \in DOMAIN h
  <2>2. ASSUME NEW j \in DOMAIN f, h[k] = f[j]
        PROVE  FirstWitness(s, ms, h[k]) /\ h[k].address < s.start + (at + size)
    <3>1. FirstWitness(s, ms, f[j]) /\ f[j].address < a /\ f[j] \in Answers
      BY <1>2, LenProperties, ElementOfSeq
    <3>2. f[j].address \in Nat
      BY <3>1, AnswersHaveAddresses
    <3>3. QED
      BY ONLY <1>1, <1>0, <1>4, <1>5, <2>2, <3>1, <3>2
  <2>3. ASSUME NEW j \in DOMAIN g, h[k] = g[j]
        PROVE  FirstWitness(s, ms, h[k]) /\ h[k].address < s.start + (at + size)
    <3>1. /\ g[j].address \in a..a + size - Width /\ g[j].address % s.align = 0
          /\ Hit(s, m, g[j].address) /\ g[j].value = ValueAt(m, g[j].address)
      BY <1>9
    <3>2. g[j].address \in s.start..s.start + s.range - Width
      BY ONLY <1>1, <1>0, <1>4, <1>5, <3>1
    <3>3. g[j].address < s.start + (at + size)
      BY ONLY <1>1, <1>0, <1>4, <1>5, <3>1
    <3>4. QED
      BY <2>3, <3>1, <3>2, <3>3 DEF FirstWitness
  <2>4. QED
    BY <1>11, <2>2, <2>3
<1>13. ASSUME NEW x \in s.start..s.start + s.range - Width,
              x < s.start + (at + size), FirstHeld(s, ms, x)
       PROVE  Reached(h, s.max, x)
  <2>1. CASE x < s.start + at
    <3>1. Reached(f, s.max, x)
      BY <1>2, <1>13, <2>1
    <3>2. PICK k \in DOMAIN f : f[k].address = x
      BY <3>1, LenProperties DEF Reached
    <3>3. \E j \in DOMAIN h : h[j] = f[k]
      BY <1>11
    <3>4. QED
      BY <3>2, <3>3 DEF Reached
  <2>2. CASE x >= s.start + at
    <3> DEFINE y == x - s.start
    <3>1. /\ y \in Nat /\ y + Width - 1 \in Nat /\ q * Chunk <= y /\ y < q * Chunk + Chunk
          /\ q * Chunk \in Nat
      BY ONLY <1>1, <1>0, <1>3, <1>4, <1>13, <2>2
    <3>2. y \div Chunk = q
      BY <1>1, <3>1, Quotient
    <3>3. (y + Width - 1) \div Chunk = q
      <4>1. y + Width - 1 = x + Width - 1 - s.start
        BY ONLY <1>1, <1>13
      <4>2. (x - s.start) \div Chunk = (x + Width - 1 - s.start) \div Chunk
        BY ONLY <1>13 DEF FirstHeld, InOneChunk
      <4>3. QED
        BY ONLY <3>2, <4>1, <4>2
    <3>4. y + Width - 1 < q * Chunk + Chunk
      BY <1>1, <3>1, <3>3, Quotient
    <3>5. x \in a..a + size - Width
      BY ONLY <1>1, <1>0, <1>3, <1>4, <1>13, <2>2, <3>4
    <3>6. Mapped(m, a, size) /\ Hit(s, m, x) /\ x % s.align = 0
      BY <1>3, <1>13, <3>2 DEF FirstHeld
    <3>7. r.fail = "none"
      BY <1>5, <3>6, ReadFacts DEF r
    <3>8. PICK k \in DOMAIN g : g[k].address = x
      <4>1. Matches(s, ValueAt(m, x)) /\ x % s.align = 0
        BY ONLY <3>6 DEF Hit
      <4>2. QED
        BY ONLY <1>7, <3>5, <3>7, <4>1 DEF ChunkAnswer
    <3>9. \/ \E j \in DOMAIN h : h[j] = g[k]
          \/ Len(h) = s.max /\ g[k].address > h[Len(h)].address
      BY <1>11
    <3>10. QED
      BY <3>8, <3>9 DEF Reached
  <2>3. QED
    BY <1>1, <1>2, <1>13, <2>1, <2>2
<1>14. QED
  BY <1>6, <1>11, <1>12, <1>13 DEF FirstState, h

LEMMA FirstStarts ==
    ASSUME NEW s \in FirstScans, FirstFault(s) = "none", NEW ms
    PROVE  FirstState(s, 0, <<>>, ms)
<1>1. /\ s.start \in Nat \ {0} /\ s.range \in Nat \ {0} /\ s.max \in Nat \ {0}
      /\ Chunk \in Nat \ {0} /\ Width \in Nat \ {0}
  BY FirstArgs
<1>2. 0 \in 0..s.range /\ 0 = 0 * Chunk
  BY <1>1
<1>3. <<>> \in Seq(Answers) /\ Len(<<>>) = 0 /\ DOMAIN <<>> = {}
  OBVIOUS
<1>4. \A x \in s.start..s.start + s.range - Width : ~(x < s.start + 0)
  BY <1>1
<1>5. QED
  BY <1>1, <1>2, <1>3, <1>4 DEF FirstState, Ascends

LEMMA FirstGrows ==
    ASSUME NEW s, NEW at, NEW f, NEW ms, NEW more, ms \subseteq more, FirstState(s, at, f, ms)
    PROVE  FirstState(s, at, f, more)
<1>1. \A r : FirstWitness(s, ms, r) => FirstWitness(s, more, r)
  BY DEF FirstWitness
<1>2. \A x : FirstHeld(s, more, x) => FirstHeld(s, ms, x)
  BY DEF FirstHeld
<1>3. QED
  BY <1>1, <1>2 DEF FirstState

\* Nothing that lies behind the end of a scan is wanted.
LEMMA FirstEnds ==
    ASSUME NEW s \in FirstScans, FirstFault(s) = "none", NEW at, NEW f, NEW ms,
           FirstState(s, at, f, ms),
           at >= s.range \/ s.range - at < Width \/ Len(f) >= s.max,
           NEW x \in s.start..s.start + s.range - Width, FirstHeld(s, ms, x)
    PROVE  Reached(f, s.max, x)
<1>1. /\ s.start \in Nat \ {0} /\ s.range \in Nat \ {0} /\ s.max \in Nat \ {0}
      /\ Width \in Nat \ {0}
  BY FirstArgs
<1>2. /\ at \in 0..s.range /\ f \in Seq(Answers) /\ Len(f) <= s.max /\ Len(f) \in Nat
      /\ \A k \in DOMAIN f : f[k].address < s.start + at
      /\ x < s.start + at => Reached(f, s.max, x)
  BY LenProperties DEF FirstState
<1>3. CASE x < s.start + at
  BY <1>2, <1>3
<1>4. CASE ~(x < s.start + at)
  <2>1. Len(f) >= s.max
    BY <1>1, <1>2, <1>4
  <2>2. Len(f) = s.max /\ Len(f) \in DOMAIN f
    BY <1>1, <1>2, <2>1, LenProperties
  <2>3. f[Len(f)].address < s.start + at /\ f[Len(f)].address \in Nat
    BY <1>2, <2>2, LenProperties, ElementOfSeq, AnswersHaveAddresses
  <2>4. x > f[Len(f)].address
    BY <1>1, <1>2, <1>4, <2>3
  <2>5. QED
    BY <2>2, <2>4 DEF Reached
<1>5. QED
  BY <1>3, <1>4

-----------------------------------------------------------------------------
(* scan_aob: s is the call's arguments, with the pattern it parsed. *)

AobState(s, at, f, ms) ==
    /\ at \in 0..s.length
    /\ f \in Seq(Answers) /\ Ascends(f) /\ Len(f) <= s.max
    /\ \A k \in DOMAIN f :
         /\ f[k].address < s.start + at
         /\ f[k].address + Len(s.pattern) <= s.start + s.length
         /\ \E m \in ms : AobHit(s, m, f[k].address)
    /\ \A x \in s.start..s.start + s.length - Len(s.pattern) :
         x < s.start + at /\ (\A m \in ms : AobHit(s, m, x)) => Reached(f, s.max, x)

\* The arguments of a scan that was not refused.
AobArgs(s) ==
    /\ s.start \in Nat /\ s.length \in Nat \ {0} /\ s.max \in Nat \ {0}
    /\ s.start + s.length <= Top
    /\ s.pattern \in Seq(Int) /\ Len(s.pattern) \in Nat \ {0}

\* g has, in the order of their addresses, exactly the places in the n cells from a
\* on where the pattern is.
PatternAnswer(g, s, m, a, n) ==
    /\ g \in Seq(Answers) /\ Ascends(g)
    /\ \A k \in DOMAIN g :
         g[k].address \in a..a + n - Len(s.pattern) /\ AobHit(s, m, g[k].address)
    /\ \A x \in a..a + n - Len(s.pattern) :
         AobHit(s, m, x) => \E k \in DOMAIN g : g[k].address = x

LEMMA PatternFacts ==
    ASSUME NEW m \in Memories, NEW s, AobArgs(s), NEW a \in Addresses, NEW n \in Nat,
           a + n <= Top + 1, Mapped(m, a, n),
           NEW bytes, bytes = Cells(m, a, n),
           NEW order, order = Ascending({i \in 1..Len(bytes)-Len(s.pattern)+1 :
                                            PatternAt(s.pattern, bytes, i)})
    PROVE  PatternAnswer([k \in DOMAIN order |-> [address |-> a + order[k] - 1]], s, m, a, n)
<1> DEFINE w    == Len(s.pattern)
           hits == {i \in 1..Len(bytes)-w+1 : PatternAt(s.pattern, bytes, i)}
           size == Cardinality(hits)
           g    == [k \in DOMAIN order |-> [address |-> a + order[k] - 1]]
<1>1. /\ a \in Nat /\ Top \in Nat /\ w \in Nat \ {0} /\ DOMAIN s.pattern = 1..w
  BY MemoryAssumption, LenProperties DEF Addresses, AobArgs
<1> HIDE DEF w
<1>2. Len(bytes) = n
  <2>1. bytes \in [1..n -> {m[a + i - 1] : i \in 1..n}]
    BY DEF Cells
  <2>2. QED
    BY <2>1, FunctionIsSequence
<1>3. \A i \in 1..n-w+1 : PatternAt(s.pattern, bytes, i) <=> AobHit(s, m, a + i - 1)
  <2>1. TAKE i \in 1..n-w+1
  <2> DEFINE x == a + i - 1
  <2>2. Mapped(m, x, w)
    <3>1. \A j \in x..x + w - 1 : j \in a..a + n - 1
      BY <1>1
    <3>2. QED
      BY <3>1 DEF Mapped
  <2>3. \A k \in 1..w : bytes[i + k - 1] = m[x + k - 1]
    <3>1. TAKE k \in 1..w
    <3>2. i + k - 1 \in 1..n /\ a + (i + k - 1) - 1 = x + k - 1
      BY ONLY <1>1, i \in 1..n-w+1, n \in Nat, k \in 1..w
    <3>3. bytes[i + k - 1] = m[a + (i + k - 1) - 1]
      BY <3>2 DEF Cells
    <3>4. QED
      BY ONLY <3>2, <3>3
  <2> HIDE DEF x
  <2>4. QED
    BY <1>1, <2>2, <2>3 DEF PatternAt, AobHit, x, w
<1>4. hits = {i \in 1..n-w+1 : AobHit(s, m, a + i - 1)}
  BY <1>2, <1>3
<1>5. order = Ascending(hits)
  BY DEF w
<1> HIDE DEF hits
<1>6. hits \subseteq Int /\ IsFiniteSet(hits) /\ (\A i \in hits : i \in 1..n-w+1)
  <2>1. hits \in SUBSET (1..n-w+1) /\ n - w + 1 \in Int
    BY <1>1, <1>4
  <2>2. IsFiniteSet(1..n-w+1)
    BY <2>1, FS_Interval
  <2>3. IsFiniteSet(hits)
    BY <2>1, <2>2, FS_Subset
  <2>4. \A i \in hits : i \in 1..n-w+1 /\ i \in Int
    BY <2>1
  <2>5. QED
    BY <2>3, <2>4
<1>7. /\ size \in Nat /\ order \in [1..size -> hits] /\ DOMAIN order = 1..size
      /\ \A j, k \in 1..size : j < k => order[j] < order[k]
      /\ \A x \in hits : \E k \in 1..size : order[k] = x
  <2>1. /\ Cardinality(hits) \in Nat
        /\ Ascending(hits) \in [1..Cardinality(hits) -> hits]
        /\ \A j, k \in 1..Cardinality(hits) : j < k => Ascending(hits)[j] < Ascending(hits)[k]
        /\ \A x \in hits : \E k \in 1..Cardinality(hits) : Ascending(hits)[k] = x
    BY ONLY <1>6, AscendingEnumerates
  <2>2. DOMAIN Ascending(hits) = 1..Cardinality(hits)
    BY <2>1
  <2>3. QED
    BY <1>5, <2>1, <2>2, Zenon
<1> HIDE DEF size
<1>8. g = [k \in 1..size |-> [address |-> a + order[k] - 1]] /\ DOMAIN g = 1..size
  BY <1>7
<1>9. \A k \in 1..size : /\ order[k] \in 1..n-w+1 /\ order[k] \in hits
                         /\ a + order[k] - 1 \in a..a + n - w
                         /\ a + order[k] - 1 \in Addresses
                         /\ g[k] = [address |-> a + order[k] - 1]
                         /\ g[k].address = a + order[k] - 1
  <2>1. TAKE k \in 1..size
  <2>2. order[k] \in 1..n-w+1 /\ order[k] \in hits
    BY <1>6, <1>7
  <2>3. a + order[k] - 1 \in a..a + n - w /\ a + order[k] - 1 \in Addresses
    BY <1>1, <2>2 DEF Addresses
  <2>4. g[k] = [address |-> a + order[k] - 1]
    BY <1>8
  <2> HIDE DEF g
  <2>5. QED
    BY <2>2, <2>3, <2>4
<1> HIDE DEF g
<1>10. g \in Seq(Answers)
  <2>1. \A k \in 1..size : g[k] \in Answers
    BY <1>9 DEF Answers, Places
  <2>2. g \in [1..size -> Answers]
    BY <1>8, <2>1
  <2>3. QED
    BY <1>7, <2>2, FunctionIsSequence
<1>11. Ascends(g)
  <2>1. SUFFICES ASSUME NEW j \in 1..size, NEW k \in 1..size, j < k
                 PROVE  g[j].address < g[k].address
    BY <1>8 DEF Ascends
  <2>2. order[j] < order[k]
    BY <1>7, <2>1
  <2>3. order[j] \in 1..n-w+1 /\ order[k] \in 1..n-w+1
    BY <1>9
  <2>4. g[j].address = a + order[j] - 1 /\ g[k].address = a + order[k] - 1
    BY <1>9
  <2>5. QED
    BY ONLY <1>1, <2>2, <2>3, <2>4
<1>12. \A k \in DOMAIN g : g[k].address \in a..a + n - w /\ AobHit(s, m, g[k].address)
  BY <1>4, <1>8, <1>9
<1>13. ASSUME NEW x \in a..a + n - w, AobHit(s, m, x)
       PROVE  \E k \in DOMAIN g : g[k].address = x
  <2>1. x - a + 1 \in 1..n-w+1 /\ a + (x - a + 1) - 1 = x
    BY <1>1
  <2>2. x - a + 1 \in hits
    BY <1>4, <1>13, <2>1
  <2>3. PICK k \in 1..size : order[k] = x - a + 1
    BY <1>7, <2>2
  <2>4. g[k].address = x
    BY <1>9, <2>1, <2>3
  <2>5. QED
    BY <1>8, <2>4
<1>14. PatternAnswer(g, s, m, a, n)
  BY <1>10, <1>11, <1>12, <1>13 DEF PatternAnswer, w
<1>15. QED
  BY <1>14 DEF g

LEMMA AobStarts ==
    ASSUME NEW s, AobArgs(s), NEW ms
    PROVE  AobState(s, 0, <<>>, ms)
<1>1. s.start \in Nat /\ s.length \in Nat /\ s.max \in Nat /\ Len(s.pattern) \in Nat
  BY DEF AobArgs
<1>2. <<>> \in Seq(Answers) /\ Len(<<>>) = 0 /\ DOMAIN <<>> = {}
  OBVIOUS
<1>3. \A x \in s.start..s.start + s.length - Len(s.pattern) : ~(x < s.start + 0)
  BY <1>1
<1>4. QED
  BY <1>1, <1>2, <1>3 DEF AobState, Ascends

LEMMA AobGrows ==
    ASSUME NEW s, NEW at, NEW f, NEW ms, NEW more, ms \subseteq more, AobState(s, at, f, ms)
    PROVE  AobState(s, at, f, more)
  BY DEF AobState

LEMMA AobEnds ==
    ASSUME NEW s, AobArgs(s), NEW at, NEW f, NEW ms, AobState(s, at, f, ms),
           Len(s.pattern) > s.length \/ at >= s.length \/ Len(f) >= s.max,
           NEW x \in s.start..s.start + s.length - Len(s.pattern), \A m \in ms : AobHit(s, m, x)
    PROVE  Reached(f, s.max, x)
<1>1. /\ s.start \in Nat /\ s.length \in Nat \ {0} /\ s.max \in Nat \ {0}
      /\ Len(s.pattern) \in Nat \ {0}
  BY DEF AobArgs
<1>2. /\ at \in 0..s.length /\ f \in Seq(Answers) /\ Len(f) <= s.max /\ Len(f) \in Nat
      /\ \A k \in DOMAIN f : f[k].address < s.start + at
      /\ x < s.start + at => Reached(f, s.max, x)
  BY LenProperties DEF AobState
<1>3. CASE x < s.start + at
  BY <1>2, <1>3
<1>4. CASE ~(x < s.start + at)
  <2>1. Len(f) >= s.max
    BY <1>1, <1>2, <1>4
  <2>2. Len(f) = s.max /\ Len(f) \in DOMAIN f
    BY <1>1, <1>2, <2>1, LenProperties
  <2>3. f[Len(f)].address < s.start + at /\ f[Len(f)].address \in Nat
    BY <1>2, <2>2, LenProperties, ElementOfSeq, AnswersHaveAddresses
  <2>4. x > f[Len(f)].address
    BY <1>1, <1>2, <1>4, <2>3
  <2>5. QED
    BY <2>2, <2>4 DEF Reached
<1>5. QED
  BY <1>3, <1>4

\* One chunk more: with the overlap, no place is passed over and none comes twice.
LEMMA AobChunkStep ==
    ASSUME NEW s, AobArgs(s), NEW at, NEW f, NEW ms,
           AobState(s, at, f, ms), at < s.length, Len(f) < s.max,
           NEW m \in ms, m \in Memories,
           NEW size, size = ChunkLength(s.length, at, Chunk + Len(s.pattern) - 1),
           Read(m, s.start + at, size).fail = "none",
           NEW bytes, bytes = Read(m, s.start + at, size).bytes,
           NEW order, order = Ascending({i \in 1..Len(bytes)-Len(s.pattern)+1 :
                                            PatternAt(s.pattern, bytes, i)})
    PROVE  AobState(s, IF size = s.length - at THEN s.length ELSE at + Chunk,
                    Cut(f \o [k \in DOMAIN order |->
                                [address |-> s.start + at + order[k] - 1]], s.max), ms)
<1> DEFINE a    == s.start + at
           w    == Len(s.pattern)
           g    == [k \in DOMAIN order |-> [address |-> a + order[k] - 1]]
           h    == Cut(f \o g, s.max)
           then == IF size = s.length - at THEN s.length ELSE at + Chunk
<1>1. /\ s.start \in Nat /\ s.length \in Nat \ {0} /\ s.max \in Nat \ {0}
      /\ s.start + s.length <= Top /\ Top \in Nat /\ w \in Nat \ {0} /\ Chunk \in Nat \ {0}
  BY MemoryAssumption, SessionAssumption, ScanAssumption DEF AobArgs
<1> HIDE DEF w
<1>2. /\ at \in 0..s.length /\ at \in Nat
      /\ f \in Seq(Answers) /\ Ascends(f)
      /\ \A k \in DOMAIN f :
           /\ f[k].address < a
           /\ f[k].address + w <= s.start + s.length
           /\ \E n \in ms : AobHit(s, n, f[k].address)
      /\ \A x \in s.start..s.start + s.length - w :
           x < a /\ (\A n \in ms : AobHit(s, n, x)) => Reached(f, s.max, x)
  BY <1>1 DEF AobState, w
<1>3. size = IF s.length - at < Chunk + w - 1 THEN s.length - at ELSE Chunk + w - 1
  BY DEF ChunkLength, w
<1>4. /\ size \in Nat \ {0} /\ at + size <= s.length
      /\ then \in 0..s.length /\ at <= then /\ at + size - w < then
      /\ \A y \in Nat : y < then /\ y <= s.length - w => y <= at + size - w
  <2>1. at \in Nat /\ at < s.length
    BY <1>2
  <2>2. CASE size = s.length - at
    <3>1. then = s.length
      BY <2>2
    <3>2. QED
      BY ONLY <1>1, <2>1, <2>2, <3>1
  <2>3. CASE size # s.length - at
    <3>1. then = at + Chunk /\ size = Chunk + w - 1 /\ ~(s.length - at < Chunk + w - 1)
      BY <1>3, <2>3
    <3>2. QED
      BY ONLY <1>1, <2>1, <2>3, <3>1
  <2>4. QED
    BY ONLY <2>2, <2>3
<1> HIDE DEF then
<1>5. a \in Addresses /\ a \in Nat /\ a + size <= Top + 1
  <2>1. at \in Nat /\ size \in Nat /\ at + size <= s.length
    BY <1>2, <1>4
  <2>2. QED
    BY ONLY <1>1, <2>1 DEF Addresses
<1>6. Mapped(m, a, size) /\ bytes = Cells(m, a, size)
  BY <1>4, <1>5, ReadFacts
<1>7. PatternAnswer(g, s, m, a, size)
  <2> HIDE DEF a
  <2>1. Read(m, a, size).fail = "none"
    BY DEF a
  <2>2. QED
    BY ONLY <1>4, <1>5, <1>6, m \in Memories, AobArgs(s), PatternFacts,
       order = Ascending({i \in 1..Len(bytes)-Len(s.pattern)+1 : PatternAt(s.pattern, bytes, i)})
<1> HIDE DEF g, h
<1>8. /\ g \in Seq(Answers) /\ Ascends(g)
      /\ \A k \in DOMAIN g : g[k].address \in a..a + size - w /\ AobHit(s, m, g[k].address)
      /\ \A x \in a..a + size - w : AobHit(s, m, x) => \E k \in DOMAIN g : g[k].address = x
  BY ONLY <1>7 DEF PatternAnswer, w
<1>9. \A j \in DOMAIN f, k \in DOMAIN g : f[j].address < g[k].address
  <2>1. TAKE j \in DOMAIN f, k \in DOMAIN g
  <2>2. f[j].address < a /\ f[j] \in Answers
    BY <1>2, LenProperties, ElementOfSeq
  <2>3. f[j].address \in Nat /\ g[k].address >= a /\ g[k].address \in Int
    BY <1>5, <1>8, <2>2, AnswersHaveAddresses
  <2>4. QED
    BY ONLY <1>5, <2>2, <2>3
<1>10. /\ h \in Seq(Answers) /\ Len(h) <= s.max /\ Ascends(h)
       /\ \A k \in DOMAIN h : \/ \E j \in DOMAIN f : h[k] = f[j]
                              \/ \E j \in DOMAIN g : h[k] = g[j]
       /\ \A j \in DOMAIN f : \E k \in DOMAIN h : h[k] = f[j]
       /\ \A j \in DOMAIN g : \/ \E k \in DOMAIN h : h[k] = g[j]
                              \/ Len(h) = s.max /\ g[j].address > h[Len(h)].address
  <2>1. h = Cut(f \o g, s.max)
    BY DEF h
  <2>2. f \in Seq(Answers) /\ Ascends(f)
    BY <1>2
  <2>3. g \in Seq(Answers) /\ Ascends(g)
    BY <1>8
  <2>4. Extends(h, f, g, s.max)
    BY ONLY <1>1, <1>9, <2>1, <2>2, <2>3, Len(f) < s.max, CutExtends
  <2>5. QED
    BY ONLY <2>4 DEF Extends
<1>11. \A k \in DOMAIN h :
         /\ h[k].address < s.start + then
         /\ h[k].address + w <= s.start + s.length
         /\ \E n \in ms : AobHit(s, n, h[k].address)
  <2>1. TAKE k \in DOMAIN h
  <2>2. ASSUME NEW j \in DOMAIN f, h[k] = f[j]
        PROVE  /\ h[k].address < s.start + then
               /\ h[k].address + w <= s.start + s.length
               /\ \E n \in ms : AobHit(s, n, h[k].address)
    <3>1. f[j].address < a /\ f[j] \in Answers
      BY <1>2, LenProperties, ElementOfSeq
    <3>2. f[j].address \in Nat
      BY <3>1, AnswersHaveAddresses
    <3>3. f[j].address < s.start + then
      BY ONLY <1>1, <1>2, <1>4, <3>1, <3>2
    <3>4. QED
      BY <1>2, <2>2, <3>3
  <2>3. ASSUME NEW j \in DOMAIN g, h[k] = g[j]
        PROVE  /\ h[k].address < s.start + then
               /\ h[k].address + w <= s.start + s.length
               /\ \E n \in ms : AobHit(s, n, h[k].address)
    <3>1. g[j].address \in a..a + size - w /\ AobHit(s, m, g[j].address)
      BY <1>8
    <3>2. g[j].address < s.start + then /\ g[j].address + w <= s.start + s.length
      <4>1. at \in Nat /\ size \in Nat /\ then \in Nat
        BY <1>1, <1>2, <1>4
      <4>2. QED
        BY ONLY <1>1, <1>4, <3>1, <4>1
    <3>3. QED
      BY <2>3, <3>1, <3>2
  <2>4. QED
    BY <1>10, <2>2, <2>3
<1>12. ASSUME NEW x \in s.start..s.start + s.length - w, x < s.start + then,
              \A n \in ms : AobHit(s, n, x)
       PROVE  Reached(h, s.max, x)
  <2>1. CASE x < a
    <3>1. Reached(f, s.max, x)
      BY <1>2, <1>12, <2>1
    <3>2. PICK k \in DOMAIN f : f[k].address = x
      BY <3>1, LenProperties, <1>2 DEF Reached
    <3>3. \E j \in DOMAIN h : h[j] = f[k]
      BY <1>10
    <3>4. QED
      BY <3>2, <3>3 DEF Reached
  <2>2. CASE x >= a
    <3>1. x \in a..a + size - w
      <4>1. x - s.start \in Nat /\ x - s.start < then /\ x - s.start <= s.length - w
        BY ONLY <1>1, <1>4, <1>12
      <4>2. x - s.start <= at + size - w
        BY ONLY <1>4, <4>1
      <4>3. QED
        BY ONLY <1>1, <1>2, <1>4, <1>12, <2>2, <4>2
    <3>2. PICK k \in DOMAIN g : g[k].address = x
      BY <1>8, <1>12, <3>1
    <3>3. \/ \E j \in DOMAIN h : h[j] = g[k]
          \/ Len(h) = s.max /\ g[k].address > h[Len(h)].address
      BY <1>10
    <3>4. QED
      BY <3>2, <3>3 DEF Reached
  <2>3. QED
    BY <1>1, <1>2, <1>12, <2>1, <2>2
<1>13. AobState(s, then, h, ms)
  BY ONLY <1>4, <1>10, <1>11, <1>12 DEF AobState, w
<1>14. QED
  BY <1>13 DEF then, h, g

-----------------------------------------------------------------------------
(* next_scan: s is the call's arguments, with the snapshot it refines. *)

NextArgs(s) ==
    /\ s.max \in Nat /\ s.previous \in Seq(Answers) /\ Ascends(s.previous)
    /\ \A k \in DOMAIN s.previous : s.previous[k].address \in 1..Top - Width

\* m meets the comparison with the i-th candidate.
MeetsAt(s, m, i) ==
    /\ Mapped(m, s.previous[i].address, Width)
    /\ Holds(s, ValueAt(m, s.previous[i].address), s.previous[i].value)

NextState(s, at, f, ms) ==
    /\ at \in 1..Len(s.previous) + 1
    /\ f \in Seq(Answers) /\ Len(f) < at /\ Ascends(f)
    /\ \A k \in DOMAIN f : \E i \in 1..at - 1 :
         /\ f[k].address = s.previous[i].address
         /\ \E m \in ms : MeetsAt(s, m, i) /\ ValueAt(m, f[k].address) = f[k].value
    /\ \A i \in 1..at - 1 :
         (\A m \in ms : MeetsAt(s, m, i))
            => \E k \in DOMAIN f : f[k].address = s.previous[i].address

LEMMA NextStarts ==
    ASSUME NEW s, NextArgs(s), NEW ms
    PROVE  NextState(s, 1, <<>>, ms)
<1>1. Len(s.previous) \in Nat
  BY LenProperties DEF NextArgs
<1>2. <<>> \in Seq(Answers) /\ Len(<<>>) = 0 /\ DOMAIN <<>> = {}
  OBVIOUS
<1>3. 1..1 - 1 = {} /\ 1 \in 1..Len(s.previous) + 1
  BY <1>1
<1>4. QED
  BY <1>1, <1>2, <1>3 DEF NextState, Ascends

LEMMA NextGrows ==
    ASSUME NEW s, NEW at, NEW f, NEW ms, NEW more, ms \subseteq more, NextState(s, at, f, ms)
    PROVE  NextState(s, at, f, more)
  BY DEF NextState

LEMMA AppendAnswer ==
    ASSUME NEW q \in Seq(Answers), NEW r \in Answers, NEW h, h = Append(q, r)
    PROVE  /\ h \in Seq(Answers) /\ Len(q) \in Nat /\ Len(h) = Len(q) + 1
           /\ DOMAIN q = 1..Len(q) /\ DOMAIN h = 1..(Len(q) + 1)
           /\ \A i \in 1..Len(q) : h[i] = q[i]
           /\ h[Len(q) + 1] = r
  OBVIOUS

\* The candidate at x, read in m: whether it is kept, and what is recorded of it.
Kept(s, m, at) ==
    LET r == Read(m, s.previous[at].address, Width)
    IN r.fail = "none" /\ Holds(s, ValueOf(r.bytes), s.previous[at].value)

Recorded(m, x) == [address |-> x, value |-> ValueOf(Read(m, x, Width).bytes)]

\* One candidate: never refused, kept when it can be read and meets the comparison.
LEMMA NextCandidateStep ==
    ASSUME NEW s, NextArgs(s), NEW at, NEW f, NEW ms, NextState(s, at, f, ms),
           at <= Len(s.previous), NEW m \in ms, m \in Memories,
           NEW x, x = s.previous[at].address
    PROVE  /\ x # 0 /\ ~(x > Top - Width)
           /\ Kept(s, m, at) => NextState(s, at + 1, Append(f, Recorded(m, x)), ms)
           /\ ~Kept(s, m, at) => NextState(s, at + 1, f, ms)
<1> DEFINE p == s.previous
           r == Recorded(m, x)
<1>1. /\ p \in Seq(Answers) /\ Ascends(p) /\ Len(p) \in Nat /\ DOMAIN p = 1..Len(p)
      /\ \A k \in DOMAIN p : p[k].address \in 1..Top - Width
  BY LenProperties DEF NextArgs
<1>2. /\ at \in 1..Len(p) + 1 /\ at <= Len(p) /\ at \in 1..Len(p) /\ at \in Nat
      /\ f \in Seq(Answers) /\ Len(f) < at /\ Ascends(f)
      /\ Len(f) \in Nat /\ DOMAIN f = 1..Len(f)
  BY <1>1, LenProperties DEF NextState
<1>3. \A k \in DOMAIN f : \E i \in 1..at - 1 :
        /\ f[k].address = p[i].address
        /\ \E n \in ms : MeetsAt(s, n, i) /\ ValueAt(n, f[k].address) = f[k].value
  BY DEF NextState
<1>4. \A i \in 1..at - 1 :
        (\A n \in ms : MeetsAt(s, n, i)) => \E k \in DOMAIN f : f[k].address = p[i].address
  BY DEF NextState
<1>5. Top \in Nat /\ Width \in Nat \ {0} /\ Width <= MaxSize /\ MaxSize \in Nat
  BY MemoryAssumption, SessionAssumption
<1>6. x \in 1..Top - Width /\ x \in Addresses /\ x \in Nat /\ x + Width <= Top
  <2>1. x \in 1..Top - Width
    BY <1>1, <1>2
  <2>2. QED
    BY ONLY <1>5, <2>1 DEF Addresses
<1>7. Kept(s, m, at) => /\ MeetsAt(s, m, at) /\ r = [address |-> x, value |-> ValueAt(m, x)]
  <2>1. SUFFICES ASSUME Kept(s, m, at)
                 PROVE  /\ MeetsAt(s, m, at) /\ r = [address |-> x, value |-> ValueAt(m, x)]
    OBVIOUS
  <2>2. Mapped(m, x, Width) /\ Read(m, x, Width).bytes = Cells(m, x, Width)
    BY <1>5, <1>6, <2>1, ReadFacts DEF Kept
  <2>3. QED
    BY <2>1, <2>2 DEF MeetsAt, ValueAt, Kept, Recorded
<1>8. ~Kept(s, m, at) => ~MeetsAt(s, m, at)
  <2>1. SUFFICES ASSUME MeetsAt(s, m, at)
                 PROVE  Kept(s, m, at)
    OBVIOUS
  <2>2. Mapped(m, x, Width) /\ Holds(s, ValueAt(m, x), s.previous[at].value)
    BY <2>1 DEF MeetsAt
  <2>3. Read(m, x, Width).fail = "none"
    BY <1>5, <1>6, <2>2, ReadFacts
  <2>4. Read(m, x, Width).bytes = Cells(m, x, Width)
    BY <1>5, <1>6, <2>3, ReadFacts
  <2>5. QED
    BY <2>2, <2>3, <2>4 DEF ValueAt, Kept
<1> HIDE DEF r
<1>9. at + 1 \in 1..Len(p) + 1 /\ (at + 1) - 1 = at
  BY ONLY <1>1, <1>2
<1>10. ASSUME Kept(s, m, at)
       PROVE  NextState(s, at + 1, Append(f, r), ms)
  <2> DEFINE h == Append(f, r)
  <2>1. r \in Answers
    <3>1. r = [address |-> x, value |-> ValueAt(m, x)] /\ x \in Addresses /\ m \in Memories
      BY ONLY <1>6, <1>7, <1>10, m \in Memories
    <3>2. r \in Candidates
      BY ONLY <3>1 DEF Candidates
    <3>3. QED
      BY ONLY <3>2 DEF Answers
  <2>2. /\ h \in Seq(Answers) /\ Len(h) = Len(f) + 1 /\ DOMAIN h = 1..(Len(f) + 1)
        /\ \A i \in 1..Len(f) : h[i] = f[i]
        /\ h[Len(f) + 1] = r
    BY ONLY <1>2, <2>1, AppendAnswer
  <2>3. r.address = x /\ r.value = ValueAt(m, x)
    BY <1>7, <1>10
  <2> HIDE DEF h
  <2>4. \A j \in 1..Len(f) : f[j].address < x
    <3>1. TAKE j \in 1..Len(f)
    <3>2. PICK i \in 1..at - 1 : f[j].address = p[i].address
      BY <1>2, <1>3
    <3>3. i \in DOMAIN p /\ at \in DOMAIN p /\ i < at
      BY ONLY <1>1, <1>2, <3>2, i \in 1..at - 1
    <3>4. p[i].address < p[at].address
      BY ONLY <1>1, <3>3 DEF Ascends
    <3>5. QED
      BY <3>2, <3>4
  <2>5. Ascends(h)
    <3>1. SUFFICES ASSUME NEW j \in 1..(Len(f) + 1), NEW k \in 1..(Len(f) + 1), j < k
                   PROVE  h[j].address < h[k].address
      BY <2>2 DEF Ascends
    <3>2. j \in 1..Len(f) /\ (k \in 1..Len(f) \/ k = Len(f) + 1)
      BY ONLY <1>2, <3>1
    <3>3. CASE k \in 1..Len(f)
      BY <1>2, <2>2, <3>1, <3>2, <3>3 DEF Ascends
    <3>4. CASE k = Len(f) + 1
      BY <2>2, <2>3, <2>4, <3>2, <3>4
    <3>5. QED
      BY <3>2, <3>3, <3>4
  <2>6. ASSUME NEW k \in DOMAIN h
        PROVE  \E i \in 1..at :
                  /\ h[k].address = p[i].address
                  /\ \E n \in ms : MeetsAt(s, n, i) /\ ValueAt(n, h[k].address) = h[k].value
    <3>1. CASE k \in 1..Len(f)
      <4>1. h[k] = f[k] /\ k \in DOMAIN f
        BY <1>2, <2>2, <3>1
      <4>2. \A i \in 1..at - 1 : i \in 1..at
        BY ONLY <1>2
      <4>3. QED
        BY <1>3, <4>1, <4>2
    <3>2. CASE k = Len(f) + 1
      <4>1. h[k].address = x /\ h[k].value = ValueAt(m, x) /\ at \in 1..at /\ x = p[at].address
        BY <1>2, <2>2, <2>3, <3>2
      <4>2. QED
        BY <1>7, <1>10, <4>1
    <3>3. QED
      BY <1>2, <2>2, <3>1, <3>2
  <2>7. ASSUME NEW i \in 1..at, \A n \in ms : MeetsAt(s, n, i)
        PROVE  \E k \in DOMAIN h : h[k].address = p[i].address
    <3>1. CASE i \in 1..at - 1
      <4>1. PICK k \in DOMAIN f : f[k].address = p[i].address
        BY <1>4, <2>7, <3>1
      <4>2. k \in DOMAIN h /\ h[k] = f[k]
        BY <1>2, <2>2
      <4>3. QED
        BY <4>1, <4>2
    <3>2. CASE i = at
      <4>1. Len(f) + 1 \in DOMAIN h /\ h[Len(f) + 1].address = p[i].address
        BY <1>2, <2>2, <2>3, <3>2
      <4>2. QED
        BY <4>1
    <3>3. QED
      BY <1>2, <3>1, <3>2
  <2>8. Len(h) < at + 1
    BY ONLY <1>2, <2>2
  <2>9. QED
    <3>1. \A k \in DOMAIN h : \E i \in 1..(at + 1) - 1 :
            /\ h[k].address = p[i].address
            /\ \E n \in ms : MeetsAt(s, n, i) /\ ValueAt(n, h[k].address) = h[k].value
      BY ONLY <1>9, <2>6
    <3>2. \A i \in 1..(at + 1) - 1 :
            (\A n \in ms : MeetsAt(s, n, i))
               => \E k \in DOMAIN h : h[k].address = p[i].address
      BY ONLY <1>9, <2>7
    <3>3. at + 1 \in 1..Len(p) + 1 /\ h \in Seq(Answers)
      BY ONLY <1>9, <2>2
    <3>4. NextState(s, at + 1, h, ms)
      BY ONLY <2>5, <2>8, <3>1, <3>2, <3>3 DEF NextState
    <3>5. QED
      BY ONLY <3>4 DEF h
<1>11. ASSUME ~Kept(s, m, at)
       PROVE  NextState(s, at + 1, f, ms)
  <2>1. \A k \in DOMAIN f : \E i \in 1..at :
          /\ f[k].address = p[i].address
          /\ \E n \in ms : MeetsAt(s, n, i) /\ ValueAt(n, f[k].address) = f[k].value
    <3>1. \A i \in 1..at - 1 : i \in 1..at
      BY ONLY <1>2
    <3>2. QED
      BY <1>3, <3>1
  <2>2. ASSUME NEW i \in 1..at, \A n \in ms : MeetsAt(s, n, i)
        PROVE  \E k \in DOMAIN f : f[k].address = p[i].address
    <3>1. i # at
      BY <1>8, <1>11, <2>2
    <3>2. i \in 1..at - 1
      BY ONLY <1>2, <3>1, i \in 1..at
    <3>3. QED
      BY <1>4, <2>2, <3>2
  <2>3. Len(f) < at + 1
    BY ONLY <1>2
  <2>4. QED
    BY <1>2, <1>9, <2>1, <2>2, <2>3 DEF NextState
<1>12. QED
  BY <1>5, <1>6, <1>10, <1>11 DEF r

-----------------------------------------------------------------------------
(* The scans' invariant *)

FirstScanned ==
    call.kind = "first_scan" =>
      /\ call.args \in FirstScans /\ call.fail = FirstFault(call.args)
      /\ call.fail = "none" => FirstState(call.args, call.at, call.found, past)
      /\ call.fail # "none" => call.at = 0 /\ call.found = <<>>

\* A pattern scan that was refused has found nothing; one that met a chunk it could
\* not read keeps what it has.
AobScanned ==
    call.kind = "scan_aob" =>
      /\ call.args.length \in Nat /\ call.at \in 0..call.args.length
      /\ \/ call.fail # "none" /\ call.found = <<>>
         \/ AobArgs(call.args) /\ AobState(call.args, call.at, call.found, past)

NextScanned ==
    call.kind = "next_scan" =>
      /\ NextArgs(call.args)
      /\ call.fail = "none" =>
           /\ Len(call.args.previous) <= call.args.max
           /\ NextState(call.args, call.at, call.found, past)
      /\ call.fail # "none" =>
           /\ Len(call.args.previous) > call.args.max \/ call.args.max = 0
           /\ call.at = 1 /\ call.found = <<>>

\* A call that takes one request has answered nothing before it.
Fresh ==
    call.kind \in {"read", "read_string", "write_string"} /\ call.at = 1 => call.found = <<>>

\* What the call will look at is among the memories of its time.
Watched == mem \in past \/ Over

SInv ==
    /\ moves \in 0..MaxMoves /\ past \subseteq Memories
    /\ Watched /\ Fresh
    /\ FirstScanned /\ AobScanned /\ NextScanned

\* A step of a session call stays in the call.
LEMMA SessionStepShape ==
    ASSUME LInv, SessionStep
    PROVE  /\ call.kind \in SessionCalls /\ call'.kind = call.kind /\ moves' = moves
           /\ ~Over
           /\ (mem' = mem /\ past' = past) \/ past' = past \cup {mem'}
           /\ call.kind \in {"read", "read_string", "write_string"} /\ call'.at = 1
                => call'.found = call.found
<1>1. CallShape
  BY DEF LInv
<1>2. /\ call.fail = "none"
      /\ \/ call.kind \in {"read", "read_string", "write_string"} /\ call.at = 1
         \/ call.kind = "verify" /\ (call.at = 1 \/ call.at = 2)
         \/ call.kind \in SessionKinds /\ call.at <= Len(call.args.offsets)
  BY DEF SessionStep, ReadBytes, ReadString, WriteString, VerifyWrite, VerifyRead, ResolveStep,
     BatchRead, BatchWrite, Running, SessionKinds
<1>3. call.kind \in SessionCalls
  BY <1>2 DEF SessionCalls, SessionKinds
<1>4. ~Over
  <2>1. CASE call.kind \in SessionKinds /\ call.at <= Len(call.args.offsets)
    <3>1. call.at \in Nat /\ Len(call.args.offsets) \in Nat
      <4>1. call.at = Len(call.found) + 1 /\ call.found \in Seq(Nat)
        BY <2>1 DEF LInv, InStep
      <4>2. Len(call.args.offsets) \in Nat
        BY <2>1, ArgsFacts DEF LInv
      <4>3. QED
        BY <4>1, <4>2
    <3>2. ~(call.at > Len(call.args.offsets))
      BY <2>1, <3>1
    <3>3. QED
      BY <1>2, <2>1, <3>2 DEF Over, SessionOver, ScanOver, SessionKinds
  <2>2. CASE call.kind \in {"read", "read_string", "write_string"} /\ call.at = 1
    BY <1>2, <2>2 DEF Over, SessionOver, ScanOver
  <2>3. CASE call.kind = "verify" /\ (call.at = 1 \/ call.at = 2)
    BY <1>2, <2>3 DEF Over, SessionOver, ScanOver
  <2>4. QED
    BY <1>2, <2>1, <2>2, <2>3
<1>5. /\ moves' = moves
      /\ (mem' = mem /\ past' = past) \/ past' = past \cup {mem'}
      /\ \/ \E v : call' = With(v) \/ call' = FailWith(v)
         \/ call.kind = "verify" /\ call' = [call EXCEPT !.at = 2]
  <2>1. CASE ReadBytes
    BY <2>1 DEF ReadBytes, GoOn
  <2>2. CASE ReadString
    BY <2>2 DEF ReadString, GoOn
  <2>3. CASE WriteString
    BY <2>3 DEF WriteString, GoOn, GoOnWriting
  <2>4. CASE VerifyWrite
    BY <2>4 DEF VerifyWrite, GoOnWriting, Running
  <2>5. CASE VerifyRead
    BY <2>5 DEF VerifyRead, GoOn
  <2>6. CASE ResolveStep
    BY <2>6 DEF ResolveStep, GoOn
  <2>7. CASE BatchRead
    BY <2>7 DEF BatchRead, GoOn
  <2>8. CASE BatchWrite
    BY <2>8 DEF BatchWrite, GoOnWriting
  <2>9. QED
    BY <2>1, <2>2, <2>3, <2>4, <2>5, <2>6, <2>7, <2>8 DEF SessionStep
<1>6. ASSUME NEW v, call' = With(v)
      PROVE  /\ call'.kind = call.kind
             /\ call.kind \in {"read", "read_string", "write_string"} => call'.at = 2
  <2>1. call'.kind = call.kind /\ call'.at = call.at + 1
    BY <1>6 DEF With, Moved
  <2>2. QED
    BY <1>2, <2>1 DEF SessionKinds
<1>7. ASSUME NEW v, call' = FailWith(v)
      PROVE  call'.kind = call.kind /\ call'.found = call.found
  <2>1. call' = [kind |-> call.kind, args |-> call.args, at |-> call.at,
                 found |-> call.found, fail |-> v]
    BY <1>1, <1>7, CallFields
  <2>2. QED
    BY <2>1
<1>8. ASSUME call' = [call EXCEPT !.at = 2]
      PROVE  call'.kind = call.kind
  <2>1. call' = [kind |-> call.kind, args |-> call.args, at |-> 2,
                 found |-> call.found, fail |-> call.fail]
    BY <1>1, <1>8, CallFields
  <2>2. QED
    BY <2>1
<1>9. QED
  BY <1>3, <1>4, <1>5, <1>6, <1>7, <1>8

LEMMA BeginFields ==
    ASSUME LInv, SInv, NEW k, NEW x, NEW a, NEW e, Begin(NewCall(k, x, a, e))
    PROVE  /\ call'.kind = k /\ call'.args = x /\ call'.at = a
           /\ call'.found = <<>> /\ call'.fail = e
           /\ past' = {mem} /\ mem' = mem
           /\ moves' \in 0..MaxMoves /\ past' \subseteq Memories /\ Watched' /\ Fresh'
<1>1. /\ call' = [kind |-> k, args |-> x, at |-> a, found |-> <<>>, fail |-> e]
      /\ past' = {mem} /\ mem' = mem /\ moves' = moves
  BY DEF Begin, NewCall
<1>2. mem \in Memories /\ moves \in 0..MaxMoves
  BY DEF LInv, SInv
<1>3. /\ call'.kind = k /\ call'.args = x /\ call'.at = a
      /\ call'.found = <<>> /\ call'.fail = e
  BY <1>1
<1>4. Watched' /\ Fresh'
  BY <1>1, <1>3 DEF Watched, Fresh
<1>5. QED
  BY <1>1, <1>2, <1>3, <1>4

\* The snapshot a refinement takes is what a scan leaves.
LEMMA SnapshotFacts ==
    ASSUME SInv, call.kind \in {"first_scan", "next_scan"}, call.fail = "none"
    PROVE  /\ call.found \in Seq(Answers) /\ Ascends(call.found)
           /\ \A k \in DOMAIN call.found : call.found[k].address \in 1..Top - Width
<1>1. CASE call.kind = "first_scan"
  <2> DEFINE s == call.args
  <2>1. s \in FirstScans /\ FirstFault(s) = "none" /\ FirstState(s, call.at, call.found, past)
    BY <1>1 DEF SInv, FirstScanned
  <2>2. /\ s.start \in Nat \ {0} /\ s.range \in Nat \ {0} /\ s.start + s.range <= Top
        /\ Top \in Nat /\ Width \in Nat \ {0}
    BY <2>1, FirstArgs
  <2> HIDE DEF s
  <2>3. \A k \in DOMAIN call.found : call.found[k].address \in s.start..s.start + s.range - Width
    BY <2>1 DEF FirstState, FirstWitness
  <2>4. s.start..s.start + s.range - Width \subseteq 1..Top - Width
    BY ONLY <2>2
  <2>5. QED
    BY <2>1, <2>3, <2>4 DEF FirstState
<1>2. CASE call.kind = "next_scan"
  <2>1. NextArgs(call.args) /\ NextState(call.args, call.at, call.found, past)
    BY <1>2 DEF SInv, NextScanned
  <2> DEFINE p == call.args.previous
  <2>2. /\ p \in Seq(Answers) /\ DOMAIN p = 1..Len(p) /\ Len(p) \in Nat
        /\ \A k \in DOMAIN p : p[k].address \in 1..Top - Width
    BY <2>1, LenProperties DEF NextArgs
  <2>3. call.at \in 1..Len(p) + 1
    BY <2>1 DEF NextState
  <2>4. \A i \in 1..call.at - 1 : i \in DOMAIN p
    BY ONLY <2>2, <2>3
  <2>5. \A k \in DOMAIN call.found : \E i \in 1..call.at - 1 : call.found[k].address = p[i].address
    BY <2>1 DEF NextState
  <2>6. QED
    BY <2>1, <2>2, <2>4, <2>5 DEF NextState
<1>3. QED
  BY <1>1, <1>2

LEMMA ScanBegins ==
    ASSUME LInv, SInv,
           \/ \E c \in Calls : BeginSession(c)
           \/ \E s \in FirstScans : FirstScan(s)
           \/ \E s \in AobScans : AobScan(s)
           \/ \E s \in NextScans : NextScan(s, s.upper) \/ RefineCandidates(s)
    PROVE  SInv'
<1>1. ASSUME NEW c \in Calls, BeginSession(c)
      PROVE  SInv'
  <2> DEFINE e == CASE c.kind = "resolve" /\ c.args.offsets = <<>> -> "invalid_offsets"
                    [] c.kind = "verify" /\ c.args.attempts = 0 -> "verification_mismatch"
                    [] OTHER -> "none"
  <2>1. Begin(NewCall(c.kind, c.args, 1, e))
    BY <1>1 DEF BeginSession
  <2> HIDE DEF e
  <2>2. /\ call'.kind = c.kind
        /\ moves' \in 0..MaxMoves /\ past' \subseteq Memories /\ Watched' /\ Fresh'
    BY <2>1, BeginFields
  <2>3. c.kind \notin {"first_scan", "next_scan", "scan_aob"}
    BY CallsAssumption DEF SessionCalls
  <2>4. QED
    BY <2>2, <2>3 DEF SInv, FirstScanned, AobScanned, NextScanned
<1>2. ASSUME NEW s \in FirstScans, FirstScan(s)
      PROVE  SInv'
  <2>1. Begin(NewCall("first_scan", s, 0, FirstFault(s)))
    BY <1>2 DEF FirstScan
  <2>2. /\ call'.kind = "first_scan" /\ call'.args = s /\ call'.at = 0
        /\ call'.found = <<>> /\ call'.fail = FirstFault(s)
        /\ moves' \in 0..MaxMoves /\ past' \subseteq Memories /\ Watched' /\ Fresh'
    BY <2>1, BeginFields
  <2>3. FirstFault(s) = "none" => FirstState(s, 0, <<>>, past')
    BY FirstStarts
  <2>4. FirstScanned'
    BY <2>2, <2>3 DEF FirstScanned
  <2>5. QED
    BY <2>2, <2>4 DEF SInv, AobScanned, NextScanned
<1>3. ASSUME NEW s \in AobScans, AobScan(s)
      PROVE  SInv'
  <2> DEFINE x == [start |-> s.start, length |-> s.length, max |-> s.max,
                   pattern |-> ParseAob(s.signature)]
             e == IF ParseAob(s.signature) = <<>> THEN "invalid_type"
                  ELSE IF AobRefused(s) THEN "invalid_size" ELSE "none"
  <2>1. Begin(NewCall("scan_aob", x, 0, e))
    BY <1>3 DEF AobScan
  <2>2. /\ s.start \in Nat /\ s.length \in Nat /\ s.max \in Nat
        /\ ParseAob(s.signature) \in Seq(Int)
    BY PatternAssumption
  <2>3. /\ x.start = s.start /\ x.length = s.length /\ x.max = s.max
        /\ x.pattern = ParseAob(s.signature)
    OBVIOUS
  <2>4. e = "none" => AobArgs(x)
    <3>1. SUFFICES ASSUME e = "none"
                   PROVE  AobArgs(x)
      OBVIOUS
    <3>2. ParseAob(s.signature) # <<>> /\ ~AobRefused(s)
      BY <3>1
    <3>3. s.length # 0 /\ s.max # 0 /\ s.start + s.length <= Top
      BY <2>2, <3>2, MemoryAssumption DEF AobRefused
    <3>4. Len(ParseAob(s.signature)) \in Nat \ {0}
      BY <2>2, <3>2, EmptySeq
    <3> HIDE DEF x
    <3>5. QED
      BY <2>2, <2>3, <3>3, <3>4 DEF AobArgs
  <2> HIDE DEF x, e
  <2>5. /\ call'.kind = "scan_aob" /\ call'.args = x /\ call'.at = 0
        /\ call'.found = <<>> /\ call'.fail = e
        /\ moves' \in 0..MaxMoves /\ past' \subseteq Memories /\ Watched' /\ Fresh'
    BY <2>1, BeginFields
  <2>6. e = "none" => AobState(x, 0, <<>>, past')
    BY <2>4, AobStarts
  <2>7. 0 \in 0..x.length /\ x.length \in Nat
    BY <2>2, <2>3
  <2>8. AobScanned'
    BY <2>4, <2>5, <2>6, <2>7 DEF AobScanned
  <2>9. QED
    BY <2>5, <2>8 DEF SInv, FirstScanned, NextScanned
<1>4. ASSUME NEW s \in NextScans, NEW upper, NextScan(s, upper)
      PROVE  SInv'
  <2> DEFINE x == [comparison |-> s.comparison, target |-> s.target, upper |-> upper,
                   tolerance |-> s.tolerance, max |-> s.max, previous |-> call.found]
             e == IF Len(call.found) > s.max \/ s.max = 0 THEN "invalid_size" ELSE "none"
  <2>1. /\ Begin(NewCall("next_scan", x, 1, e))
        /\ call.kind \in {"first_scan", "next_scan"} /\ call.fail = "none"
    BY <1>4 DEF NextScan
  <2>2. x.previous = call.found /\ x.max = s.max /\ s.max \in Nat
    BY ScanAssumption
  <2> HIDE DEF x
  <2>3. NextArgs(x)
    BY <2>1, <2>2, SnapshotFacts DEF NextArgs
  <2>4. /\ e = "none" => Len(x.previous) <= x.max
        /\ e # "none" => Len(x.previous) > x.max \/ x.max = 0
    <3>1. Len(x.previous) \in Nat
      BY <2>3, LenProperties DEF NextArgs
    <3>2. QED
      BY <2>2, <3>1
  <2> HIDE DEF e
  <2>5. /\ call'.kind = "next_scan" /\ call'.args = x /\ call'.at = 1
        /\ call'.found = <<>> /\ call'.fail = e
        /\ moves' \in 0..MaxMoves /\ past' \subseteq Memories /\ Watched' /\ Fresh'
    BY <2>1, BeginFields
  <2>6. NextState(x, 1, <<>>, past')
    BY <2>3, NextStarts
  <2>7. NextScanned'
    BY <2>3, <2>4, <2>5, <2>6 DEF NextScanned
  <2>8. QED
    BY <2>5, <2>7 DEF SInv, FirstScanned, AobScanned
<1>5. QED
  BY <1>1, <1>2, <1>3, <1>4 DEF RefineCandidates

LEMMA ScanInit ==
    ASSUME Init
    PROVE  SInv
<1>1. /\ mem \in Memories /\ past = {mem} /\ moves = 0 /\ MaxMoves \in Nat
      /\ call = [kind |-> "none", args |-> <<>>, at |-> 1, found |-> <<>>, fail |-> "none"]
  BY SessionAssumption DEF Init, SessionInit, NewCall
<1>2. call.kind = "none"
  BY <1>1
<1>3. QED
  BY <1>1, <1>2 DEF SInv, Watched, Fresh, FirstScanned, AobScanned, NextScanned

LEMMA FirstChunkScans ==
    ASSUME LInv, SInv, FirstChunk
    PROVE  SInv'
<1> DEFINE s    == call.args
           size == ChunkLength(s.range, call.at, Chunk)
           r    == Read(mem, s.start + call.at, size)
           hits == IF r.fail = "none" THEN InChunk(s, s.start + call.at, r.bytes) ELSE <<>>
           h    == Cut(call.found \o hits, s.max)
<1>1. /\ call.kind = "first_scan" /\ call.fail = "none" /\ ~FirstOver
      /\ call' = Moved(call.at + size, h)
      /\ mem' = mem /\ past' = past /\ moves' = moves
  BY DEF FirstChunk, Running, GoOn
<1>2. /\ call'.kind = "first_scan" /\ call'.args = s /\ call'.at = call.at + size
      /\ call'.found = h /\ call'.fail = "none"
  BY <1>1 DEF Moved
<1>3. s \in FirstScans /\ FirstFault(s) = "none" /\ FirstState(s, call.at, call.found, past)
  BY <1>1 DEF SInv, FirstScanned
<1>4. mem \in past /\ mem \in Memories
  BY <1>1 DEF LInv, SInv, Watched, Over, SessionOver, ScanOver
<1>5. call.at < s.range /\ Len(call.found) < s.max
  <2>1. call.at \in 0..s.range /\ call.found \in Seq(Answers) /\ Len(call.found) \in Nat
    BY <1>3, LenProperties DEF FirstState
  <2>2. s.range \in Nat /\ s.max \in Nat
    BY <1>3, FirstArgs
  <2>3. ~(call.at >= s.range) /\ ~(Len(call.found) >= s.max)
    BY <1>1 DEF FirstOver
  <2> HIDE DEF s
  <2>4. QED
    BY ONLY <2>1, <2>2, <2>3
<1> HIDE DEF s
<1>6. FirstState(s, call.at + size, h, past)
  BY ONLY <1>3, <1>4, <1>5, FirstChunkStep DEF h, hits, size, r
<1> HIDE DEF h, size
<1>7. FirstScanned'
  BY <1>1, <1>2, <1>3, <1>6 DEF FirstScanned
<1>8. Watched' /\ Fresh'
  BY <1>1, <1>2, <1>4 DEF Watched, Fresh
<1>9. QED
  BY <1>1, <1>2, <1>7, <1>8 DEF SInv, AobScanned, NextScanned

LEMMA AobChunkScans ==
    ASSUME LInv, SInv, AobChunk
    PROVE  SInv'
<1> DEFINE s     == call.args
           size  == ChunkLength(s.length, call.at, Chunk + Len(s.pattern) - 1)
           r     == Read(mem, s.start + call.at, size)
           order == Ascending({i \in 1..Len(r.bytes)-Len(s.pattern)+1 :
                                  PatternAt(s.pattern, r.bytes, i)})
           h     == Cut(call.found \o [k \in DOMAIN order |->
                          [address |-> s.start + call.at + order[k] - 1]], s.max)
           then  == IF size = s.length - call.at THEN s.length ELSE call.at + Chunk
<1>1. /\ call.kind = "scan_aob" /\ call.fail = "none" /\ ~AobOver
      /\ call' = IF r.fail # "none" THEN FailWith(r.fail) ELSE Moved(then, h)
      /\ mem' = mem /\ past' = past /\ moves' = moves
  BY DEF AobChunk, Running, GoOn
<1>2. /\ AobArgs(s) /\ AobState(s, call.at, call.found, past)
      /\ s.length \in Nat /\ call.at \in 0..s.length
  BY <1>1 DEF SInv, AobScanned
<1>3. mem \in past /\ mem \in Memories /\ CallShape
  BY <1>1 DEF LInv, SInv, Watched, Over, SessionOver, ScanOver
<1>4. call.at < s.length /\ Len(call.found) < s.max
  <2>1. call.found \in Seq(Answers) /\ Len(call.found) \in Nat /\ s.max \in Nat
    BY <1>2, LenProperties DEF AobState, AobArgs
  <2>2. ~(call.at >= s.length) /\ ~(Len(call.found) >= s.max)
    BY <1>1 DEF AobOver
  <2> HIDE DEF s
  <2>3. QED
    BY ONLY <1>2, <2>1, <2>2
<1>5. CASE r.fail # "none"
  <2>1. call' = [kind |-> call.kind, args |-> call.args, at |-> call.at,
                 found |-> call.found, fail |-> r.fail]
    BY <1>1, <1>3, <1>5, CallFields
  <2>2. /\ call'.kind = "scan_aob" /\ call'.args = s /\ call'.at = call.at
        /\ call'.found = call.found /\ call'.fail # "none"
    <3> HIDE DEF r
    <3>1. call.kind = "scan_aob"
      BY <1>1
    <3>2. QED
      BY ONLY <1>5, <2>1, <3>1
  <2> HIDE DEF s, r, then, h
  <2>3. AobScanned' /\ Watched' /\ Fresh'
    BY <1>1, <1>2, <1>3, <2>2 DEF AobScanned, Watched, Fresh
  <2>4. QED
    BY <1>1, <2>2, <2>3 DEF SInv, FirstScanned, NextScanned
<1>6. CASE r.fail = "none"
  <2>1. /\ call'.kind = "scan_aob" /\ call'.args = s /\ call'.at = then /\ call'.found = h
    BY <1>1, <1>6 DEF Moved
  <2> HIDE DEF s
  <2>2. AobState(s, then, h, past)
    BY ONLY <1>2, <1>3, <1>4, <1>6, AobChunkStep DEF h, then, order, size, r
  <2> HIDE DEF r, then, h
  <2>3. then \in 0..s.length
    BY <2>2 DEF AobState
  <2>4. AobScanned' /\ Watched' /\ Fresh'
    BY <1>1, <1>2, <1>3, <2>1, <2>2, <2>3 DEF AobScanned, Watched, Fresh
  <2>5. QED
    BY <1>1, <2>1, <2>4 DEF SInv, FirstScanned, NextScanned
<1>7. QED
  BY <1>5, <1>6

LEMMA NextCandidateScans ==
    ASSUME LInv, SInv, NextCandidate
    PROVE  SInv'
<1> DEFINE s    == call.args
           x    == s.previous[call.at].address
           c    == Recorded(mem, x)
<1>1. /\ call.kind = "next_scan" /\ call.fail = "none" /\ call.at <= Len(s.previous)
      /\ call' = IF x = 0 \/ x > Top - Width THEN FailWith("invalid_size")
                 ELSE IF Kept(s, mem, call.at) THEN With(c) ELSE [call EXCEPT !.at = @ + 1]
      /\ mem' = mem /\ past' = past /\ moves' = moves
  BY DEF NextCandidate, Running, GoOn, Kept, Recorded
<1>2. /\ NextArgs(s) /\ Len(s.previous) <= s.max
      /\ NextState(s, call.at, call.found, past)
  BY <1>1 DEF SInv, NextScanned
<1>3. mem \in past /\ mem \in Memories /\ CallShape
  <2>1. call.at \in Nat /\ Len(s.previous) \in Nat
    BY <1>2, LenProperties DEF NextArgs, NextState
  <2>2. ~(call.at > Len(s.previous))
    BY <1>1, <2>1
  <2>3. ~Over
    BY <1>1, <2>2 DEF Over, SessionOver, ScanOver
  <2>4. QED
    BY <2>3 DEF LInv, SInv, Watched
<1> HIDE DEF s
<1>4. /\ x # 0 /\ ~(x > Top - Width)
      /\ Kept(s, mem, call.at) => NextState(s, call.at + 1, Append(call.found, c), past)
      /\ ~Kept(s, mem, call.at) => NextState(s, call.at + 1, call.found, past)
  BY ONLY <1>1, <1>2, <1>3, NextCandidateStep
<1> HIDE DEF x, c
<1>5. CASE Kept(s, mem, call.at)
  <2>1. call' = With(c)
    BY <1>1, <1>4, <1>5
  <2>2. /\ call'.kind = "next_scan" /\ call'.args = s /\ call'.at = call.at + 1
        /\ call'.found = Append(call.found, c) /\ call'.fail = "none"
    BY <1>1, <2>1 DEF With, Moved, s
  <2>3. NextScanned' /\ Watched' /\ Fresh'
    BY <1>1, <1>2, <1>3, <1>4, <1>5, <2>2 DEF NextScanned, Watched, Fresh
  <2>4. QED
    BY <1>1, <2>2, <2>3 DEF SInv, FirstScanned, AobScanned
<1>6. CASE ~Kept(s, mem, call.at)
  <2>1. call' = [call EXCEPT !.at = call.at + 1]
    BY <1>1, <1>4, <1>6
  <2>2. call' = [kind |-> call.kind, args |-> call.args, at |-> call.at + 1,
                 found |-> call.found, fail |-> call.fail]
    BY <1>3, <2>1, CallFields
  <2>3. /\ call'.kind = "next_scan" /\ call'.args = s /\ call'.at = call.at + 1
        /\ call'.found = call.found /\ call'.fail = "none"
    BY <1>1, <2>2 DEF s
  <2>4. NextScanned' /\ Watched' /\ Fresh'
    BY <1>1, <1>2, <1>3, <1>4, <1>6, <2>3 DEF NextScanned, Watched, Fresh
  <2>5. QED
    BY <1>1, <2>3, <2>4 DEF SInv, FirstScanned, AobScanned
<1>7. QED
  BY <1>5, <1>6

LEMMA SessionScans ==
    ASSUME LInv, LInv', SInv, SessionStep
    PROVE  SInv'
<1>1. /\ call.kind \in SessionCalls /\ call'.kind = call.kind /\ moves' = moves
      /\ ~Over
      /\ (mem' = mem /\ past' = past) \/ past' = past \cup {mem'}
      /\ call.kind \in {"read", "read_string", "write_string"} /\ call'.at = 1
           => call'.found = call.found
  BY SessionStepShape
<1>2. mem \in past /\ past \subseteq Memories /\ mem' \in Memories
  BY <1>1 DEF SInv, LInv, Watched
<1>3. mem' \in past' /\ past' \subseteq Memories
  BY <1>1, <1>2
<1>4. call'.kind \notin {"first_scan", "next_scan", "scan_aob"}
  BY <1>1 DEF SessionCalls
<1>5. Fresh'
  <2>1. SUFFICES ASSUME call.kind \in {"read", "read_string", "write_string"}, call'.at = 1
                 PROVE  call'.found = <<>>
    BY <1>1 DEF Fresh
  <2>2. call.at = 1
    <3>1. CASE call.at = 1
      BY <3>1
    <3>2. CASE call.at # 1
      BY <2>1, <3>2 DEF SessionStep, ReadBytes, ReadString, WriteString, VerifyWrite, VerifyRead,
         ResolveStep, BatchRead, BatchWrite, Running
    <3>3. QED
      BY <3>1, <3>2
  <2>3. QED
    BY <1>1, <2>1, <2>2 DEF SInv, Fresh
<1>6. QED
  BY <1>1, <1>3, <1>4, <1>5 DEF SInv, Watched, FirstScanned, AobScanned, NextScanned

\* Nothing but more memories: the call stands still.
LEMMA StandStill ==
    ASSUME SInv, call' = call, past \subseteq past', past' \subseteq Memories,
           moves' \in 0..MaxMoves, mem' \in past' \/ Over
    PROVE  SInv'
<1>1. Over' <=> Over
  BY DEF Over, SessionOver, ScanOver, FirstOver, AobOver
<1>2. Watched' /\ Fresh'
  BY <1>1 DEF SInv, Watched, Fresh
<1>3. FirstScanned'
  BY FirstGrows DEF SInv, FirstScanned
<1>4. AobScanned'
  BY AobGrows DEF SInv, AobScanned
<1>5. NextScanned'
  BY NextGrows DEF SInv, NextScanned
<1>6. QED
  BY <1>2, <1>3, <1>4, <1>5 DEF SInv

LEMMA SInvStep ==
    ASSUME LInv, LInv', SInv, [Next]_vars
    PROVE  SInv'
<1>1. CASE Next
  <2>1. CASE \/ \E c \in Calls : BeginSession(c)
             \/ \E s \in FirstScans : FirstScan(s)
             \/ \E s \in AobScans : AobScan(s)
             \/ \E s \in NextScans : NextScan(s, s.upper) \/ RefineCandidates(s)
    BY <2>1, ScanBegins
  <2>2. CASE SessionStep
    BY <2>2, SessionScans
  <2>3. CASE ScanStep
    BY <2>3, FirstChunkScans, NextCandidateScans, AobChunkScans DEF ScanStep
  <2>4. CASE TargetMoves
    <3>1. /\ call' = call /\ past \subseteq past' /\ (mem' \in past' \/ Over)
          /\ past' \subseteq past \cup {mem'} /\ moves' = moves + 1 /\ moves < MaxMoves
      BY <2>4 DEF TargetMoves
    <3>2. past' \subseteq Memories
      BY <3>1 DEF LInv, SInv
    <3>3. moves' \in 0..MaxMoves
      BY <3>1, SessionAssumption DEF SInv
    <3>4. QED
      BY <3>1, <3>2, <3>3, StandStill
  <2>5. QED
    BY <1>1, <2>1, <2>2, <2>3, <2>4 DEF Next
<1>2. CASE UNCHANGED vars
  <2>1. call' = call /\ past' = past /\ mem' = mem /\ moves' = moves
    BY <1>2 DEF vars, sessionVars
  <2>2. past' \subseteq Memories /\ moves' \in 0..MaxMoves /\ (mem' \in past' \/ Over)
    BY <2>1 DEF SInv, Watched
  <2>3. QED
    BY <2>1, <2>2, StandStill
<1>3. QED
  BY <1>1, <1>2

LEMMA SInvHolds == Spec => [](LInv /\ SInv)
<1>1. Init => LInv /\ SInv
  BY LInvInit, ScanInit
<1>2. LInv /\ SInv /\ [Next]_vars => (LInv /\ SInv)'
  BY LInvStep, SInvStep
<1>3. QED
  BY <1>1, <1>2, PTL DEF Spec

-----------------------------------------------------------------------------

\* The memory, the counter and the progress of every call have their types: a scan
\* reports no more than the caller allowed and never runs past its range.
THEOREM TypeCorrect == Spec => []TypeOK
<1>1. ASSUME LInv, SInv
      PROVE  TypeOK
  <2>1. mem \in Memories /\ moves \in 0..MaxMoves /\ (mem \in past \/ Over)
    BY <1>1 DEF LInv, SInv, Watched
  <2>2. call.kind = "first_scan" =>
          /\ call.at <= call.args.range
          /\ call.fail = "none" => Len(call.found) <= call.args.max
    <3>1. SUFFICES ASSUME call.kind = "first_scan"
                   PROVE  /\ call.at <= call.args.range
                          /\ call.fail = "none" => Len(call.found) <= call.args.max
      OBVIOUS
    <3>2. call.args \in FirstScans /\ call.args.range \in Nat
      BY <1>1, <3>1, ScanAssumption DEF SInv, FirstScanned
    <3>3. CASE call.fail = "none"
      BY <1>1, <3>1, <3>2, <3>3 DEF SInv, FirstScanned, FirstState
    <3>4. CASE call.fail # "none"
      BY <1>1, <3>1, <3>2, <3>4 DEF SInv, FirstScanned
    <3>5. QED
      BY <3>3, <3>4
  <2>3. call.kind = "scan_aob" =>
          /\ call.at <= call.args.length
          /\ call.fail = "none" => Len(call.found) <= call.args.max
    BY <1>1 DEF SInv, AobScanned, AobState
  <2>4. call.kind = "next_scan" =>
          /\ call.at <= Len(call.args.previous) + 1
          /\ call.fail = "none" => Len(call.found) <= call.args.max
    <3>1. SUFFICES ASSUME call.kind = "next_scan"
                   PROVE  /\ call.at <= Len(call.args.previous) + 1
                          /\ call.fail = "none" => Len(call.found) <= call.args.max
      OBVIOUS
    <3>2. /\ NextArgs(call.args) /\ Len(call.args.previous) \in Nat /\ call.args.max \in Nat
      BY <1>1, <3>1, LenProperties DEF SInv, NextScanned, NextArgs
    <3>3. CASE call.fail = "none"
      <4>1. /\ Len(call.args.previous) <= call.args.max
            /\ call.at \in 1..Len(call.args.previous) + 1
            /\ call.found \in Seq(Answers) /\ Len(call.found) < call.at
        BY <1>1, <3>1, <3>3 DEF SInv, NextScanned, NextState
      <4>2. Len(call.found) \in Nat
        BY <4>1, LenProperties
      <4>3. QED
        BY <3>2, <4>1, <4>2
    <3>4. CASE call.fail # "none"
      BY <1>1, <3>1, <3>2, <3>4 DEF SInv, NextScanned
    <3>5. QED
      BY <3>3, <3>4
  <2>5. QED
    BY <2>1, <2>2, <2>3, <2>4 DEF TypeOK
<1>2. QED
  BY <1>1, SInvHolds, PTL

LEMMA AnsweredIsReached ==
    ASSUME NEW x
    PROVE  Answered(x) <=> Reached(call.found, call.args.max, x)
  BY DEF Answered, Reached, Found

LEMMA FirstScanIsExact ==
    ASSUME SInv, call.kind = "first_scan"
    PROVE  ScanIsExact
<1> DEFINE s == call.args
           f == call.found
<1>1. CASE call.fail # "none"
  <2>1. DOMAIN f = {}
    BY <1>1 DEF SInv, FirstScanned
  <2>2. QED
    BY <1>1, <2>1 DEF ScanIsExact, ScanIsSound, ScanIsComplete
<1>2. CASE call.fail = "none"
  <2>1. s \in FirstScans /\ FirstFault(s) = "none" /\ FirstState(s, call.at, f, past)
    BY <1>2 DEF SInv, FirstScanned
  <2>2. ScanIsSound
    <3>1. Ascends(f) /\ \A k \in DOMAIN f : FirstWitness(s, past, f[k])
      BY <2>1 DEF FirstState
    <3>2. QED
      BY <3>1 DEF ScanIsSound, Ascends, FirstWitness
  <2>3. ASSUME Over, NEW x \in s.start..s.start + s.range - Width,
               /\ x % s.align = 0
               /\ InOneChunk(s, x) /\ ChunkReadable(s, x)
               /\ \A m \in past : Hit(s, m, x)
        PROVE  Answered(x)
    <3>1. FirstHeld(s, past, x)
      BY <2>3 DEF FirstHeld, ChunkReadable
    <3>2. call.at >= s.range \/ s.range - call.at < Width \/ Len(f) >= s.max
      BY <1>2, <2>3 DEF Over, SessionOver, ScanOver, FirstOver
    <3>3. Reached(f, s.max, x)
      BY <2>1, <3>1, <3>2, FirstEnds
    <3>4. QED
      BY <3>3, AnsweredIsReached
  <2>4. ScanIsComplete
    BY <2>3 DEF ScanIsComplete
  <2>5. QED
    BY <2>2, <2>4 DEF ScanIsExact
<1>3. QED
  BY <1>1, <1>2

LEMMA AobScanIsExact ==
    ASSUME SInv, call.kind = "scan_aob"
    PROVE  ScanIsExact
<1> DEFINE s == call.args
           f == call.found
<1>1. CASE call.fail # "none" /\ f = <<>>
  <2>1. DOMAIN f = {} /\ Found = {}
    BY <1>1 DEF Found
  <2>2. QED
    BY <1>1, <2>1 DEF ScanIsExact, ScanIsSound, ScanIsComplete
<1>2. CASE AobArgs(s) /\ AobState(s, call.at, f, past)
  <2>1. ScanIsSound
    <3>1. /\ Ascends(f)
          /\ \A k \in DOMAIN f :
               /\ f[k].address + Len(s.pattern) <= s.start + s.length
               /\ \E m \in past : AobHit(s, m, f[k].address)
      BY <1>2 DEF AobState
    <3>2. \A x \in Found : \E m \in past :
             x + Len(s.pattern) <= s.start + s.length /\ AobHit(s, m, x)
      BY <3>1 DEF Found
    <3>3. QED
      BY <3>1, <3>2 DEF ScanIsSound, Ascends
  <2>2. ASSUME Over, call.fail = "none",
               NEW x \in s.start..s.start + s.length - Len(s.pattern),
               \A m \in past : AobHit(s, m, x)
        PROVE  Answered(x)
    <3>1. Len(s.pattern) > s.length \/ call.at >= s.length \/ Len(f) >= s.max
      BY <2>2 DEF Over, SessionOver, ScanOver, AobOver
    <3>2. Reached(f, s.max, x)
      BY <1>2, <2>2, <3>1, AobEnds
    <3>3. QED
      BY <3>2, AnsweredIsReached
  <2>3. ScanIsComplete
    BY <2>2 DEF ScanIsComplete
  <2>4. QED
    BY <2>1, <2>3 DEF ScanIsExact
<1>3. QED
  BY <1>1, <1>2 DEF SInv, AobScanned

\* Over any memory, range, chunk size, pattern and limit, and a target that writes, maps
\* and unmaps between any two chunks: a scan repeats no address, reports none that never
\* held what was asked for while it ran, and misses none that held it all the time in a
\* chunk that could be read, unless the answer was full before it (first_scan, scan_aob).
THEOREM ScansAreExact == Spec => []ScanIsExact
<1>1. ASSUME SInv
      PROVE  ScanIsExact
  <2>1. CASE call.kind = "first_scan"
    BY <1>1, <2>1, FirstScanIsExact
  <2>2. CASE call.kind = "scan_aob"
    BY <1>1, <2>2, AobScanIsExact
  <2>3. CASE call.kind \notin {"first_scan", "scan_aob"}
    BY <2>3 DEF ScanIsExact, ScanIsSound, ScanIsComplete
  <2>4. QED
    BY <2>1, <2>2, <2>3
<1>2. QED
  BY <1>1, SInvHolds, PTL

-----------------------------------------------------------------------------

\* The value RefineIsExact compares x with, and whether m meets the comparison.
OldValue(s, x) ==
    CHOOSE v \in {c.value : c \in {d \in {s.previous[k] : k \in DOMAIN s.previous} :
                                      d.address = x}} : TRUE
MeetsOld(s, m, x) == Mapped(m, x, Width) /\ Holds(s, ValueAt(m, x), OldValue(s, x))

\* A snapshot names an address once: the value compared is the one recorded with it.
LEMMA OldValueIs ==
    ASSUME NEW s, NextArgs(s), NEW i \in DOMAIN s.previous
    PROVE  OldValue(s, s.previous[i].address) = s.previous[i].value
<1> DEFINE p     == s.previous
           x     == p[i].address
           those == {d \in {p[k] : k \in DOMAIN p} : d.address = x}
<1>1. Ascends(p) /\ DOMAIN p = 1..Len(p) /\ Len(p) \in Nat
      /\ \A k \in DOMAIN p : p[k].address \in 1..Top - Width
  BY LenProperties DEF NextArgs
<1>2. \A k \in DOMAIN p : p[k].address = x => k = i
  <2>1. TAKE k \in DOMAIN p
  <2>2. k \in Nat /\ i \in Nat /\ p[k].address \in Int /\ p[i].address \in Int
    BY <1>1
  <2>3. k < i => p[k].address < p[i].address
    BY <1>1 DEF Ascends
  <2>4. i < k => p[i].address < p[k].address
    BY <1>1 DEF Ascends
  <2>5. QED
    BY <2>2, <2>3, <2>4
<1>3. those = {p[i]}
  BY <1>2
<1>4. {c.value : c \in those} = {p[i].value}
  BY <1>3
<1>5. OldValue(s, x) = CHOOSE v \in {c.value : c \in those} : TRUE
  BY DEF OldValue
<1> HIDE DEF those
<1>6. QED
  BY <1>4, <1>5

LEMMA NextScanIsExact ==
    ASSUME SInv, call.kind = "next_scan"
    PROVE  LET s == call.args
               before == {s.previous[k].address : k \in DOMAIN s.previous}
           IN /\ call.fail # "none" => Len(s.previous) > s.max \/ s.max = 0
              /\ \A j, k \in DOMAIN call.found :
                   j < k => call.found[j].address < call.found[k].address
              /\ \A k \in DOMAIN call.found :
                   /\ call.found[k].address \in before
                   /\ \E m \in past : /\ MeetsOld(s, m, call.found[k].address)
                                      /\ ValueAt(m, call.found[k].address) = call.found[k].value
              /\ Over /\ call.fail = "none" =>
                   \A x \in before : (\A m \in past : MeetsOld(s, m, x)) => x \in Found
<1> DEFINE s == call.args
           p == s.previous
           f == call.found
<1>1. /\ NextArgs(s) /\ DOMAIN p = 1..Len(p) /\ Len(p) \in Nat
      /\ call.fail # "none" => Len(p) > s.max \/ s.max = 0
  BY LenProperties DEF SInv, NextScanned, NextArgs
<1>2. \A m, i : i \in DOMAIN p => (MeetsAt(s, m, i) <=> MeetsOld(s, m, p[i].address))
  BY <1>1, OldValueIs DEF MeetsAt, MeetsOld
<1>3. CASE call.fail # "none"
  <2>1. DOMAIN f = {}
    BY <1>3 DEF SInv, NextScanned
  <2>2. QED
    BY <1>1, <1>3, <2>1
<1>4. CASE call.fail = "none"
  <2>1. /\ call.at \in 1..Len(p) + 1 /\ Ascends(f)
        /\ \A k \in DOMAIN f : \E i \in 1..call.at - 1 :
             /\ f[k].address = p[i].address
             /\ \E m \in past : MeetsAt(s, m, i) /\ ValueAt(m, f[k].address) = f[k].value
        /\ \A i \in 1..call.at - 1 :
             (\A m \in past : MeetsAt(s, m, i)) => \E k \in DOMAIN f : f[k].address = p[i].address
    BY <1>4 DEF SInv, NextScanned, NextState
  <2>2. \A i \in 1..call.at - 1 : i \in DOMAIN p
    BY <1>1, <2>1
  <2>3. \A k \in DOMAIN f :
          /\ f[k].address \in {p[i].address : i \in DOMAIN p}
          /\ \E m \in past : MeetsOld(s, m, f[k].address) /\ ValueAt(m, f[k].address) = f[k].value
    <3>1. TAKE k \in DOMAIN f
    <3>2. PICK i \in 1..call.at - 1 :
             /\ f[k].address = p[i].address
             /\ \E m \in past : MeetsAt(s, m, i) /\ ValueAt(m, f[k].address) = f[k].value
      BY <2>1
    <3>3. i \in DOMAIN p
      BY <2>2
    <3>4. \A m : MeetsAt(s, m, i) => MeetsOld(s, m, f[k].address)
      BY <1>2, <3>2, <3>3
    <3>5. QED
      BY <3>2, <3>3, <3>4
  <2>4. ASSUME Over, NEW i \in DOMAIN p, \A m \in past : MeetsOld(s, m, p[i].address)
        PROVE  p[i].address \in Found
    <3>1. call.at > Len(p)
      BY <1>4, <2>4 DEF Over, SessionOver, ScanOver
    <3>2. i \in 1..call.at - 1
      BY <1>1, <2>1, <3>1
    <3>3. \A m \in past : MeetsAt(s, m, i)
      BY <1>2, <2>4
    <3>4. PICK k \in DOMAIN f : f[k].address = p[i].address
      BY <2>1, <3>2, <3>3
    <3>5. QED
      BY <3>4 DEF Found
  <2>5. QED
    BY <1>4, <2>1, <2>3, <2>4 DEF Ascends
<1>5. QED
  BY <1>3, <1>4

\* Over any snapshot the library recorded, any memory and comparison, and a target that
\* writes between any two candidates: a refinement refuses none of its own addresses,
\* keeps the order, adds nothing, keeps every candidate that met the comparison all the
\* time and none that never did, and records the value it compared (next_scan,
\* refine_candidates).
THEOREM RefinementsAreExact == Spec => []RefineIsExact
<1>1. ASSUME SInv
      PROVE  RefineIsExact
  <2>1. SUFFICES ASSUME call.kind = "next_scan"
                 PROVE  RefineIsExact
    BY DEF RefineIsExact
  <2>2. QED
    BY <1>1, <2>1, NextScanIsExact DEF RefineIsExact, MeetsOld, OldValue
<1>2. QED
  BY <1>1, SInvHolds, PTL

-----------------------------------------------------------------------------
(* Writes *)

\* A string ends before the first NUL, or where the bytes do.
LEMMA TextEnds ==
    ASSUME NEW S, NEW bytes \in Seq(S), NEW needsNul,
           FromBytes(bytes, Len(bytes), needsNul).fail = "none"
    PROVE  \E n \in 0..Len(bytes) :
             /\ FromBytes(bytes, Len(bytes), needsNul) = Got(SubSeq(bytes, 1, n))
             /\ \A i \in 1..n : bytes[i] # 0
             /\ n < Len(bytes) => bytes[n + 1] = 0
<1> DEFINE l    == Len(bytes)
           nuls == {i \in 1..l : bytes[i] = 0}
           ends == {i \in 1..l+1 : \A j \in nuls : i <= j}
           e    == CHOOSE i \in ends : \A j \in ends : j <= i
<1>1. l \in Nat
  OBVIOUS
<1>2. FromBytes(bytes, l, needsNul) = Got(SubSeq(bytes, 1, e - 1))
  <2>1. (IF l < l THEN l ELSE l) = l
    OBVIOUS
  <2>2. \/ FromBytes(bytes, l, needsNul) = Failed("invalid_string")
        \/ FromBytes(bytes, l, needsNul) = Got(SubSeq(bytes, 1, e - 1))
    BY <2>1 DEF FromBytes
  <2>3. FromBytes(bytes, l, needsNul).fail = "none"
    OBVIOUS
  <2> HIDE DEF l, e
  <2>4. QED
    BY ONLY <2>2, <2>3 DEF Failed
<1>3. e \in ends /\ \A j \in ends : j <= e
  <2>1. 1 \in ends
    BY <1>1
  <2>2. ends \subseteq Int
    OBVIOUS
  <2>3. IsFiniteSet(1..l+1) /\ ends \subseteq 1..l+1
    BY <1>1, FS_Interval
  <2>4. IsFiniteSet(ends)
    BY <2>3, FS_Subset
  <2> HIDE DEF ends
  <2>5. \E i \in ends : \A j \in ends : j <= i
    BY <2>1, <2>2, <2>4, GreatestExists
  <2>6. QED
    BY <2>5
<1> HIDE DEF e
<1>4. e \in 1..l+1 /\ \A j \in nuls : e <= j
  BY <1>3
<1>5. \A i \in 1..e-1 : bytes[i] # 0
  BY <1>1, <1>4
<1>6. e - 1 < l => bytes[e] = 0
  <2>1. SUFFICES ASSUME e - 1 < l, bytes[e] # 0
                 PROVE  FALSE
    OBVIOUS
  <2>2. e \notin nuls
    BY <2>1
  <2>3. \A j \in nuls : e + 1 <= j
    BY <1>1, <1>4, <2>2
  <2>4. e + 1 \in ends
    BY <1>1, <1>4, <2>1, <2>3
  <2> HIDE DEF ends, nuls
  <2>5. e + 1 <= e
    BY <1>3, <2>4
  <2>6. QED
    BY ONLY <1>1, <1>4, <2>5
<1>7. e - 1 \in 0..l /\ (e - 1) + 1 = e
  BY <1>1, <1>4
<1> HIDE DEF l
<1>8. QED
  BY <1>2, <1>5, <1>6, <1>7 DEF l

\* A text without NUL, stored with its terminator, reads back as it was.
LEMMA TextReadsBack ==
    ASSUME NEW text \in Seq(Byte \ {0}), NEW size \in Nat, NEW S, NEW bytes \in Seq(S),
           Len(bytes) = size, Len(text) + 1 <= size,
           \A i \in 1..Len(text) : bytes[i] = text[i],
           bytes[Len(text) + 1] = 0
    PROVE  FromBytes(bytes, size, TRUE) = Got(text)
<1>1. Len(text) \in Nat /\ \A i \in 1..Len(text) : text[i] # 0
  OBVIOUS
<1>2. FromBytes(bytes, size, TRUE).fail = "none"
  <2>1. Len(text) + 1 \in 1..size /\ size # 0
    BY <1>1
  <2> DEFINE nuls == {i \in 1..(IF Len(bytes) < size THEN Len(bytes) ELSE size) : bytes[i] = 0}
  <2>2. Len(text) + 1 \in nuls
    BY <2>1
  <2>3. nuls # {}
    BY <2>2
  <2>4. QED
    BY <2>1, <2>3 DEF FromBytes, Got
<1>3. PICK n \in 0..size :
         /\ FromBytes(bytes, size, TRUE) = Got(SubSeq(bytes, 1, n))
         /\ \A i \in 1..n : bytes[i] # 0
         /\ n < size => bytes[n + 1] = 0
  BY <1>2, TextEnds
<1>4. n = Len(text)
  <2>1. ~(n < Len(text))
    <3>1. SUFFICES ASSUME n < Len(text)
                   PROVE  FALSE
      OBVIOUS
    <3>2. n + 1 \in 1..Len(text) /\ n < size
      BY <1>1, <3>1
    <3>3. QED
      BY <1>1, <1>3, <3>2
  <2>2. ~(n > Len(text))
    <3>1. SUFFICES ASSUME n > Len(text)
                   PROVE  FALSE
      OBVIOUS
    <3>2. Len(text) + 1 \in 1..n
      BY <1>1, <3>1
    <3>3. QED
      BY <1>3, <3>2
  <2>3. QED
    BY <1>1, <2>1, <2>2
<1>5. SubSeq(bytes, 1, n) = text
  <2>1. Len(SubSeq(bytes, 1, n)) = n /\ SubSeq(bytes, 1, n) \in Seq(S \cup Int)
    OBVIOUS
  <2>2. \A i \in 1..n : SubSeq(bytes, 1, n)[i] = text[i]
    BY <1>4
  <2>3. text \in Seq(S \cup Int) /\ Len(text) = n
    <3>1. Byte \ {0} \subseteq Int
      BY MemoryAssumption
    <3>2. QED
      BY <1>4, <3>1
  <2> HIDE DEF Got
  <2>4. QED
    BY ONLY <2>1, <2>2, <2>3, SeqEqual
<1>6. QED
  BY <1>3, <1>5

\* A write, whatever becomes of it, stays where it was asked to.
LEMMA WriteStays ==
    ASSUME NEW m \in Memories, NEW a \in Addresses, NEW bytes \in Seq(Byte),
           NEW r \in Written(m, a, bytes), NEW x \in Addresses, r.mem[x] # m[x]
    PROVE  x \in a..a + Len(bytes) - 1
<1>1. Len(bytes) \in Nat /\ DOMAIN bytes = 1..Len(bytes)
  OBVIOUS
<1>2. ASSUME NEW b \in Seq(Byte), Len(b) <= Len(bytes), r.mem = Stored(m, a, b)
      PROVE  x \in a..a + Len(bytes) - 1
  <2>1. x - a + 1 \in DOMAIN b
    BY <1>2 DEF Stored
  <2>2. x - a + 1 \in 1..Len(bytes)
    BY <1>1, <1>2, <2>1
  <2>3. QED
    BY <1>1, <2>2, MemoryAssumption DEF Addresses
<1>3. ASSUME NEW k \in 0..Len(bytes)-1, r.mem = Stored(m, a, SubSeq(bytes, 1, k))
      PROVE  x \in a..a + Len(bytes) - 1
  <2>1. /\ SubSeq(bytes, 1, k) \in Seq(Byte) /\ Len(SubSeq(bytes, 1, k)) = k
        /\ k <= Len(bytes)
    BY <1>1
  <2> DEFINE b == SubSeq(bytes, 1, k)
  <2>2. b \in Seq(Byte) /\ Len(b) <= Len(bytes) /\ r.mem = Stored(m, a, b)
    BY <1>3, <2>1
  <2> HIDE DEF b
  <2>3. QED
    BY <1>2, <2>2
<1>4. r.mem # m
  OBVIOUS
<1>5. \/ r.mem = Stored(m, a, bytes)
      \/ \E k \in 0..Len(bytes)-1 : r.mem = Stored(m, a, SubSeq(bytes, 1, k))
  BY <1>4 DEF Written, Put
<1>6. QED
  BY <1>1, <1>2, <1>3, <1>5

\* The text that is written, with its terminator.
LEMMA TextFacts ==
    ASSUME NEW text \in Seq(Byte \ {0}), NEW size, ToBytes(text, size).fail = "none",
           size \in Nat
    PROVE  /\ ToBytes(text, size).bytes = Append(text, 0)
           /\ Append(text, 0) \in Seq(Byte) /\ Len(text) \in Nat
           /\ Len(Append(text, 0)) = Len(text) + 1 /\ Len(text) + 1 <= size
           /\ \A i \in 1..Len(text) : Append(text, 0)[i] = text[i]
           /\ Append(text, 0)[Len(text) + 1] = 0
<1>1. Len(text) \in Nat
  OBVIOUS
<1>2. ~(size < Len(text) + 1)
  BY DEF ToBytes, Failed
<1>3. ToBytes(text, size) = Got(Append(text, 0)) /\ Len(text) + 1 <= size
  BY <1>1, <1>2 DEF ToBytes
<1>4. text \in Seq(Byte) /\ 0 \in Byte
  BY MemoryAssumption
<1>5. QED
  BY <1>1, <1>3, <1>4 DEF Got

\* What a step of the library changes lies in the cells it was asked to write.
LEMMA StepStays ==
    ASSUME LInv, SessionStep, NEW x \in Addresses, mem'[x] # mem[x]
    PROVE  x \in Extent
<1>1. mem \in Memories /\ CallArgs(call.kind, call.args)
  BY DEF LInv
<1>2. CASE VerifyWrite
  <2>1. /\ call.kind = "verify"
        /\ \E r \in Written(mem, call.args.base, call.args.value) : mem' = r.mem
    BY <1>2 DEF VerifyWrite, Running, GoOnWriting
  <2>2. /\ call.args.base \in Addresses
        /\ call.args.value \in Seq(Byte) /\ Len(call.args.value) = Width
    BY <1>1, <2>1, ArgsFacts
  <2>3. x \in call.args.base..call.args.base + Width - 1
    BY <1>1, <2>1, <2>2, WriteStays
  <2>4. QED
    BY <2>1, <2>3 DEF Extent
<1>3. CASE BatchWrite
  <2>1. /\ call.kind = "write_offsets" /\ call.at <= Len(call.args.offsets)
        /\ \E r \in Written(mem, Targets[call.at], call.args.value) : mem' = r.mem
    BY <1>3 DEF BatchWrite, Running, GoOnWriting
  <2>2. /\ call.args.base \in Addresses /\ call.args.offsets \in Seq(Nat)
        /\ call.args.value \in Seq(Byte) /\ Len(call.args.value) = Width
    BY <1>1, <2>1, ArgsFacts DEF SessionKinds
  <2>3. call.at \in DOMAIN call.args.offsets
    <3>1. call.at = Len(call.found) + 1 /\ call.found \in Seq(Nat)
      BY <2>1 DEF LInv, InStep, SessionKinds
    <3>2. Len(call.found) \in Nat /\ Len(call.args.offsets) \in Nat
      BY <2>2, <3>1, LenProperties
    <3>3. DOMAIN call.args.offsets = 1..Len(call.args.offsets)
      BY <2>2, LenProperties
    <3>4. QED
      BY ONLY <2>1, <3>1, <3>2, <3>3
  <2>4. Targets[call.at] \in Addresses
    <3>1. call.args.offsets[call.at] \in Nat
      BY <2>2, <2>3
    <3>2. call.args.base \in Nat
      BY <2>2, MemoryAssumption DEF Addresses
    <3>3. QED
      BY <2>3, <3>1, <3>2, PlusType DEF Targets
  <2>5. x \in Targets[call.at]..Targets[call.at] + Width - 1
    BY <1>1, <2>1, <2>2, <2>4, WriteStays
  <2>6. QED
    BY <2>1, <2>5 DEF Extent
<1>4. CASE WriteString
  <2> DEFINE t == ToBytes(call.args.text, call.args.size)
  <2>1. call.kind = "write_string"
    BY <1>4 DEF WriteString, Running
  <2>2. t.fail = "none" /\ \E r \in Written(mem, call.args.base, t.bytes) : mem' = r.mem
    BY <1>4 DEF WriteString, GoOn, GoOnWriting
  <2>3. /\ call.args.base \in Addresses /\ call.args.size \in Nat
        /\ call.args.text \in Seq(Byte \ {0})
    BY <1>1, <2>1 DEF CallArgs, SessionCalls
  <2>4. /\ t.bytes \in Seq(Byte) /\ Len(t.bytes) \in Nat /\ Len(t.bytes) <= call.args.size
    <3> DEFINE b == Append(call.args.text, 0)
    <3>1. t.fail = "none" /\ call.args.size \in Nat /\ call.args.text \in Seq(Byte \ {0})
      BY <2>2, <2>3
    <3>2. /\ t.bytes = b /\ b \in Seq(Byte) /\ Len(call.args.text) \in Nat
          /\ Len(b) = Len(call.args.text) + 1 /\ Len(call.args.text) + 1 <= call.args.size
      BY ONLY <3>1, TextFacts
    <3> HIDE DEF b, t
    <3>3. QED
      BY ONLY <3>2
  <2> HIDE DEF t
  <2>5. x \in call.args.base..call.args.base + Len(t.bytes) - 1
    BY <1>1, <2>2, <2>3, <2>4, WriteStays
  <2>6. x \in call.args.base..call.args.base + call.args.size - 1
    <3>1. ASSUME NEW a \in Nat, NEW n \in Nat, NEW l \in Nat, l <= n, x \in a..a + l - 1
          PROVE  x \in a..a + n - 1
      BY <3>1
    <3>2. call.args.base \in Nat
      BY <2>3, MemoryAssumption DEF Addresses
    <3>3. QED
      BY <2>3, <2>4, <2>5, <3>1, <3>2
  <2>7. QED
    BY <2>1, <2>6 DEF Extent
<1>5. CASE mem' = mem
  BY <1>5
<1>6. QED
  BY <1>2, <1>3, <1>4, <1>5 DEF SessionStep, ReadBytes, ReadString, VerifyRead, ResolveStep,
     BatchRead, GoOn

\* A failed call says so.
LEMMA FailureShows ==
    ASSUME LInv, NEW e, e # "none", call' = FailWith(e)
    PROVE  call'.fail # "none"
<1>1. call' = [kind |-> call.kind, args |-> call.args, at |-> call.at,
               found |-> call.found, fail |-> e]
  BY CallFields DEF LInv
<1>2. QED
  BY <1>1

\* A verification ends well only on a read that gave what was written.
LEMMA VerifiedIsThere ==
    ASSUME LInv, VerifyWrite \/ VerifyRead, Over', call'.fail = "none"
    PROVE  Holding(mem', call.args.base, call.args.value)
<1>1. mem \in Memories /\ CallArgs(call.kind, call.args) /\ call.kind = "verify" /\ CallShape
  BY DEF LInv, VerifyWrite, VerifyRead, Running
<1>2. /\ call.args.base \in Addresses /\ Width \in Nat
      /\ Len(call.args.value) = Width /\ DOMAIN call.args.value = 1..Width
  BY <1>1, ArgsFacts, SessionAssumption, MemoryAssumption
<1>3. CASE VerifyWrite
  <2>1. call' = [call EXCEPT !.at = 2] \/ \E e : e # "none" /\ call' = FailWith(e)
    BY <1>3 DEF VerifyWrite, GoOnWriting
  <2>2. call' = [call EXCEPT !.at = 2]
    BY <2>1, FailureShows
  <2>3. call' = [kind |-> call.kind, args |-> call.args, at |-> 2,
                 found |-> call.found, fail |-> call.fail]
    BY <1>1, <2>2, CallFields
  <2>4. call'.kind = "verify" /\ call'.at = 2
    BY <1>1, <2>3
  <2>5. QED
    BY <2>4 DEF Over, SessionOver, ScanOver
<1>4. CASE VerifyRead
  <2> DEFINE r == Read(mem, call.args.base, Width)
  <2>1. /\ mem' = mem
        /\ call' = IF r.fail # "none" THEN FailWith(r.fail)
                   ELSE IF r.bytes # call.args.value THEN FailWith("verification_mismatch")
                   ELSE With(r.bytes)
    BY <1>4 DEF VerifyRead, GoOn
  <2>2. r.fail = "none" /\ r.bytes = call.args.value
    <3> HIDE DEF r
    <3>1. CASE r.fail # "none"
      BY <2>1, <3>1, FailureShows
    <3>2. CASE r.fail = "none" /\ r.bytes # call.args.value
      <4>1. call' = FailWith("verification_mismatch")
        BY <2>1, <3>2
      <4>2. QED
        BY <4>1, FailureShows
    <3>3. QED
      BY <3>1, <3>2
  <2>3. call.args.value = Cells(mem, call.args.base, Width)
    BY <1>1, <1>2, <2>2, ReadFacts
  <2>4. \A i \in 1..Width : call.args.value[i] = mem[call.args.base + i - 1]
    BY <2>3 DEF Cells
  <2>5. QED
    BY <1>2, <2>1, <2>4 DEF Holding
<1>5. QED
  BY <1>3, <1>4

\* A string that was written reads back: it is there, with its terminator.
LEMMA WrittenTextIsThere ==
    ASSUME LInv, WriteString, call'.fail = "none"
    PROVE  FromBytes(Cells(mem', call.args.base, call.args.size), call.args.size, TRUE)
             = Got(call.args.text)
<1> DEFINE a    == call.args.base
           n    == call.args.size
           text == call.args.text
           b    == Append(text, 0)
           c    == Cells(mem', a, n)
<1>1. mem \in Memories /\ CallArgs(call.kind, call.args) /\ call.kind = "write_string"
  BY DEF LInv, WriteString, Running
<1>2. a \in Addresses /\ a \in Nat /\ n \in Nat /\ text \in Seq(Byte \ {0})
  BY <1>1, MemoryAssumption DEF CallArgs, SessionCalls, Addresses
<1>3. ToBytes(text, n).fail = "none"
  <2>1. CASE ToBytes(text, n).fail # "none"
    <3>1. call' = FailWith(ToBytes(text, n).fail)
      BY <2>1 DEF WriteString, GoOn
    <3>2. QED
      BY <2>1, <3>1, FailureShows
  <2>2. QED
    BY <2>1
<1>4. /\ ToBytes(text, n).bytes = b
      /\ b \in Seq(Byte) /\ Len(text) \in Nat
      /\ Len(b) = Len(text) + 1 /\ Len(text) + 1 <= n
      /\ \A i \in 1..Len(text) : b[i] = text[i]
      /\ b[Len(text) + 1] = 0
  BY ONLY <1>2, <1>3, TextFacts
<1>5. PICK r \in Written(mem, a, b) : r.fail = "none" /\ mem' = r.mem
  <2>1. PICK r \in Written(mem, a, b) :
           /\ mem' = r.mem
           /\ call' = IF r.fail = "none" THEN With(text) ELSE FailWith(r.fail)
    BY <1>3, <1>4 DEF WriteString, GoOnWriting
  <2>2. r.fail = "none"
    BY <2>1, FailureShows
  <2>3. QED
    BY <2>1, <2>2
<1>6. Holding(mem', a, b) /\ mem' \in Memories
  BY <1>1, <1>2, <1>4, <1>5, WriteFacts
<1>7. /\ \A i \in 1..Len(text) : mem'[a + i - 1] = text[i]
      /\ mem'[a + (Len(text) + 1) - 1] = 0
  <2>1. DOMAIN b = 1..Len(text) + 1
    BY <1>4, LenProperties
  <2>2. \A i \in 1..Len(text) + 1 : mem'[a + i - 1] = b[i]
    BY <1>6, <2>1 DEF Holding
  <2> HIDE DEF a, b, text
  <2>3. \A i \in 1..Len(text) : i \in 1..Len(text) + 1
    BY <1>4
  <2>4. Len(text) + 1 \in 1..Len(text) + 1
    BY <1>4
  <2>5. QED
    BY ONLY <1>4, <2>2, <2>3, <2>4
<1>8. /\ \A i \in 1..Len(text) : c[i] = text[i]
      /\ c[Len(text) + 1] = 0
  <2>1. \A i \in 1..n : c[i] = mem'[a + i - 1]
    BY DEF Cells
  <2> HIDE DEF a, n, text, c
  <2>2. \A i \in 1..Len(text) : i \in 1..n
    BY <1>2, <1>4
  <2>3. Len(text) + 1 \in 1..n
    BY <1>2, <1>4
  <2>4. QED
    BY ONLY <1>7, <2>1, <2>2, <2>3
<1>9. c \in Seq({c[i] : i \in 1..n}) /\ Len(c) = n
  <2>1. c \in [1..n -> {c[i] : i \in 1..n}]
    BY DEF Cells
  <2> HIDE DEF c, n
  <2>2. QED
    BY <1>2, <2>1, FunctionIsSequence
<1> HIDE DEF a, n, text, b, c
<1>10. FromBytes(c, n, TRUE) = Got(text)
  BY ONLY <1>2, <1>4, <1>8, <1>9, TextReadsBack
<1>11. QED
  BY <1>10 DEF a, n, text, c

\* A string that was read is what the target holds there, up to where it ends.
LEMMA ReadTextIsThere ==
    ASSUME LInv, SInv, ReadString, call'.fail = "none"
    PROVE  Holding(mem', call.args.base, call'.found[1])
<1> DEFINE a == call.args.base
           n == call.args.size
           b == call.args.needsNul
           r == Read(mem, a, n)
           t == FromBytes(r.bytes, n, b)
<1>1. /\ mem \in Memories /\ CallArgs(call.kind, call.args) /\ call.kind = "read_string"
      /\ call.found = <<>> /\ mem' = mem
  BY DEF LInv, SInv, Fresh, ReadString, Running, GoOn
<1>2. a \in Addresses /\ n \in Nat
  BY <1>1 DEF CallArgs, SessionCalls
<1>3. r.fail = "none" /\ t.fail = "none" /\ call' = With(t.bytes)
  <2>1. call' = IF n = 0 THEN FailWith("invalid_string")
                ELSE IF r.fail # "none" THEN FailWith(r.fail)
                ELSE IF t.fail # "none" THEN FailWith(t.fail)
                ELSE With(t.bytes)
    BY DEF ReadString, GoOn
  <2> HIDE DEF n, r, t
  <2>2. \A e : e # "none" => call' # FailWith(e)
    BY FailureShows
  <2>3. QED
    BY <2>1, <2>2
<1>4. r.bytes = Cells(mem, a, n)
  BY <1>1, <1>2, <1>3, ReadFacts
<1> HIDE DEF a, n, b, r
<1>5. r.bytes \in Seq({mem[a + i - 1] : i \in 1..n}) /\ Len(r.bytes) = n
  <2>1. r.bytes \in [1..n -> {mem[a + i - 1] : i \in 1..n}]
    BY <1>4 DEF Cells
  <2>2. QED
    BY <1>2, <2>1, FunctionIsSequence
<1>6. PICK k \in 0..n : t = Got(SubSeq(r.bytes, 1, k))
  <2>1. FromBytes(r.bytes, Len(r.bytes), b).fail = "none"
    BY <1>3, <1>5
  <2> HIDE DEF t
  <2>2. \E k \in 0..Len(r.bytes) :
           FromBytes(r.bytes, Len(r.bytes), b) = Got(SubSeq(r.bytes, 1, k))
    BY ONLY <1>5, <2>1, TextEnds
  <2>3. QED
    BY <1>5, <2>2 DEF t
<1> HIDE DEF t
<1>7. call'.found[1] = SubSeq(r.bytes, 1, k)
  <2>1. call'.found = Append(<<>>, t.bytes)
    BY <1>1, <1>3 DEF With, Moved
  <2>2. t.bytes = SubSeq(r.bytes, 1, k)
    BY <1>6 DEF Got
  <2>3. QED
    BY <2>1, <2>2
<1>8. /\ DOMAIN SubSeq(r.bytes, 1, k) = 1..k
      /\ \A i \in 1..k : SubSeq(r.bytes, 1, k)[i] = r.bytes[i]
  <2> DEFINE q == r.bytes
  <2>1. q \in Seq({mem[a + i - 1] : i \in 1..n}) /\ k \in 0..Len(q)
    BY <1>5
  <2> HIDE DEF q
  <2>2. DOMAIN SubSeq(q, 1, k) = 1..k /\ \A i \in 1..k : SubSeq(q, 1, k)[i] = q[i]
    BY ONLY <2>1
  <2>3. QED
    BY <2>2 DEF q
<1>9. \A i \in 1..k : r.bytes[i] = mem[a + i - 1]
  <2>1. \A i \in 1..k : i \in 1..n
    BY <1>2, <1>6
  <2>2. QED
    BY <1>4, <2>1 DEF Cells
<1>10. Holding(mem', a, SubSeq(r.bytes, 1, k))
  BY <1>1, <1>8, <1>9 DEF Holding
<1>11. QED
  BY <1>7, <1>10 DEF a

\* What WritesAreExact says of a step.
WriteIsExact ==
    /\ moves' = moves => \A a \in Addresses : mem'[a] # mem[a] => a \in Extent
    /\ call' # call /\ Over' /\ call'.fail = "none" =>
         /\ call.kind = "verify" => Holding(mem', call.args.base, call.args.value)
         /\ call.kind = "write_string" =>
              FromBytes(Cells(mem', call.args.base, call.args.size), call.args.size, TRUE)
                = Got(call.args.text)
         /\ call.kind = "read_string" => Holding(mem', call.args.base, call'.found[1])

LEMMA SessionWrites ==
    ASSUME LInv, SInv, SessionStep
    PROVE  WriteIsExact
<1>1. \A a \in Addresses : mem'[a] # mem[a] => a \in Extent
  BY StepStays
<1>2. ASSUME Over', call'.fail = "none"
      PROVE  /\ call.kind = "verify" => Holding(mem', call.args.base, call.args.value)
             /\ call.kind = "write_string" =>
                  FromBytes(Cells(mem', call.args.base, call.args.size), call.args.size, TRUE)
                    = Got(call.args.text)
             /\ call.kind = "read_string" => Holding(mem', call.args.base, call'.found[1])
  <2>1. /\ call.kind = "verify" => VerifyWrite \/ VerifyRead
        /\ call.kind = "write_string" => WriteString
        /\ call.kind = "read_string" => ReadString
    BY DEF SessionStep, ReadBytes, ReadString, WriteString, VerifyWrite, VerifyRead,
       ResolveStep, BatchRead, BatchWrite, Running
  <2>2. QED
    BY <1>2, <2>1, VerifiedIsThere, WrittenTextIsThere, ReadTextIsThere
<1>3. QED
  BY <1>1, <1>2 DEF WriteIsExact

LEMMA StepWrites ==
    ASSUME LInv, SInv, Next
    PROVE  WriteIsExact
<1>1. CASE SessionStep
  BY <1>1, SessionWrites
<1>2. CASE mem' = mem /\ call.kind \notin {"verify", "write_string", "read_string"}
  BY <1>2, Zenon DEF WriteIsExact
<1>3. CASE TargetMoves
  <2>1. call' = call /\ moves' = moves + 1
    BY <1>3 DEF TargetMoves
  <2>2. moves \in 0..MaxMoves
    BY DEF SInv
  <2>3. moves' # moves
    BY <2>1, <2>2, SessionAssumption
  <2>4. QED
    BY <2>1, <2>3, Zenon DEF WriteIsExact
<1>4. CASE \/ call.kind = "none" /\ \/ \E c \in Calls : BeginSession(c)
                                    \/ \E s \in FirstScans : FirstScan(s)
                                    \/ \E s \in AobScans : AobScan(s)
           \/ \E s \in NextScans : NextScan(s, s.upper) \/ RefineCandidates(s)
  <2>1. mem' = mem
    BY <1>4, Zenon DEF BeginSession, FirstScan, AobScan, NextScan, RefineCandidates, Begin
  <2>2. call.kind = "none" \/ call.kind \in {"first_scan", "next_scan"}
    BY <1>4, Zenon DEF NextScan, RefineCandidates
  <2>3. QED
    BY <1>2, <2>1, <2>2
<1>5. CASE ScanStep
  <2>1. mem' = mem /\ call.kind \in {"first_scan", "next_scan", "scan_aob"}
    <3>1. CASE FirstChunk
      BY <3>1, Zenon DEF FirstChunk, GoOn, Running
    <3>2. CASE NextCandidate
      BY <3>2, Zenon DEF NextCandidate, GoOn, Running
    <3>3. CASE AobChunk
      BY <3>3, Zenon DEF AobChunk, GoOn, Running
    <3>4. QED
      BY <1>5, <3>1, <3>2, <3>3 DEF ScanStep
  <2>2. QED
    BY <1>2, <2>1
<1>6. QED
  BY <1>1, <1>3, <1>4, <1>5, Zenon DEF Next

\* Whatever the target does between two requests, and whatever a failed write left
\* behind: the library changes no cell outside what it was asked to write, a verified
\* value is there when the call answers, and a string reads back as it was written, with
\* its terminator (compare_write_verify, write_string, read_string, write_offsets).
THEOREM WritesStayInPlace == Spec => WritesAreExact
<1>1. LInv /\ SInv /\ [Next]_vars => [WriteIsExact]_vars
  BY StepWrites
<1>2. Spec => [][WriteIsExact]_vars
  BY <1>1, SInvHolds, PTL DEF Spec
<1>3. QED
  BY <1>2 DEF WritesAreExact, WriteIsExact
=============================================================================
