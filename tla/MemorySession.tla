---------------------------- MODULE MemorySession ----------------------------
(***************************************************************************)
(* MemorySession (include/gtlibcpp/memory_session.hpp): the calls that go  *)
(* to the backend more than once, while the target runs on.                *)
(*                                                                         *)
(* One client thread makes calls one after the other.  Every call of the   *)
(* backend is one step; between two of them the target may write, map or   *)
(* unmap a cell.  Values of a type T take Width cells, a pointer one.      *)
(***************************************************************************)
EXTENDS TargetMemory

CONSTANTS
    Width,     \* sizeof(T), in cells
    MaxMoves,  \* the target stands still after this many steps
    Images,    \* the memories to start from
    Calls      \* the session calls the client makes: [kind, args]

ASSUME SessionAssumption ==
    Width \in 1..MaxSize /\ MaxMoves \in Nat /\ Images \subseteq Memories

SessionCalls == {"read", "read_string", "write_string", "verify",
                 "resolve", "read_offsets", "write_offsets"}

\* A call is about an address; a value is written whole, and a BoundedString, which
\* from_utf8 alone can make, holds no NUL.
CallArgs(kind, args) ==
    /\ kind \in SessionCalls => args.base \in Addresses
    /\ kind \in {"resolve", "read_offsets", "write_offsets"} => args.offsets \in Seq(Nat)
    /\ kind \in {"verify", "write_offsets"} => args.value \in [1..Width -> Byte]
    /\ kind \in {"read", "read_string", "write_string"} => args.size \in Nat
    /\ kind = "write_string" => args.text \in Seq(Byte \ {0})

ASSUME CallsAssumption ==
    \A c \in Calls : c.kind \in SessionCalls /\ CallArgs(c.kind, c.args)

VARIABLES
    mem,    \* the target's memory
    call,   \* the call in progress, or the last one
    moves,  \* target steps so far
    past    \* the memories the target has had since the call began; not in the code

sessionVars == <<mem, call, moves, past>>

\* at: how far the call is; found: what it has read, resolved, completed or
\* matched so far; fail: the error it ends with.
NewCall(kind, args, at, fail) ==
    [kind |-> kind, args |-> args, at |-> at, found |-> <<>>, fail |-> fail]

SessionInit ==
    /\ mem \in Images
    /\ call = NewCall("none", <<>>, 1, "none")
    /\ moves = 0
    /\ past = {mem}

Begin(c) ==
    /\ call' = c
    /\ past' = {mem}
    /\ UNCHANGED <<mem, moves>>

\* The call goes on, or ends, without having written.
GoOn(c) == call' = c /\ UNCHANGED <<mem, moves, past>>

\* The call has written, or tried to: r is the result.
GoOnWriting(c, r) ==
    /\ call' = c
    /\ mem' = r.mem
    /\ past' = past \cup {r.mem}
    /\ UNCHANGED moves

Moved(at, found) ==
    [kind |-> call.kind, args |-> call.args, at |-> at, found |-> found, fail |-> call.fail]
With(value)   == Moved(call.at + 1, Append(call.found, value))
FailWith(err) == [call EXCEPT !.fail = err]
Running(kind) == call.kind = kind /\ call.fail = "none"

Targets == [i \in DOMAIN call.args.offsets |-> Plus(call.args.base, call.args.offsets[i])]

-----------------------------------------------------------------------------
(* read<T>, read_bytes, read_string, write_string *)

ReadBytes ==
    /\ Running("read") /\ call.at = 1
    /\ LET r == Read(mem, call.args.base, call.args.size)
       IN GoOn(IF r.fail = "none" THEN With(r.bytes) ELSE FailWith(r.fail))

ReadString ==
    /\ Running("read_string") /\ call.at = 1
    /\ LET r == Read(mem, call.args.base, call.args.size)
           t == FromBytes(r.bytes, call.args.size, call.args.needsNul)
       IN GoOn(IF call.args.size = 0 THEN FailWith("invalid_string")
               ELSE IF r.fail # "none" THEN FailWith(r.fail)
               ELSE IF t.fail # "none" THEN FailWith(t.fail)
               ELSE With(t.bytes))

\* Mutant: the terminator is not written.
WriteString_Open ==
    /\ Running("write_string") /\ call.at = 1
    /\ \E r \in Written(mem, call.args.base, call.args.text) :
          GoOnWriting(IF r.fail = "none" THEN With(call.args.text) ELSE FailWith(r.fail), r)

WriteString ==
    /\ Running("write_string") /\ call.at = 1
    /\ LET t == ToBytes(call.args.text, call.args.size)
       IN IF t.fail # "none" THEN GoOn(FailWith(t.fail))
          ELSE \E r \in Written(mem, call.args.base, t.bytes) :
                  GoOnWriting(IF r.fail = "none" THEN With(call.args.text)
                              ELSE FailWith(r.fail), r)

-----------------------------------------------------------------------------
(* compare_write_verify *)

VerifyWrite ==
    /\ Running("verify") /\ call.at = 1
    /\ \E r \in Written(mem, call.args.base, call.args.value) :
          GoOnWriting(IF r.fail = "none" THEN [call EXCEPT !.at = 2]
                      ELSE FailWith(r.fail), r)

\* Every branch returns: the loop over max_attempts has one iteration.
VerifyRead ==
    /\ Running("verify") /\ call.at = 2
    /\ LET r == Read(mem, call.args.base, Width)
       IN GoOn(IF r.fail # "none" THEN FailWith(r.fail)
               ELSE IF r.bytes # call.args.value THEN FailWith("verification_mismatch")
               ELSE With(r.bytes))

-----------------------------------------------------------------------------
(* resolve_pointer_chain *)

\* Mutant: every link is looked up from the base.
ResolveStep_FromBase ==
    /\ Running("resolve") /\ call.at <= Len(call.args.offsets)
    /\ LET from == call.args.base
           r    == Read(mem, Plus(from, call.args.offsets[call.at]), 1)
       IN GoOn(IF r.fail # "none" THEN FailWith(r.fail)
               ELSE IF r.bytes[1] = 0 THEN FailWith("invalid_address")
               ELSE With(r.bytes[1]))

\* One link: the pointer at the last one plus the next offset; NULL ends the walk.
ResolveStep ==
    /\ Running("resolve") /\ call.at <= Len(call.args.offsets)
    /\ LET from == IF call.at = 1 THEN call.args.base ELSE call.found[call.at - 1]
           r    == Read(mem, Plus(from, call.args.offsets[call.at]), 1)
       IN GoOn(IF r.fail # "none" THEN FailWith(r.fail)
               ELSE IF r.bytes[1] = 0 THEN FailWith("invalid_address")
               ELSE With(r.bytes[1]))

-----------------------------------------------------------------------------
(* read_offsets, write_offsets *)

BatchRead ==
    /\ Running("read_offsets") /\ call.at <= Len(call.args.offsets)
    /\ LET r == Read(mem, Targets[call.at], call.args.size)
       IN GoOn(IF r.fail = "none" THEN With(Targets[call.at]) ELSE FailWith(r.fail))

\* Mutant: an offset that fails is passed over.
BatchWrite_Skips ==
    /\ Running("write_offsets") /\ call.at <= Len(call.args.offsets)
    /\ \E r \in Written(mem, Targets[call.at], call.args.value) :
          GoOnWriting(IF r.fail = "none" THEN With(Targets[call.at])
                      ELSE [call EXCEPT !.at = @ + 1], r)

BatchWrite ==
    /\ Running("write_offsets") /\ call.at <= Len(call.args.offsets)
    /\ \E r \in Written(mem, Targets[call.at], call.args.value) :
          GoOnWriting(IF r.fail = "none" THEN With(Targets[call.at])
                      ELSE FailWith(r.fail), r)

\* attempted_addresses of a failed batch: the offsets as they were passed, then
\* the addresses tried.
Attempted ==
    IF call.fail = "none" THEN <<>>
    ELSE call.args.offsets \o SubSeq(Targets, 1, Len(call.found) + 1)

-----------------------------------------------------------------------------

SessionStep ==
    \/ ReadBytes \/ ReadString \/ WriteString \/ VerifyWrite \/ VerifyRead
    \/ ResolveStep \/ BatchRead \/ BatchWrite

SessionOver ==
    \/ call.fail # "none"
    \/ call.kind \in {"read", "read_string", "write_string"} /\ call.at = 2
    \/ call.kind = "verify" /\ call.at = 3
    \/ call.kind \in {"resolve", "read_offsets", "write_offsets"}
         /\ call.at > Len(call.args.offsets)

\* A chain without offsets and a verification without attempts are refused; a
\* batch without offsets is complete.
BeginSession(c) ==
    Begin(NewCall(c.kind, c.args, 1,
              CASE c.kind = "resolve" /\ c.args.offsets = <<>> -> "invalid_offsets"
                [] c.kind = "verify" /\ c.args.attempts = 0 -> "verification_mismatch"
                [] OTHER -> "none"))
=============================================================================
