--------------------------- MODULE FailureStorage ---------------------------
(***************************************************************************)
(* The flattened failure record of src/src/exec/failure.c, location.c and  *)
(* stacktrace.c, followed from its creation in the child to its delivery   *)
(* in the parent:                                                          *)
(*  - ctest_failure_create_va sizes the record (storage_size__), calloc's  *)
(*    one block, lays it out (storage_format__) and prints the description *)
(*    into it;                                                             *)
(*  - the event writer (exec_events.c) sizes it again through its          *)
(*    pointers (failure_storage_size), formats a copy into a stack buffer  *)
(*    (failure_storage_format), drops the event unless that returned       *)
(*    exactly the size, turns the interior pointers into offsets           *)
(*    (failure_storage_serialize) and writes the u16 length and the bytes; *)
(*  - the event reader mallocs a body of the announced length, reads it    *)
(*    and turns the offsets back into pointers (failure_storage_deserialize)*)
(*    before handing the record on.                                        *)
(*                                                                         *)
(* A block is a function from offsets to the objects placed there: the    *)
(* failure header, the location and stacktrace structs, and strings (a     *)
(* text and its strlen + 1).  Bytes nobody wrote are zero (memset).        *)
(* Pointers are integers, NULL is 0, and a block lives at an address of    *)
(* Bases.  The struct sizes are those of the target ABI.                   *)
(***************************************************************************)
EXTENDS Integers, Sequences, SequencesExt, TLC

CONSTANTS
  NULL,
  Stages, Texts, StrLens, Lines, Addrs, MaxFrames,
  Bases,            \* addresses calloc, malloc or the stack hand out
  SizeofFailure, SizeofLocation, SizeofFrame,
  SizeofPtr,        \* sizeof(stacktrace), a pointer, in stacktrace.c
  FramesOffset,     \* offsetof(ctest_stacktrace_t, frames)
  AlignLocation, AlignStacktrace,
  SizeMod,          \* 2^w: size_t arithmetic wraps modulo SizeMod
  LenMod,           \* 2^16: exec_event_msg_header_t__.length is a uint16_t
  FormatErrors,     \* whether vsnprintf may return -1
  AllocFailures     \* whether calloc / malloc may return NULL

NULLPTR == 0

\* A string: its text and strlen + 1.
Str == [text : Texts, len : StrLens]
Locations == [filename : Str \cup {NULL}, line : Lines]
Frames == [addr : Addrs, filename : Str \cup {NULL}, line : Lines]
Stacktraces == UNION {[1..n -> Frames] : n \in 0..MaxFrames}
Records == [stage : Stages, description : Str \cup {NULL},
            location : Locations \cup {NULL}, stacktrace : Stacktraces \cup {NULL}]

StrCell(s) == [kind |-> "str", text |-> s.text, len |-> s.len]

\* serialize_pad_size.
PadSize(size, a) == ((size + a - 1) \div a) * a

\* A function of offsets moved d bytes further into the block.
Shift(m, d) == [o \in {k + d : k \in DOMAIN m} |-> m[o - d]]

\* A failed *_storage_format: -1, and nothing of the block is used.
Fail == [rc |-> -1, mem |-> <<>>]

-----------------------------------------------------------------------------
\* location_storage_size.
LocationStorageSize(loc) ==
  IF loc.filename = NULL THEN SizeofLocation
  ELSE PadSize(SizeofLocation, 1) + loc.filename.len

\* stacktrace_storage_size: the header as sizeof(stacktrace), the frames,
\* then each frame's filename.
StacktraceStorageSize(st) ==
  FoldLeft(LAMBDA ofs, f : IF f.filename = NULL THEN ofs ELSE PadSize(ofs, 1) + f.filename.len,
           SizeofPtr + SizeofFrame * Len(st), st)

\* Defective variant of StorageSize: the location is not padded to its
\* alignment.
StorageSizeUnpadded(dlen, loc, st) ==
  LET s1 == IF dlen > 0 THEN PadSize(SizeofFailure, 1) + dlen ELSE SizeofFailure
      s2 == IF loc = NULL THEN s1 ELSE s1 + LocationStorageSize(loc)
  IN IF st = NULL THEN s2 ELSE PadSize(s2, AlignStacktrace) + StacktraceStorageSize(st)

\* storage_size__: header, description, location, stacktrace, each padded.
StorageSize(dlen, loc, st) ==
  LET s1 == IF dlen > 0 THEN PadSize(SizeofFailure, 1) + dlen ELSE SizeofFailure
      s2 == IF loc = NULL THEN s1 ELSE PadSize(s1, AlignLocation) + LocationStorageSize(loc)
  IN IF st = NULL THEN s2 ELSE PadSize(s2, AlignStacktrace) + StacktraceStorageSize(st)

\* failure_storage_size: the description's strlen + 1, or 0 for NULL.
DescLen(r) == IF r.description = NULL THEN 0 ELSE r.description.len

\* Defective variant of FailureStorageSize: the NUL is not counted.
FailureStorageSizeWithoutNul(r) ==
  StorageSize(IF r.description = NULL THEN 0 ELSE r.description.len - 1, r.location, r.stacktrace)

FailureStorageSize(r) == StorageSize(DescLen(r), r.location, r.stacktrace)

-----------------------------------------------------------------------------
(* location_storage_format into len bytes at address a: the struct, then   *)
(* the filename copied right after it.                                     *)
LocationFormat(a, len, loc) ==
  LET fofs == PadSize(SizeofLocation, 1)
      end == IF loc.filename = NULL THEN SizeofLocation ELSE fofs + loc.filename.len
      cell == [kind |-> "location", line |-> loc.line,
               filename |-> IF loc.filename = NULL THEN NULLPTR ELSE a + fofs]
  IN IF SizeofLocation > len \/ end > len THEN Fail
     ELSE [rc |-> end,
           mem |-> (0 :> cell) @@ (IF loc.filename = NULL THEN <<>> ELSE fofs :> StrCell(loc.filename))]

(* One iteration of stacktrace_storage_format's loop: the frame, and its   *)
(* filename copied at the next offset unless that passes len (-1).         *)
FrameFormat(a, len, acc, f) ==
  LET fo == PadSize(acc.ofs, 1)
      end == fo + f.filename.len
  IN CASE ~acc.ok -> acc
       [] f.filename = NULL ->
            [acc EXCEPT !.frames = Append(@, [addr |-> f.addr, filename |-> NULLPTR, line |-> f.line])]
       [] end > len -> [acc EXCEPT !.ok = FALSE]
       [] OTHER ->
            [ofs |-> end, ok |-> TRUE,
             frames |-> Append(acc.frames, [addr |-> f.addr, filename |-> a + fo, line |-> f.line]),
             mem |-> acc.mem @@ (fo :> StrCell(f.filename))]

\* stacktrace_storage_format into len bytes at address a.
StacktraceFormat(a, len, st) ==
  LET r == FoldLeft(LAMBDA acc, f : FrameFormat(a, len, acc, f),
                    [ofs |-> SizeofPtr + SizeofFrame * Len(st), ok |-> TRUE,
                     frames |-> <<>>, mem |-> <<>>], st)
  IN IF SizeofPtr + SizeofFrame * Len(st) > len \/ ~r.ok THEN Fail
     ELSE [rc |-> r.ofs, mem |-> (0 :> [kind |-> "stacktrace", frames |-> r.frames]) @@ r.mem]

\* Defective variant of FailureFormat: the location is not padded.
FailureFormatUnpadded(a, len, stage, dlen, loc, st) ==
  LET dofs == PadSize(SizeofFailure, 1)
      o1 == IF dlen > 0 THEN dofs + dlen ELSE SizeofFailure
      lofs == o1
      lr == LocationFormat(a + lofs, len - lofs, loc)
      o2 == IF loc = NULL THEN o1 ELSE lofs + lr.rc
      sofs == PadSize(o2, AlignStacktrace)
      sr == StacktraceFormat(a + sofs, len - sofs, st)
      hdr == [kind |-> "failure", stage |-> stage,
              description |-> IF dlen > 0 THEN a + dofs ELSE NULLPTR,
              location |-> IF loc = NULL THEN NULLPTR ELSE a + lofs,
              stacktrace |-> IF st = NULL THEN NULLPTR ELSE a + sofs]
  IN IF \/ SizeofFailure > len
        \/ dlen > 0 /\ o1 > len
        \/ loc # NULL /\ (lofs > len \/ lr.rc < 0)
        \/ st # NULL /\ (sofs > len \/ sr.rc < 0)
     THEN Fail
     ELSE [rc |-> IF st = NULL THEN o2 ELSE sofs + sr.rc,
           mem |-> (0 :> hdr) @@ (IF loc = NULL THEN <<>> ELSE Shift(lr.mem, lofs))
                              @@ (IF st = NULL THEN <<>> ELSE Shift(sr.mem, sofs))]

(* storage_format__ into len bytes at address a: memset, the header, then  *)
(* the room for the description, the location and the stacktrace, each at *)
(* its padded offset; -1 as soon as one does not fit.  The description's  *)
(* bytes are left to the caller.                                           *)
FailureFormat(a, len, stage, dlen, loc, st) ==
  LET dofs == PadSize(SizeofFailure, 1)
      o1 == IF dlen > 0 THEN dofs + dlen ELSE SizeofFailure
      lofs == PadSize(o1, AlignLocation)
      lr == LocationFormat(a + lofs, len - lofs, loc)
      o2 == IF loc = NULL THEN o1 ELSE lofs + lr.rc
      sofs == PadSize(o2, AlignStacktrace)
      sr == StacktraceFormat(a + sofs, len - sofs, st)
      hdr == [kind |-> "failure", stage |-> stage,
              description |-> IF dlen > 0 THEN a + dofs ELSE NULLPTR,
              location |-> IF loc = NULL THEN NULLPTR ELSE a + lofs,
              stacktrace |-> IF st = NULL THEN NULLPTR ELSE a + sofs]
  IN IF \/ SizeofFailure > len
        \/ dlen > 0 /\ o1 > len
        \/ loc # NULL /\ (lofs > len \/ lr.rc < 0)
        \/ st # NULL /\ (sofs > len \/ sr.rc < 0)
     THEN Fail
     ELSE [rc |-> IF st = NULL THEN o2 ELSE sofs + sr.rc,
           mem |-> (0 :> hdr) @@ (IF loc = NULL THEN <<>> ELSE Shift(lr.mem, lofs))
                              @@ (IF st = NULL THEN <<>> ELSE Shift(sr.mem, sofs))]

\* failure_storage_format: storage_format__, then the description copied to
\* where the header points.
FailureStorageFormat(a, len, r) ==
  LET f == FailureFormat(a, len, r.stage, DescLen(r), r.location, r.stacktrace)
  IN IF f.rc >= 0 /\ r.description # NULL
     THEN [f EXCEPT !.mem = @ @@ ((f.mem[0].description - a) :> StrCell(r.description))]
     ELSE f

-----------------------------------------------------------------------------
\* serialize_rel_ptr_from_abs and serialize_abs_ptr_from_rel, applied only
\* to a non-NULL pointer, as every caller does.
Rel(p, base) == IF p = NULLPTR THEN NULLPTR ELSE p - base
Abs(p, base) == IF p = NULLPTR THEN NULLPTR ELSE p + base

\* location_storage_serialize / _deserialize of the location struct at base.
LocationStorageSerialize(loc, base) == [loc EXCEPT !.filename = Rel(@, base)]
LocationStorageDeserialize(loc, base) == [loc EXCEPT !.filename = Abs(@, base)]

\* stacktrace_storage_serialize / _deserialize: the frames' filenames, made
\* relative to / absolute from the stacktrace.
RelFrames(fs, base) == [k \in DOMAIN fs |-> [fs[k] EXCEPT !.filename = Rel(@, base)]]
AbsFrames(fs, base) == [k \in DOMAIN fs |-> [fs[k] EXCEPT !.filename = Abs(@, base)]]

\* Defective variant of Serialize: the frames' filenames are made relative
\* to the block, not to the stacktrace.
SerializeFramesFromBlock(mem, a) ==
  LET h == mem[0]
      m1 == IF h.location = NULLPTR THEN mem
            ELSE [mem EXCEPT ![h.location - a] = LocationStorageSerialize(@, h.location)]
      m2 == IF h.stacktrace = NULLPTR THEN m1
            ELSE [m1 EXCEPT ![h.stacktrace - a].frames = RelFrames(@, a)]
  IN [m2 EXCEPT ![0].description = Rel(@, a), ![0].location = Rel(@, a),
                ![0].stacktrace = Rel(@, a)]

(* failure_storage_serialize of the block at a: location_storage_serialize *)
(* and stacktrace_storage_serialize relative to their own structs, then    *)
(* the header's three pointers relative to the block.                      *)
Serialize(mem, a) ==
  LET h == mem[0]
      m1 == IF h.location = NULLPTR THEN mem
            ELSE [mem EXCEPT ![h.location - a] = LocationStorageSerialize(@, h.location)]
      m2 == IF h.stacktrace = NULLPTR THEN m1
            ELSE [m1 EXCEPT ![h.stacktrace - a].frames = RelFrames(@, h.stacktrace)]
  IN [m2 EXCEPT ![0].description = Rel(@, a), ![0].location = Rel(@, a),
                ![0].stacktrace = Rel(@, a)]

\* Defective variant of Deserialize: the location's filename is left relative.
DeserializeSkippingLocation(mem, a) ==
  LET h == mem[0]
      d == Abs(h.description, a)
      l == Abs(h.location, a)
      s == Abs(h.stacktrace, a)
      m1 == [mem EXCEPT ![0].description = d, ![0].location = l, ![0].stacktrace = s]
  IN IF s = NULLPTR \/ s - a \notin DOMAIN m1 THEN m1
     ELSE [m1 EXCEPT ![s - a].frames = AbsFrames(@, s)]

(* failure_storage_deserialize of the block now at a: the header's         *)
(* pointers made absolute, then the location's and the stacktrace's        *)
(* contents from their structs.  Nothing is range-checked, and it returns *)
(* 0; a struct past the end of the block is not touched here (the C code   *)
(* writes past the buffer).                                                *)
Deserialize(mem, a) ==
  LET h == mem[0]
      d == Abs(h.description, a)
      l == Abs(h.location, a)
      s == Abs(h.stacktrace, a)
      m1 == [mem EXCEPT ![0].description = d, ![0].location = l, ![0].stacktrace = s]
      m2 == IF l = NULLPTR \/ l - a \notin DOMAIN m1 THEN m1
            ELSE [m1 EXCEPT ![l - a] = LocationStorageDeserialize(@, l)]
  IN IF s = NULLPTR \/ s - a \notin DOMAIN m2 THEN m2
     ELSE [m2 EXCEPT ![s - a].frames = AbsFrames(@, s)]
-----------------------------------------------------------------------------
(* Reading a block at a as the C structs it holds, through their pointers; *)
(* Garbage where a pointer leads to no object of the expected kind.      *)
Garbage == [garbage |-> TRUE]
StrAt(mem, a, p) ==
  CASE p = NULLPTR -> NULL
    [] p - a \in DOMAIN mem /\ mem[p - a].kind = "str" ->
         [text |-> mem[p - a].text, len |-> mem[p - a].len]
    [] OTHER -> Garbage
LocAt(mem, a, p) ==
  CASE p = NULLPTR -> NULL
    [] p - a \in DOMAIN mem /\ mem[p - a].kind = "location" ->
         [filename |-> StrAt(mem, a, mem[p - a].filename), line |-> mem[p - a].line]
    [] OTHER -> Garbage
StAt(mem, a, p) ==
  CASE p = NULLPTR -> NULL
    [] p - a \in DOMAIN mem /\ mem[p - a].kind = "stacktrace" ->
         LET fr == mem[p - a].frames
         IN [k \in DOMAIN fr |-> [addr |-> fr[k].addr, line |-> fr[k].line,
                                  filename |-> StrAt(mem, a, fr[k].filename)]]
    [] OTHER -> Garbage
Decode(mem, a) ==
  IF 0 \notin DOMAIN mem THEN Garbage
  ELSE [stage |-> mem[0].stage,
        description |-> StrAt(mem, a, mem[0].description),
        location |-> LocAt(mem, a, mem[0].location),
        stacktrace |-> StAt(mem, a, mem[0].stacktrace)]

\* The bytes an object occupies: for the stacktrace, its frames array.
CellSize(c) ==
  CASE c.kind = "failure" -> SizeofFailure
    [] c.kind = "str" -> c.len
    [] c.kind = "location" -> SizeofLocation
    [] c.kind = "stacktrace" -> FramesOffset + SizeofFrame * Len(c.frames)

-----------------------------------------------------------------------------
VARIABLES
  phase,    \* "create" | "write" | "read" | "done"
  outcome,  \* "none" | "create_failed" | "dropped" | "delivered" | "crashed"
  want,     \* the record the caller of ctest_failure_create_va describes
  cbase, clen, cmem,   \* the created failure's block
  wbase, wlen, wmem,   \* the writer's stack buffer, before serialization
  length,   \* header.length on the wire
  body,     \* the serialized bytes on the wire
  got       \* the record the reader hands on

vars == <<phase, outcome, want, cbase, clen, cmem, wbase, wlen, wmem, length, body, got>>

Made == IF AllocFailures THEN BOOLEAN ELSE {TRUE}

\* What vsnprintf may return: the length of the text printed, or -1.
PrintLens == {l - 1 : l \in StrLens} \cup (IF FormatErrors THEN {-1} ELSE {})

Init ==
  /\ phase = "create" /\ outcome = "none" /\ want = NULL
  /\ cbase = NULLPTR /\ clen = 0 /\ cmem = <<>>
  /\ wbase = NULLPTR /\ wlen = 0 /\ wmem = <<>>
  /\ length = 0 /\ body = <<>> /\ got = NULL

(* ctest_failure_create_va: description_length__ + 1 in size_t, the size,  *)
(* calloc (NULL on failure), storage_format__ (freed on -1) and vsnprintf  *)
(* of the description into the block.                                      *)
Create ==
  /\ phase = "create"
  /\ \E stage \in Stages, t \in Texts, n \in PrintLens, loc \in Locations \cup {NULL},
        st \in Stacktraces \cup {NULL}, made \in Made, c \in Bases :
       LET dlen == ((n % SizeMod) + 1) % SizeMod
           size == StorageSize(dlen, loc, st)
           f == FailureFormat(c, size, stage, dlen, loc, st)
       IN /\ want' = [stage |-> stage, location |-> loc, stacktrace |-> st,
                      description |-> IF n < 0 THEN NULL ELSE [text |-> t, len |-> n + 1]]
          /\ \/ /\ made /\ f.rc >= 0
                /\ cbase' = c /\ clen' = size
                /\ cmem' = IF dlen = 0 THEN f.mem
                           ELSE f.mem @@ ((f.mem[0].description - c) :> [kind |-> "str", text |-> t, len |-> dlen])
                /\ phase' = "write"
                /\ UNCHANGED outcome
             \/ /\ ~made \/ f.rc < 0
                /\ outcome' = "create_failed" /\ phase' = "done"
                /\ UNCHANGED <<cbase, clen, cmem>>
  /\ UNCHANGED <<wbase, wlen, wmem, length, body, got>>

(* exec_event_writer_op_on_failure__: size the failure through its         *)
(* pointers, format it into a stack buffer, return unless that gave        *)
(* exactly the size, serialize, and write the header and the body.         *)
Write ==
  /\ phase = "write"
  /\ \E w \in Bases :
       LET r == Decode(cmem, cbase)
           len == FailureStorageSize(r)
           f == FailureStorageFormat(w, len, r)
       IN /\ wbase' = w /\ wlen' = len /\ wmem' = f.mem
          /\ \/ /\ f.rc # len
                /\ outcome' = "dropped" /\ phase' = "done"
                /\ UNCHANGED <<length, body>>
             \/ /\ f.rc = len
                /\ body' = Serialize(f.mem, w)
                /\ length' = len % LenMod
                /\ phase' = "read"
                /\ UNCHANGED outcome
  /\ UNCHANGED <<want, cbase, clen, cmem, got>>

(* The reader: malloc(header.length) for the body (on NULL the bytes go to *)
(* the scratch buffer and reader_on_failure_done__ deserializes NULL),     *)
(* read that many bytes, and failure_storage_deserialize them in place;    *)
(* it returns 0, and the record is handed on.  An object cut off by a      *)
(* short length is not in the body; without a whole header the            *)
(* deserialization reads past the buffer.                                  *)
Read ==
  /\ phase = "read"
  /\ \E made \in Made, r \in Bases :
       LET rec == [o \in {k \in DOMAIN body : k + CellSize(body[k]) <= length} |-> body[o]]
       IN \/ /\ ~made \/ 0 \notin DOMAIN rec
             /\ outcome' = "crashed"
             /\ UNCHANGED got
          \/ /\ made /\ 0 \in DOMAIN rec
             /\ got' = Decode(Deserialize(rec, r), r)
             /\ outcome' = "delivered"
  /\ phase' = "done"
  /\ UNCHANGED <<want, cbase, clen, cmem, wbase, wlen, wmem, length, body>>

Next == Create \/ Write \/ Read

Spec == Init /\ [][Next]_vars
-----------------------------------------------------------------------------
TypeOK ==
  /\ phase \in {"create", "write", "read", "done"}
  /\ outcome \in {"none", "create_failed", "dropped", "delivered", "crashed"}
  /\ want \in Records \cup {NULL}
  /\ cbase \in Bases \cup {NULLPTR} /\ wbase \in Bases \cup {NULLPTR}
  /\ length \in 0..LenMod - 1
  /\ got \in Records \cup {NULL}

(* Every object of a block at a, len bytes long, lies inside it, no two    *)
(* overlap, and the location and stacktrace structs sit at addresses of   *)
(* their alignment.                                                        *)
Laid(mem, a, len) ==
  \A o \in DOMAIN mem :
    /\ o + CellSize(mem[o]) <= len
    /\ mem[o].kind = "location" => (a + o) % AlignLocation = 0
    /\ mem[o].kind = "stacktrace" => (a + o) % AlignStacktrace = 0
    /\ \A o2 \in DOMAIN mem : o < o2 => o + CellSize(mem[o]) <= o2

(* The blocks ctest_failure_create_va and the event writer lay out hold    *)
(* their objects inside the size storage_size__ computed, disjoint and     *)
(* aligned: the size and the layout, computed by separate code, agree.     *)
BlockLayout ==
  /\ phase # "create" /\ outcome # "create_failed" => Laid(cmem, cbase, clen)
  /\ phase \in {"read", "done"} /\ wmem # <<>> => Laid(wmem, wbase, wlen)

(* The event writer never drops a failure because failure_storage_format   *)
(* returned other than failure_storage_size (exec_events.c:51): its early  *)
(* return would lose the failure without a trace.                          *)
FormatMatchesSize == outcome # "dropped"

(* The record the parent receives is, field by field, the one the child   *)
(* created (spec section 7): the offsets serialization leaves are taken    *)
(* back from the right bases, wherever the reader's buffer is.             *)
RoundTrip == outcome = "delivered" => got = want

(* The description of a created failure is never NULL: the console         *)
(* reporter prints it with strchr (console_reporter.c:109).                 *)
CreatedHasDescription ==
  phase # "create" /\ outcome # "create_failed" => Decode(cmem, cbase).description # NULL

(* A body whose interior pointers leave the buffer is rejected and         *)
(* dropped (spec section 4.1), never handed on.                           *)
DeserializeRejectsMalformed == outcome = "delivered" => got \in Records
=============================================================================
