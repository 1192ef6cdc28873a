---------------------------- MODULE AicpuExtInfo ----------------------------
(***************************************************************************)
(* The extended information of an AI CPU launch: a list of tagged records  *)
(* that the host writes behind the launch arguments                        *)
(* (aicpu_ext_info_handle.cpp) and the device reads before it runs the     *)
(* kernel (device_cpu_kernel.cc, cpu_kernel_cache.cc).                     *)
(*                                                                         *)
(* A record is [type, val]; lengths and the byte layout are left out, and  *)
(* "bad" stands for a record whose length does not fit its type.           *)
(***************************************************************************)
EXTENDS Integers, Sequences, SequencesExt

CONSTANTS
    MaxDims,    \* FWKAdapter::kMaxShapeDims, eight
    DimEnd      \* kDimEndFlag, the mark behind the last size (INT64_MIN)

ASSUME DimsAssumption == MaxDims \in Nat /\ DimEnd \notin Nat

Entry(type, val) == [type |-> type, val |-> val]

\* The session record: session id, kernel id, whether the cache is the
\* session's (otherwise the stream's).
SessionInfo(id, kid, flag) == [id |-> id, kid |-> kid, flag |-> flag]
-----------------------------------------------------------------------------
(* The host *)

\* The sizes of a tensor are written over the array's old content; the end
\* mark follows them when there is room.
UpdateShape(dims, shape) ==
    [i \in 1 .. MaxDims |-> IF i <= Len(shape) THEN shape[i]
                            ELSE IF i = Len(shape) + 1 THEN DimEnd ELSE dims[i]]

Blank == [i \in 1 .. MaxDims |-> 0]

\* GetDimsFromShapeAndType on the device and GetShapeAndType on the host: the
\* sizes before the first end mark.
Dims(dims) ==
    LET marks == {i \in 1 .. MaxDims : dims[i] = DimEnd}
        n == CHOOSE n \in 0 .. MaxDims :
                 /\ \A i \in 1 .. n : i \notin marks
                 /\ n = MaxDims \/ n + 1 \in marks
    IN  [i \in 1 .. n |-> dims[i]]

\* The records of a kernel of this library, in the order of the code: the
\* bitmap with bit 0 clear (not static) precedes both shape records.
GenCCExtBuffer(name, in, out, session) ==
    << Entry("op_name", name), Entry("shape_type", 0), Entry("bitmap", 0),
       Entry("input_shape", in), Entry("output_shape", out),
       Entry("session_info", session) >>

\* The kernel id of the session record is replaced in place.
UpdateKernelId(ext, kid) ==
    [i \in DOMAIN ext |-> IF ext[i].type = "session_info"
                          THEN [ext[i] EXCEPT !.val.kid = kid]
                          ELSE ext[i]]
-----------------------------------------------------------------------------
(* The device *)

\* The entry point looks for the first session record: a set of at most one.
ParseExtSessionInfo(ext) ==
    LET found == {i \in DOMAIN ext : ext[i].type = "session_info"}
    IN  {ext[i].val : i \in {j \in found : \A k \in found : j <= k}}

ExtInfoMsg == [ok |-> TRUE, has_sess |-> FALSE, kid |-> 0, unknown |-> FALSE,
               async |-> FALSE, input |-> << >>, output |-> << >>,
               workspace |-> 0]

\* A shape record counts only if the shape was declared unknown before it; the
\* list of shapes has the one input, or output, of the kernel or is empty.
ParseExtShapeAndType(msg, shapes, dims) ==
    IF msg.unknown THEN Append(shapes, dims) ELSE shapes

\* One turn of the loop of ParseExtMsg; after an error nothing more is read.
ParseEntry(msg, e) ==
    IF ~msg.ok THEN msg
    ELSE CASE e.type = "bad"          -> [msg EXCEPT !.ok = FALSE]
           [] e.type = "shape_type"   -> [msg EXCEPT !.unknown = TRUE]
           [] e.type = "bitmap"       -> [msg EXCEPT !.unknown = (e.val % 2 = 0)]
           [] e.type = "input_shape"  ->
                  [msg EXCEPT !.input = ParseExtShapeAndType(msg, @, e.val)]
           [] e.type = "output_shape" ->
                  [msg EXCEPT !.output = ParseExtShapeAndType(msg, @, e.val)]
           [] e.type = "session_info" -> [msg EXCEPT !.has_sess = TRUE,
                                                     !.kid = e.val.kid]
           [] e.type = "async_wait"   -> [msg EXCEPT !.async = @ \/ e.val]
           [] e.type = "workspace"    -> [msg EXCEPT !.workspace = e.val]
           [] OTHER                   -> msg

\* The loop: msg[n] is what the first n records say.
ParseExtMsg(ext) ==
    LET msg[n \in 0 .. Len(ext)] ==
            IF n = 0 THEN ExtInfoMsg ELSE ParseEntry(msg[n - 1], ext[n])
    IN  msg[Len(ext)]
=============================================================================
