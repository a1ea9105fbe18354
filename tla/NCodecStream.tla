---------------------------- MODULE NCodecStream ----------------------------
(***************************************************************************)
(* The stream that dse/fmu/ncodec.c puts over one binary signal of an FMU. *)
(*                                                                         *)
(* A stream is a record:                                                   *)
(*   data  the valid part of the signal's buffer, sv->binary[idx] up to    *)
(*         sv->length[idx], as a sequence of frames (the unit in which     *)
(*         a codec flushes and an importer sets);                          *)
(*   pos   the position indicator of the stream (__BinarySignalStream.pos).*)
(* A buffer that was never allocated (binary[idx] = NULL) has length 0 and *)
(* reads like an empty one.  The operators are constant level: modules     *)
(* that own a stream variable apply them.                                  *)
(***************************************************************************)
EXTENDS Naturals, Sequences

(* fmu_sv_stream_create: position 0 over a calloc'ed, empty signal.        *)
EmptyStream == [data |-> << >>, pos |-> 0]

(* The streams over frames F.  No bound ties pos to the length: the signal *)
(* can be shortened behind the stream.                                     *)
Streams(F) == [data : Seq(F), pos : Nat]

(* The stream with its position moved to p.                                *)
At(st, p) == [data |-> st.data, pos |-> p]

ClampPos(st, p) == IF p > Len(st.data) THEN Len(st.data) ELSE p

(* stream_eof: 0 only while the position is before the end.                *)
StreamEof(st) == ~(st.pos < Len(st.data))

(* stream_read: what *data/*len describe, from pos to the end.             *)
StreamReadData(st) ==
  IF st.pos >= Len(st.data) THEN << >>
                            ELSE SubSeq(st.data, st.pos + 1, Len(st.data))

(* stream_read: the position afterwards; NCODEC_POS_UPDATE moves it to the *)
(* end unless the stream was at EOF, NCODEC_POS_NC leaves it.              *)
StreamRead(st, pos_op) ==
  IF st.pos >= Len(st.data) \/ pos_op # "POS_UPDATE"
  THEN st
  ELSE At(st, Len(st.data))

(* Fault: the position is not advanced behind the written data.            *)
StreamWriteStays(st, d) ==
  LET p == ClampPos(st, st.pos)
  IN [data |-> SubSeq(st.data, 1, p) \o d, pos |-> p]

(* stream_write: the signal is cut at the (clamped) position, the new data *)
(* appended there and the position moved behind it.                        *)
StreamWrite(st, d) ==
  LET p == ClampPos(st, st.pos)
  IN [data |-> SubSeq(st.data, 1, p) \o d, pos |-> p + Len(d)]

(* stream_seek; RESET (used by ncodec_truncate) also empties the signal.   *)
StreamSeek(st, p, op) ==
  CASE op = "SEEK_SET"   -> At(st, ClampPos(st, p))
    [] op = "SEEK_CUR"   -> At(st, ClampPos(st, st.pos + p))
    [] op = "SEEK_END"   -> At(st, Len(st.data))
    [] op = "SEEK_RESET" -> EmptyStream
    [] OTHER             -> st

(* dse_buffer_append on the signal itself: the stream position stays.      *)
SignalAppend(st, d) == [data |-> st.data \o d, pos |-> st.pos]

(* sv->length[i] = 0: the reset of a signal without codec.                 *)
SignalClear(st) == [data |-> << >>, pos |-> st.pos]

(***************************************************************************)
(* The text form of a signal's content.  The codec of dse.clib is external *)
(* and stands for a pair of inverse functions.                             *)
(***************************************************************************)
dse_ascii85_encode(d) == [form |-> "ascii85", data |-> d]

dse_ascii85_decode(t) == t.data
=============================================================================
