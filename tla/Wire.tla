-------------------------------- MODULE Wire --------------------------------
(***************************************************************************)
(* The text of the JSON lines hsedd sends (backend/src/protocol.c,         *)
(* backend/src/base64.c): what fits into the buffers it is put together    *)
(* in, and what is left of a text or of captured bytes on the other side.  *)
(* A character is one of three kinds, told apart by what its escape takes. *)
(***************************************************************************)
EXTENDS Integers, Sequences, SequencesExt

----------------------------------------------------------------------------
(* Texts *)

\* The escapes: none, a backslash and a letter, \u00xx.
EscapeLen(c) == CASE c = "plain" -> 1 [] c = "special" -> 2 [] c = "control" -> 6

\* Mutant of EscapeStep: there is no second look before a \u00xx.
EscapeStepBlind(n, acc, c) ==
  IF acc.o + 2 < n
  THEN [o |-> acc.o + EscapeLen(c), kept |-> Append(acc.kept, c)]
  ELSE acc

\* One turn of the loop.  Once o + 2 >= n it is over, as o does not change any
\* more; a control character that does not fit is left out, and what follows
\* it may still fit.
EscapeStep(n, acc, c) ==
  IF acc.o + 2 < n /\ (c = "control" => acc.o + 6 < n)
  THEN [o |-> acc.o + EscapeLen(c), kept |-> Append(acc.kept, c)]
  ELSE acc

\* Where the terminator goes, and the characters that are in dst.
hsed_json_escape(src, n) ==
  LET after[p \in 0 .. Len(src)] ==
        IF p = 0 THEN [o |-> 0, kept |-> << >>] ELSE EscapeStep(n, after[p - 1], src[p])
  IN  after[Len(src)]

HSED_PATH_MAX    == 4096
HSED_NAME_MAX    == 256
HSED_CMDLINE_MAX == 1024

\* linebuf of handle_scan and of run_scan_once.
EntryBuf == HSED_PATH_MAX * 2 + HSED_CMDLINE_MAX * 2 + HSED_NAME_MAX * 4

\* Mutant of hsed_format_entry: the user name is also used for the group.
hsed_format_entry_twice(user, comm, cmdline, path) ==
  141 + 2 * 11 + 2 + 3 * 20 + 3 * 10 + 2 * user + comm + cmdline + path

\* The length of an entry with the longest numbers, given the lengths of the
\* escaped texts: the fixed text, pid and fd, mode, size, inode and mtime, uid
\* and the device.
hsed_format_entry(user, comm, cmdline, path) ==
  141 + 2 * 11 + 2 + 3 * 20 + 3 * 10 + user + comm + cmdline + path

\* The longest text in the buffer into which a field of f bytes is escaped.
FieldMax(f) == 2 * f - 1

----------------------------------------------------------------------------
(* Captured bytes *)

MAX_CAPTURE_HARD_LIMIT == 65536
MAX_WRITEV_IOVECS      == 16

\* Mutant of MaxCapture: there is no hard limit.
MaxCaptureUnclamped(arg) == IF arg = 0 THEN 200 ELSE arg

\* max_capture of hsed_trace_fd.
MaxCapture(arg) == IF arg = 0 THEN 200 ELSE Min({arg, MAX_CAPTURE_HARD_LIMIT})

\* Mutant of CaptureStep: a segment is not cut at the end of the buffer.
CaptureStepLong(max, acc, seg) ==
  IF Len(acc) < max THEN acc \o SubSeq(seg.data, 1, seg.mapped) ELSE acc

\* One segment, of which only the first mapped bytes can be read.
CaptureStep(max, acc, seg) ==
  LET want == Min({Len(seg.data), max - Len(acc)})
  IN  acc \o SubSeq(seg.data, 1, Min({want, seg.mapped}))

FirstIovecs(v) == SubSeq(v, 1, Min({Len(v), MAX_WRITEV_IOVECS}))

capture_writev(v, max) ==
  LET iovs == FirstIovecs(v)
      after[i \in 0 .. Len(iovs)] ==
        IF i = 0 THEN << >> ELSE CaptureStep(max, after[i - 1], iovs[i])
  IN  after[Len(iovs)]

LineBuf == 2048   \* buf of hsed_send_linef

\* Mutant of hsed_base64_encoded_len: the last group is not rounded up.
hsed_base64_encoded_len_floor(len) == (len \div 3) * 4 + 1

hsed_base64_encoded_len(len) == ((len + 2) \div 3) * 4 + 1

Pad == 64   \* "="; the other symbols are their index in B64_TABLE

\* The i-th byte, zero past the end.
ByteAt(data, i) == IF i <= Len(data) THEN data[i] ELSE 0

\* v, the three bytes of a group.
Group(data, g) ==
  ByteAt(data, 3 * g + 1) * 65536 + ByteAt(data, 3 * g + 2) * 256 + ByteAt(data, 3 * g + 3)

\* The shifts by 18, 12, 6 and 0.
Shift == <<262144, 4096, 64, 1>>

hsed_base64_encode(data) ==
  [o \in 1 .. 4 * ((Len(data) + 2) \div 3) |->
     LET g == (o - 1) \div 4
         k == (o - 1) % 4
     IN  IF k > Len(data) - 3 * g THEN Pad
         ELSE (Group(data, g) \div Shift[k + 1]) % 64]

\* The length of a write event with the longest numbers: the fixed text, tid,
\* ret, captured, is_writev and the data.
WriteLen(captured) == 69 + 7 + 10 + 5 + 5 + hsed_base64_encoded_len(captured) - 1

\* hsed_send_linef keeps what fits, with the terminator.
Whole(len) == len < LineBuf
=============================================================================
