----------------------------- MODULE WireCalls -----------------------------
(***************************************************************************)
(* The functions of Wire, each called with every argument of a small set.  *)
(* They keep no state, so one call is all a behaviour needs.               *)
(***************************************************************************)
EXTENDS Wire

CONSTANTS Texts,     \* texts to escape: sequences of characters
          Buffers,   \* sizes of the buffers they are escaped into
          Lengths,   \* lengths of escaped texts
          Bytes,     \* captured data: sequences of 0 .. 255
          Iovecs     \* arguments of writev: sequences of segments

ASSUME WireAssumption ==
  /\ \A s \in Texts : s \in Seq({"plain", "special", "control"})
  /\ Buffers \subseteq Nat \ {0} /\ Lengths \subseteq Nat
  /\ \A d \in Bytes : d \in Seq(0 .. 255)
  /\ \A v \in Iovecs : /\ v \in Seq([data : Seq(0 .. 255), mapped : Nat])
                       /\ \A i \in DOMAIN v : v[i].mapped <= Len(v[i].data)

VARIABLE call   \* the call that was made: fn, its arguments and res, its result

Idle == [fn |-> "none"]

Escape ==
  /\ call = Idle
  /\ \E s \in Texts, n \in Buffers :
       call' = [fn |-> "escape", src |-> s, n |-> n, res |-> hsed_json_escape(s, n)]

\* The texts of an entry are as long as their buffers let them be; comm has at most
\* 15 characters, where its field has 256 bytes.
FormatEntry ==
  /\ call = Idle
  /\ \E user, comm, cmdline, path \in Lengths :
       /\ user <= FieldMax(HSED_NAME_MAX) /\ comm <= 15 * 6
       /\ cmdline <= FieldMax(HSED_CMDLINE_MAX) /\ path <= FieldMax(HSED_PATH_MAX)
       /\ call' = [fn |-> "entry", res |-> hsed_format_entry(user, comm, cmdline, path)]

\* What the segments of v hold, one after the other.
Payload(v) == FlattenSeq([i \in DOMAIN v |-> v[i].data])

\* The exit of a writev that returned ret, 0 for an error too: hsed_trace_fd asks only
\* whether anything was written.
CaptureWritev ==
  /\ call = Idle
  /\ \E v \in Iovecs, max \in Buffers : \E ret \in 0 .. Len(Payload(v)) :
       call' = [fn |-> "capture", iov |-> v, max |-> max, ret |-> ret,
                res |-> IF ret > 0 THEN capture_writev(v, max) ELSE << >>]

Encode ==
  /\ call = Idle
  /\ \E d \in Bytes :
       call' = [fn |-> "encode", data |-> d, res |-> hsed_base64_encode(d),
                size |-> hsed_base64_encoded_len(Len(d))]

Init == call = Idle

Next == Escape \/ FormatEntry \/ CaptureWritev \/ Encode

Spec == Init /\ [][Next]_call

----------------------------------------------------------------------------
(* Properties *)

\* hsed_json_escape writes nothing past the end of dst, the terminator included,
\* for every text and every size of dst; and a text of f - 1 characters without
\* control characters is kept whole in a buffer of 2 f, which is what
\* hsed_format_entry and the error replies count on.
EscapeExact ==
  call.fn = "escape" =>
    /\ call.res.o < call.n
    /\ (\A i \in DOMAIN call.src : call.src[i] # "control") /\ call.n >= 2 * (Len(call.src) + 1)
         => call.res.kept = call.src

\* An entry always fits into linebuf of handle_scan, although linebuf is only as
\* long as the four texts of hsed_format_entry at their longest.
EntryWhole == call.fn = "entry" => call.res < EntryBuf

\* What StdEncoding.DecodeString makes of it (client.go, WriteEvent.Data): the
\* bits of the symbols, eight at a time.
Decoded(enc) ==
  LET Symbol(i) == IF enc[i] = Pad THEN 0 ELSE enc[i]
      Bits(g) == Symbol(4 * g + 1) * 262144 + Symbol(4 * g + 2) * 4096
                   + Symbol(4 * g + 3) * 64 + Symbol(4 * g + 4)
      pads == Cardinality({i \in DOMAIN enc : enc[i] = Pad})
  IN  [i \in 1 .. 3 * (Len(enc) \div 4) - pads |->
         (Bits((i - 1) \div 3) \div <<65536, 256, 1>>[1 + ((i - 1) % 3)]) % 256]

\* The client sees the bytes that were captured, whatever they are and however many
\* are left over in the last group, and hsed_base64_encoded_len is exactly enough.
Base64RoundTrip ==
  call.fn = "encode" => Decoded(call.res) = call.data /\ Len(call.res) + 1 = call.size

\* What is captured of a writev stays within its buffer, whatever can be read of the
\* segments; when all of it can, it is the beginning of what was given to writev.
CaptureExact ==
  call.fn = "capture" =>
    LET all == Payload(FirstIovecs(call.iov))
    IN  /\ Len(call.res) <= call.max
        /\ call.ret > 0 /\ (\A i \in DOMAIN call.iov : call.iov[i].mapped = Len(call.iov[i].data))
             => call.res = SubSeq(all, 1, Min({call.max, Len(all)}))
=============================================================================
