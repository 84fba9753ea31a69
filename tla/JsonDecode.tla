----------------------------- MODULE JsonDecode -----------------------------
(***************************************************************************)
(* sources/json_decode.py as operators: what decode_records() yields for   *)
(* one object, stage by stage.  Bytes and JSON text are abstracted to what *)
(* the stages tell apart: how a stream was written, whether all of it is   *)
(* there, its inflated size, how the records are framed and what each      *)
(* record holds at the payload path.                                       *)
(*                                                                         *)
(*   stream    [wire, state, size]: "plain", "gzip" or "zlib"; "whole",    *)
(*             "truncated" or "trailing"; size once inflated               *)
(*   body      [outer, form, records]: a stream that reads as an "array",  *)
(*             an "object", one object per line ("lines"), or as no JSON   *)
(*   record    [object, payload]: whether it is a JSON object              *)
(*   payload   [kind, base64, inner, json]: what is at the payload path    *)
(*   document  the `document:` section of the configuration                *)
(***************************************************************************)
EXTENDS Naturals, Sequences

(* _inflate(): "auto" tells gzip by its magic number and takes the rest for *)
(* zlib.  A short stream and trailing bytes are errors, as is a byte above  *)
(* the limit.                                                               *)
Inflates(stream, compression, limit) ==
    /\ stream.wire # "plain"
    /\ compression \in {"auto", stream.wire}
    /\ stream.state = "whole"
    /\ stream.size <= limit

(* A stream that is not to be inflated must be text already; compressed     *)
(* bytes are not UTF-8.                                                     *)
Readable(stream, compression, limit) ==
    IF compression = "none"
      THEN stream.wire = "plain" /\ stream.size <= limit
      ELSE Inflates(stream, compression, limit)

(* _outer_records(): "auto" is one JSON document or, failing that, JSONL.   *)
(* One object on one line is both.  An array is not JSONL: its line parses, *)
(* but to a record that is no object.                                       *)
Framed(form, framing) ==
    CASE framing = "array"  -> form = "array"
      [] framing = "object" -> form = "object"
      [] framing = "jsonl"  -> form \in {"lines", "object"}
      [] framing = "auto"   -> form \in {"array", "object", "lines"}

(* _payload(): a value that the outer parse already produced is taken as it *)
(* is when the configuration decodes nothing; anything else goes through    *)
(* base64, decompression and a parse of its own.  JSON strings are text, so *)
(* compression without base64 has no bytes to inflate.                      *)
InlinePayload(payload, document) ==
    /\ payload.kind = "object"
    /\ document.encoding = "none" /\ document.compressed = "none"
    /\ payload.inner.size <= document.payloadLimit

EncodedPayload(payload, document) ==
    /\ payload.kind = "string"
    /\ IF document.encoding = "base64"
         THEN payload.base64
         ELSE ~payload.base64 /\ document.compressed = "none"
    /\ Readable(payload.inner, document.compressed, document.payloadLimit)
    /\ payload.json = "object"

Accepts(record, document) ==
    /\ record.object
    /\ document.path =>
         InlinePayload(record.payload, document) \/ EncodedPayload(record.payload, document)

(* The object's text is decoded whole before its first record is yielded.   *)
Opens(body, document) ==
    /\ Readable(body.outer, document.compression, document.outerLimit)
    /\ Framed(body.form, document.records)

(* decode_records() yields records until it raises: the records before the  *)
(* first one it refuses, and whether it then raises.                        *)
Decode(body, document) ==
    LET refused == {i \in DOMAIN body.records : ~Accepts(body.records[i], document)}
        ordinals == [i \in DOMAIN body.records |-> i]
    IN  IF ~Opens(body, document) THEN [rows |-> <<>>, raises |-> TRUE]
        ELSE IF refused = {} THEN [rows |-> ordinals, raises |-> FALSE]
        ELSE LET first == CHOOSE i \in refused : \A j \in refused : i <= j
             IN  [rows |-> SubSeq(ordinals, 1, first - 1), raises |-> TRUE]
=============================================================================
