--------------------------- MODULE MCSpanExporter ---------------------------
(* SpanExporter on small instances.                                        *)
EXTENDS SpanExporter

CONSTANTS s1, s2, s3

\* Two spans of one trace and one of another.
TwoAndOne == [s \in Span |-> IF s = s3 THEN "k2" ELSE "k1"]

OwnFiles == [k \in {"k1", "k2"} |-> k]
=============================================================================
