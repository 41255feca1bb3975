------------------------------ MODULE MCWireValue ------------------------------
(* The constants of the code; every field at the edges of its type.         *)
EXTENDS WireValue

\* b"MESHWARDEN-AUTH\0"
Domain == << 77, 69, 83, 72, 87, 65, 82, 68, 69, 78, 45, 65, 85, 84, 72, 0 >>

Fill(n, x) == [i \in 1..n |-> x]

ItemEdges(field) ==
    CASE field.type = "u8"    -> 0..3
      [] field.type = "u16"   -> {1, 7, 128, 65535}
      [] field.type = "bytes" -> {Fill(n, 129) : n \in {0, field.max - 1, field.max}}

Edges(field) ==
    IF field.type # "seq" THEN ItemEdges(field)
    ELSE LET Items == IF Len(field.items) = 1 THEN {<< x >> : x \in ItemEdges(field.items[1])}
                      ELSE ItemEdges(field.items[1]) \X ItemEdges(field.items[2])
         IN  {Fill(n, i) : n \in {0, 1, field.max - 1, field.max}, i \in Items}

\* Arguments of AuthTranscriptV1::new.
Arguments(i) ==
    LET field == TranscriptFields[i]
    IN  CASE i = 1               -> {Domain, Fill(DOMAIN_LEN, 0), Fill(DOMAIN_LEN + 1, 0)}
          [] field.type = "u16"  -> {1, 65535}
          [] field.type = "u8"   -> 0..3
          [] i \in {10, 11}      -> {Fill(n, 129) : n \in {0, field.max, field.max + 1}}
          [] OTHER               -> {Fill(n, 0) : n \in {field.max, field.max + 1}}

MCSettings(k, i) == IF k = "Transcript" THEN Arguments(i) ELSE Edges(FieldsOf(k)[i])
=============================================================================
