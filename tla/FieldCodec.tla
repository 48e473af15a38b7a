----------------------------- MODULE FieldCodec -----------------------------
(***************************************************************************)
(* The column-definition codec of the proxy (src/mysql/field.go):          *)
(* FieldData.Parse decodes a column-definition packet from the MySQL       *)
(* server into a Field, Field.Dump encodes a Field for the client.         *)
(*                                                                         *)
(* Packets are sequences of bytes (0..255), positions in comments are the  *)
(* code's 0-based `pos`. The fixed-width integers of a Field (Charset,     *)
(* ColumnLength, Flag) are kept as their little-endian bytes, which is     *)
(* what Parse reads and Dump writes; DefaultValueLength, which the code    *)
(* compares and converts, is kept as a number. A nil []byte is Nil; an     *)
(* empty and a nil name are both <<>> (Dump writes both the same way).     *)
(***************************************************************************)
EXTENDS Integers, Sequences, SequencesExt

Byte == 0..255
\* A nil []byte: a sequence that no byte string equals.
Nil == <<-1>>

\* FieldData and the Field struct.
Bytes == Seq(Byte)
Field ==
    [data : Bytes \cup {Nil}, schema : Bytes, table : Bytes,
     orgTable : Bytes, name : Bytes, orgName : Bytes,
     charset : [1..2 -> Byte], columnLength : [1..4 -> Byte], type : Byte,
     flag : [1..2 -> Byte], decimal : Byte,
     defaultValueLength : Nat, defaultValue : Bytes \cup {Nil}]

\* Uint16ToBytes, Uint32ToBytes, Uint64ToBytes: w bytes, low byte first.
RECURSIVE ToLE(_, _)
ToLE(v, w) == IF w = 0 THEN <<>> ELSE <<v % 256>> \o ToLE(v \div 256, w - 1)

\* The little-endian value of a short byte sequence.
LEValue(bs) == FoldRight(LAMBDA b, acc : b + 256 * acc, bs, 0)

\* p[pos:] for a 0-based pos; Go panics when pos > len(p).
Suffix(p, pos) == SubSeq(p, pos + 1, Len(p))

(* LengthEncodedInt(b): the first byte is the value (0..250), NULL (251,  *)
(* value 0), or announces 2, 3 or 8 following bytes (252, 253, 254). Go    *)
(* panics on an index past the end. An 8-byte value is classified as Go's  *)
(* int(num) sees it: "small" (below 2^24, `num` exact), "huge" (positive), *)
(* or "neg" (the top bit is set).                                          *)
IntWidth(first) ==
    CASE first = 252 -> 2 [] first = 253 -> 3 [] first = 254 -> 8
      [] OTHER -> 0

LenEncInt(b) ==
    IF b = <<>> \/ Len(b) < 1 + IntWidth(b[1])
    THEN [st |-> "panic", n |-> 0, cls |-> "small", num |-> 0]
    ELSE LET w == IntWidth(b[1])
             hi == SubSeq(b, 5, 1 + w)    \* bytes 4..8 of an 8-byte value
         IN  [st |-> "ok", n |-> 1 + w,
              cls |-> IF w = 8 /\ b[9] >= 128 THEN "neg"
                      ELSE IF w = 8 /\ \E i \in DOMAIN hi : hi[i] # 0
                           THEN "huge" ELSE "small",
              num |-> CASE w = 0 /\ b[1] = 251 -> 0
                        [] w = 0 -> b[1]
                        [] w = 8 -> LEValue(SubSeq(b, 2, 4))
                        [] OTHER -> LEValue(SubSeq(b, 2, 1 + w))]

(* LengthEnodedString(b) and SkipLengthEnodedString(b): the length, then  *)
(* that many bytes; io.EOF if b is shorter; n is the bytes consumed. A     *)
(* negative int(num) makes the slice bounds cross, which panics.           *)
LenEncStr(b) ==
    LET li == LenEncInt(b) IN
    CASE li.st = "panic" -> [st |-> "panic", s |-> <<>>, n |-> 0]
      [] li.cls = "neg" -> [st |-> "panic", s |-> <<>>, n |-> 0]
      [] li.cls = "huge" -> [st |-> "err", s |-> <<>>, n |-> 0]
      [] li.num < 1 -> [st |-> "ok", s |-> <<>>, n |-> li.n]
      [] Len(b) >= li.n + li.num ->
            [st |-> "ok", s |-> SubSeq(b, li.n + 1, li.n + li.num),
             n |-> li.n + li.num]
      [] OTHER -> [st |-> "err", s |-> <<>>, n |-> 0]

\* PutLengthEncodedInt.
PutLenEncInt(n) ==
    CASE n <= 250 -> <<n>>
      [] n <= 65535 -> <<252>> \o ToLE(n, 2)
      [] n <= 16777215 -> <<253>> \o ToLE(n, 3)
      [] OTHER -> <<254>> \o ToLE(n, 8)

\* PutLengthEncodedStringWithAlloc.
PutLenEncStr(s) == PutLenEncInt(Len(s)) \o s

-----------------------------------------------------------------------------
(* FieldData.Parse *)

(* The catalog (skipped) and the five names, in order, each stopping      *)
(* Parse with its error; pos is where the next read starts.                *)
RECURSIVE ReadStrings(_, _, _)
ReadStrings(p, pos, k) ==
    IF k = 0 THEN [st |-> "ok", pos |-> pos, strs |-> <<>>]
    ELSE LET r == LenEncStr(Suffix(p, pos)) IN
         IF r.st # "ok" THEN [st |-> r.st, pos |-> pos, strs |-> <<>>]
         ELSE LET rest == ReadStrings(p, pos + r.n, k - 1) IN
              [rest EXCEPT !.strs = <<r.s>> \o @]

\* Variant of ParseFixed that reads the charset one byte short.
ParseFixedShortCharset(p, pos) ==
    IF Len(p) < pos + 11
    THEN [st |-> "panic", pos |-> pos]
    ELSE [st |-> "ok", pos |-> pos + 13,
          charset |-> SubSeq(p, pos + 2, pos + 2),
          columnLength |-> SubSeq(p, pos + 4, pos + 7),
          type |-> p[pos + 8],
          flag |-> SubSeq(p, pos + 9, pos + 10),
          decimal |-> p[pos + 11]]

\* Variant of ParseFixed that does not skip the 2 filler bytes.
ParseFixedNoFiller(p, pos) ==
    IF Len(p) < pos + 11
    THEN [st |-> "panic", pos |-> pos]
    ELSE [st |-> "ok", pos |-> pos + 11,
          charset |-> SubSeq(p, pos + 2, pos + 3),
          columnLength |-> SubSeq(p, pos + 4, pos + 7),
          type |-> p[pos + 8],
          flag |-> SubSeq(p, pos + 9, pos + 10),
          decimal |-> p[pos + 11]]

(* Skip the 0x0c length byte, then charset (2), column length (4), type,  *)
(* flag (2), decimals, and the 2 filler bytes. Each read indexes p without *)
(* a length check: a packet that ends early panics.                        *)
ParseFixed(p, pos) ==
    IF Len(p) < pos + 11
    THEN [st |-> "panic", pos |-> pos]
    ELSE [st |-> "ok", pos |-> pos + 13,
          charset |-> SubSeq(p, pos + 2, pos + 3),
          columnLength |-> SubSeq(p, pos + 4, pos + 7),
          type |-> p[pos + 8],
          flag |-> SubSeq(p, pos + 9, pos + 10),
          decimal |-> p[pos + 11]]

(* If data remains (a COM_FIELD_LIST reply): a length-encoded length and  *)
(* the default value, ErrMalformPacket if the packet is shorter. A         *)
(* negative int(DefaultValueLength) passes that check and the slice        *)
(* panics.                                                                 *)
ParseDefault(p, pos) ==
    IF ~(Len(p) > pos)
    THEN [st |-> "ok", len |-> 0, value |-> Nil]
    ELSE LET li == LenEncInt(Suffix(p, pos))
             at == pos + li.n
         IN  CASE li.st = "panic" -> [st |-> "panic", len |-> 0, value |-> Nil]
               [] li.cls = "neg" -> [st |-> "panic", len |-> 0, value |-> Nil]
               [] li.cls = "huge" \/ at + li.num > Len(p) ->
                     [st |-> "err", len |-> 0, value |-> Nil]
               [] OTHER -> [st |-> "ok", len |-> li.num,
                            value |-> SubSeq(p, at + 1, at + li.num)]

\* The Field Parse returns, with f.Data = p.
Parse(p) ==
    LET rs == ReadStrings(p, 0, 6)
        fx == ParseFixed(p, rs.pos)
        dv == ParseDefault(p, fx.pos)
    IN  CASE rs.st # "ok" -> [st |-> rs.st]
          [] fx.st # "ok" -> [st |-> fx.st]
          [] dv.st # "ok" -> [st |-> dv.st]
          [] OTHER ->
               [st |-> "ok",
                f |-> [data |-> p, schema |-> rs.strs[2], table |-> rs.strs[3],
                       orgTable |-> rs.strs[4], name |-> rs.strs[5],
                       orgName |-> rs.strs[6], charset |-> fx.charset,
                       columnLength |-> fx.columnLength, type |-> fx.type,
                       flag |-> fx.flag, decimal |-> fx.decimal,
                       defaultValueLength |-> dv.len,
                       defaultValue |-> dv.value]]

-----------------------------------------------------------------------------
(* Field.Dump *)

\* defCache: declared and never assigned, so nil.
defCache == <<>>

(* The Data a Field was parsed from, as is; otherwise (the arena's        *)
(* AllocBytes gives an empty buffer of capacity l) defCache, the five     *)
(* names, 0x0c, the fixed fields, two zero bytes and, if there is a        *)
(* default value, DefaultValueLength as 8 bytes and the value.             *)
Dump(f) ==
    IF f.data # Nil THEN f.data
    ELSE defCache \o PutLenEncStr(f.schema) \o PutLenEncStr(f.table)
         \o PutLenEncStr(f.orgTable) \o PutLenEncStr(f.name)
         \o PutLenEncStr(f.orgName) \o <<12>>
         \o f.charset \o f.columnLength \o <<f.type>> \o f.flag
         \o <<f.decimal>> \o <<0, 0>>
         \o IF f.defaultValue # Nil
            THEN ToLE(f.defaultValueLength, 8) \o f.defaultValue
            ELSE <<>>

-----------------------------------------------------------------------------
(* One column definition on its way through the proxy *)

(* The column-definition packet as a MySQL server sends it (Protocol::    *)
(* ColumnDefinition41): catalog "def", the five names, the length 0x0c of *)
(* the fixed fields, the fixed fields, two filler bytes and, in a reply to *)
(* COM_FIELD_LIST, the default value as a length-encoded string.           *)
WireEncode(f) ==
    PutLenEncStr(<<100, 101, 102>>) \o PutLenEncStr(f.schema)
    \o PutLenEncStr(f.table) \o PutLenEncStr(f.orgTable)
    \o PutLenEncStr(f.name) \o PutLenEncStr(f.orgName) \o <<12>>
    \o f.charset \o f.columnLength \o <<f.type>> \o f.flag \o <<f.decimal>>
    \o <<0, 0>>
    \o IF f.defaultValue # Nil THEN PutLenEncStr(f.defaultValue) ELSE <<>>

(* Packets a broken or hostile server may send instead: the packet cut    *)
(* short, or a default value whose 8-byte length has the top bit set.      *)
Malformations(f) ==
    LET w == WireEncode(f) IN
    {SubSeq(w, 1, k) : k \in 0..Len(w) - 1}
    \cup {WireEncode([f EXCEPT !.defaultValue = Nil])
            \o <<254, 0, 0, 0, 0, 0, 0, 0, 128>>}

CONSTANTS
    Fields,       \* the Fields that are encoded (with data = Nil)
    FromProxy,    \* TRUE iff the proxy also Dumps Fields it built itself
    Malformed     \* TRUE iff the server may send a malformed packet

VARIABLES
    src,     \* the Field being transferred
    from,    \* who encoded the packet: "server", "proxy" or "malformed"
    sent,    \* the packet as first encoded
    pkt,     \* the packet on the wire now
    res,     \* the result of Parse, or [st |-> "none"]
    stage    \* "init", "wire", "parsed", "forwarded"

vars == <<src, from, sent, pkt, res, stage>>

Meta(f) == [f EXCEPT !.data = Nil]

TypeOK ==
    /\ src \in Fields /\ src \in Field
    /\ from \in {"none", "server", "proxy", "malformed"}
    /\ sent \in Seq(Byte) /\ pkt \in Seq(Byte)
    /\ stage \in {"init", "wire", "parsed", "forwarded"}
    /\ res.st \in {"none", "ok", "err", "panic"}
    /\ res.st = "ok" => res.f \in Field

Init ==
    /\ src \in Fields
    /\ from = "none" /\ sent = <<>> /\ pkt = <<>>
    /\ res = [st |-> "none"] /\ stage = "init"

\* The MySQL server answers a query with the column definition.
ServerSends ==
    /\ stage = "init"
    /\ pkt' = WireEncode(src) /\ sent' = pkt' /\ from' = "server"
    /\ stage' = "wire"
    /\ UNCHANGED <<src, res>>

ServerSendsMalformed ==
    /\ Malformed /\ stage = "init"
    /\ \E m \in Malformations(src) : pkt' = m /\ sent' = m
    /\ from' = "malformed" /\ stage' = "wire"
    /\ UNCHANGED <<src, res>>

\* The proxy answers with a Field it built (Data nil), encoded by Dump.
ProxyDumps ==
    /\ FromProxy /\ stage = "init"
    /\ pkt' = Dump(src) /\ sent' = pkt' /\ from' = "proxy"
    /\ stage' = "wire"
    /\ UNCHANGED <<src, res>>

\* FieldData(pkt).Parse()
ParsePacket ==
    /\ stage = "wire"
    /\ res' = Parse(pkt) /\ stage' = "parsed"
    /\ UNCHANGED <<src, from, sent, pkt>>

\* The parsed Field is Dumped to the client.
Forward ==
    /\ stage = "parsed" /\ res.st = "ok"
    /\ pkt' = Dump(res.f) /\ stage' = "forwarded"
    /\ UNCHANGED <<src, from, sent, res>>

Next ==
    \/ ServerSends \/ ServerSendsMalformed \/ ProxyDumps
    \/ ParsePacket \/ Forward

Spec == Init /\ [][Next]_vars

-----------------------------------------------------------------------------
(* Properties *)

(* A column definition as the MySQL server sends it parses without error  *)
(* into the Field it encodes: every name at its place, the fixed fields    *)
(* and, in a COM_FIELD_LIST reply, the default value.                      *)
ParseRecoversServerField ==
    stage = "parsed" /\ from = "server" =>
        res.st = "ok" /\ Meta(res.f) = src

(* What the proxy's own Dump writes parses back into the Field it dumped  *)
(* (Parse's "skip catelog, always def" expects the catalog that Dump is    *)
(* meant to prepend from defCache).                                        *)
DumpParsesBack ==
    stage = "parsed" /\ from = "proxy" =>
        res.st = "ok" /\ Meta(res.f) = src

====
