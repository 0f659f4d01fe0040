---------------------------- MODULE JpegDecoder ----------------------------
(***************************************************************************)
(* What a JPEG decoder makes of the coder's output, after the procedures   *)
(* of the JPEG standard (F.2.2) and not after the coder: the definitions   *)
(* here model no code, the properties of JpegCoder are stated with them.   *)
(***************************************************************************)
EXTENDS JpegCoder

-----------------------------------------------------------------------------
(* entropy decoding *)

\* The bits of a scan, without the bytes 00 that follow FF.
ScanBits(bytes) ==
    LET data == SelectSeq([i \in DOMAIN bytes |-> i],
                          LAMBDA i : ~(i > 1 /\ bytes[i] = 0 /\ bytes[i - 1] = 255))
    IN  [k \in 1 .. 8 * Len(data) |->
            (bytes[data[(k + 7) \div 8]] \div 2 ^ ((8 * Len(data) - k) % 8)) % 2]

\* The first code of each length, and the place of its symbol.
DecodingTable(nrcodes, values) ==
    LET First[k \in 1 .. 16] == IF k = 1 THEN 0 ELSE 2 * (First[k - 1] + At(nrcodes, k - 1))
        Place[k \in 1 .. 16] == IF k = 1 THEN 1 ELSE Place[k - 1] + At(nrcodes, k - 1)
    IN  [first |-> First, place |-> Place,
         count |-> [k \in 1 .. 16 |-> At(nrcodes, k)], values |-> values]

LumaTables ==
    [DC |-> DecodingTable(std_dc_luminance_nrcodes, std_dc_luminance_values),
     AC |-> DecodingTable(std_ac_luminance_nrcodes, std_ac_luminance_values)]
ChromaTables ==
    [DC |-> DecodingTable(std_dc_chrominance_nrcodes, std_dc_chrominance_values),
     AC |-> DecodingTable(std_ac_chrominance_nrcodes, std_ac_chrominance_values)]

\* len bits from place p on as a number.
Receive(bits, p, len) == ValueOf(SubSeq(bits, p, p + len - 1))

\* The symbol at place p; NoSymbol when the bits there are no code.
NoSymbol == [symbol |-> -1, len |-> 0]
Symbol(bits, p, t) ==
    LET Fits(k) == /\ p + k - 1 <= Len(bits)
                   /\ LET n == Receive(bits, p, k) - t.first[k] IN 0 <= n /\ n < t.count[k]
    IN  IF \E k \in 1 .. 16 : Fits(k)
        THEN LET k == CHOOSE k \in 1 .. 16 : Fits(k)
             IN  [symbol |-> t.values[t.place[k] + Receive(bits, p, k) - t.first[k]], len |-> k]
        ELSE NoSymbol

Extend(n, len) == IF len > 0 /\ n < 2 ^ (len - 1) THEN n - 2 ^ len + 1 ELSE n

\* The coefficients from place k of the zigzag order on, into block.
RECURSIVE DecodeAC(_, _, _, _, _)
DecodeAC(bits, p, k, block, t) ==
    LET s    == Symbol(bits, p, t)
        len  == s.symbol % 16
        at   == k + s.symbol \div 16
        next == p + s.len
    IN  IF k > 63 THEN [block |-> block, next |-> p]
        ELSE IF s = NoSymbol \/ at > 63 THEN [block |-> block, next |-> Len(bits) + 9]
        ELSE IF s.symbol = 0 THEN [block |-> block, next |-> next]
        ELSE DecodeAC(bits, next + len, at + 1,
                      [block EXCEPT ![at] = Extend(Receive(bits, next, len), len)], t)

\* The units of a scan, from unit n on; a DC is a difference to the last of its
\* component.  The padding is less than a byte.
RECURSIVE DecodeUnits(_, _, _, _)
DecodeUnits(bits, p, n, pred) ==
    LET c   == ComponentOf(n)
        t   == IF c = 0 THEN LumaTables ELSE ChromaTables
        s   == Symbol(bits, p, t.DC)
        dcv == pred[c] + Extend(Receive(bits, p + s.len, s.symbol), s.symbol)
        ac  == DecodeAC(bits, p + s.len + s.symbol, 1,
                        [k \in Coefficients |-> IF k = 0 THEN dcv ELSE 0], t.AC)
    IN  IF n = 3 * Mcus THEN IF Len(bits) - p < 7 THEN <<>> ELSE <<NoSymbol>>
        ELSE IF p > Len(bits) \/ s = NoSymbol THEN <<NoSymbol>>
        ELSE <<ac.block>> \o DecodeUnits(bits, ac.next, n + 1, [pred EXCEPT ![c] = dcv])

-----------------------------------------------------------------------------
(* headers *)

WordAt(bytes, i) == 256 * bytes[i] + bytes[i + 1]

\* The marker segments from place i up to the scan, as far as they are chained.
RECURSIVE Segments(_, _)
Segments(bytes, i) ==
    IF i + 3 > Len(bytes) \/ bytes[i] # 255 THEN <<>>
    ELSE LET len == WordAt(bytes, i + 2) IN
         <<[marker |-> bytes[i + 1], data |-> SubSeq(bytes, i + 4, i + 1 + len),
            whole |-> i + 1 + len <= Len(bytes)]>> \o Segments(bytes, i + 2 + len)

\* The Huffman tables of a DHT segment: destination, counts and symbols.
RECURSIVE HuffmanTables(_)
HuffmanTables(data) ==
    IF Len(data) < 17 THEN IF data = <<>> THEN {} ELSE {NoSymbol}
    ELSE LET counts == SubSeq(data, 2, 17)
             n == FoldLeft(LAMBDA a, b : a + b, 0, counts)
         IN  {[to |-> data[1], counts |-> counts, values |-> SubSeq(data, 18, 17 + n)]}
                 \cup HuffmanTables(SubSeq(data, 18 + n, Len(data)))

-----------------------------------------------------------------------------
(* properties *)

HeaderLen == IF file THEN Len(WriteHeader(quality, 8 * Mcus, 8)) ELSE 0
Scan == SubSeq(stream.bytes, HeaderLen + 1, Len(stream.bytes))

\* A bit word never fills up without being written, and the prediction is a level
\* the Huffman tables have a code for.
TypeOK ==
    /\ quality \in Qualities /\ file \in BOOLEAN /\ ended \in BOOLEAN
    /\ \A i \in DOMAIN stream.bytes : stream.bytes[i] \in 0 .. 255
    /\ Len(stream.word) < BufBits /\ \A i \in DOMAIN stream.word : stream.word[i] \in {0, 1}
    /\ DOMAIN dc = Components /\ \A c \in Components : dc[c] \in -1024 .. 1024
    /\ Len(units) <= 3 * Mcus

\* Whatever the runs and the sizes of the levels are and wherever a code is cut
\* by the end of a word, a decoder reads back exactly the quantised units
\* (process_DU, writebits, flashbits, compute_Huffman_table).
ScanDecodes ==
    ended => DecodeUnits(ScanBits(SubSeq(Scan, 1, Len(Scan) - 2)), 1, 0, [c \in Components |-> 0])
               = [n \in DOMAIN units |-> Levels(quality, ComponentOf(n - 1), units[n])]

\* No code word is read as a marker: before the end of image every FF of the
\* scan is followed by 00, and none stands at the end of what has been written.
NoMarkerInScan ==
    LET last == Len(Scan) - IF ended THEN 2 ELSE 0 IN
        \A i \in 1 .. last : Scan[i] = 255 => i < last /\ Scan[i + 1] = 0

\* A file's header is a chain of segments, the Huffman tables in it are the ones
\* the scan is coded with, and its quantisation tables those of the divisors
\* (WriteHeader).
HeaderDescribesScan ==
    file /\ units = <<>> =>
        LET segs == Segments(stream.bytes, 3)
            Of(marker) == SelectSeq(segs, LAMBDA s : s.marker = marker)
            Luma(t) == t.to % 16 = 0
        IN  /\ SubSeq(stream.bytes, 1, 2) = <<255, 216>>
            /\ \A n \in DOMAIN segs : segs[n].whole
            /\ [n \in DOMAIN segs |-> segs[n].marker] = <<224, 219, 219, 192, 196, 218>>
            /\ \A i \in Coefficients :
                  /\ Divisors[quality].divisor_Y[i] =
                        compute_reciprocal((Of(219)[1].data[At(zigzag, i) + 2] * At(aanscales, i) + 1024) \div 2048)
                  /\ Divisors[quality].divisor_Cb[i] =
                        compute_reciprocal((Of(219)[2].data[At(zigzag, i) + 2] * At(aanscales, i) + 1024) \div 2048)
            /\ {t.to : t \in HuffmanTables(Of(196)[1].data)} = {0, 1, 16, 17}
            /\ \A t \in HuffmanTables(Of(196)[1].data) :
                  LET HT == HuffmanTable(t.to % 16) IN
                      compute_Huffman_table(<<0>> \o t.counts, t.values)
                          = IF t.to < 16 THEN HT.DC ELSE HT.AC

\* What is written is a JPEG stream of the units: header, markers and codes.
StreamDecodes == TypeOK /\ HeaderDescribesScan /\ NoMarkerInScan /\ ScanDecodes
=============================================================================
