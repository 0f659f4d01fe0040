----------------------------- MODULE JpegCoder -----------------------------
(***************************************************************************)
(* The JPEG coder (libusbdisp/libenc/jpeg_enc.c and, for the x86 build,    *)
(* Optimize_SSE2.h and jquanti-sse2-64.asm): quantisation of the DCT's     *)
(* output, zigzag and run length coding, Huffman coding, bit output, and   *)
(* the headers.  The colour conversion and the DCT itself are kernels      *)
(* taken over from libjpeg-turbo; a data unit enters this module as the    *)
(* coefficients the DCT hands to jsimd_quantize.                           *)
(*                                                                         *)
(* Two programs use the coder: usb-disp codes blocks without a header for  *)
(* a display that has its own Huffman tables and was sent the quantisation *)
(* tables; jpegenc writes files.                                           *)
(***************************************************************************)
EXTENDS Integers, Sequences, SequencesExt, JpegTables

CONSTANTS
    Qualities,   \* the quality factors the coders were initialised with
    BufBits,     \* BUF_BITS: 64 with _64_BIT_, else 32
    Mcus,        \* data units of a component: Ximage * Yimage / 64
    Inputs(_, _) \* the DCT outputs to try, by quality and number of the unit

ASSUME CoderAssumption ==
    /\ Qualities \subseteq 0 .. 100 /\ BufBits \in {32, 64} /\ Mcus \in Nat \ {0}

VARIABLES
    quality,  \* QualityFactor
    file,     \* jpegenc writes a file: the scan has a header
    stream,   \* jpeg_stream, and the bits of wordnew (wordpos is their number)
    dc,       \* DCY, DCCb and DCCr
    units,    \* history: the data units coded
    ended     \* encode has returned

vars == <<quality, file, stream, dc, units, ended>>

Coefficients == 0 .. 63

\* What the DCT makes of 8-bit samples stays below this in size.
LargestCoefficient == 16383

ASSUME InputsAssumption ==
    \A q \in Qualities, n \in 1 .. 3 * Mcus :
        Inputs(q, n) \subseteq [Coefficients -> -LargestCoefficient .. LargestCoefficient]

Components == 0 .. 2  \* Y, Cb, Cr
ComponentOf(unit) == unit % 3

\* The coefficient of a block that comes at place k of the zigzag order.
Unzigzag == [k \in Coefficients |-> CHOOSE i \in Coefficients : At(zigzag, i) = k]

Word(w) == <<w \div 256, w % 256>>

-----------------------------------------------------------------------------
(* quantisation tables *)

Clamp(low, high, n) == IF n < low THEN low ELSE IF n > high THEN high ELSE n

\* Both tables of a DQT are kept in zigzag order.
set_quant_table(basic_table, scale_factor) ==
    [k \in Coefficients |->
        Clamp(1, 255, (At(basic_table, Unzigzag[k]) * scale_factor + 50) \div 100)]

set_DQTinfo(q) ==
    LET scalefactor == (100 - q) * 2 IN
        [Ytable  |-> set_quant_table(std_luminance_qt, scalefactor),
         Cbtable |-> set_quant_table(std_chrominance_qt, scalefactor)]

\* flss: the number of bits of a value.
Category(n) == CHOOSE c \in 0 .. 16 : n < 2 ^ c /\ (c = 0 \/ n >= 2 ^ (c - 1))

\* A division as two multiplications of which the upper 16 bits are kept.  All
\* four numbers are 16 bits wide: the scale of divisors 1 and 2 does not fit.
compute_reciprocal(divisor) ==
    LET r  == 15 + Category(divisor)
        fq == 2 ^ r \div divisor
        fr == (2 ^ r) % divisor
        c  == divisor \div 2
        Fields(f, corr, shift) == [reciprocal |-> f % (2 ^ 16), correction |-> corr,
                                   scale |-> (2 ^ (32 - shift)) % (2 ^ 16)]
    IN  IF fr = 0 THEN Fields(fq \div 2, c, r - 1)
        ELSE IF fr <= c THEN Fields(fq, c + 1, r)
        ELSE Fields(fq + 1, c, r)

\* DESCALE(quantiser * aanscale, CONST_BITS - 3)
Divisor(table, i) == (table[At(zigzag, i)] * At(aanscales, i) + 1024) \div 2048

\* Defect: the tables are taken to be in the order of the block.
TablesUnordered(dqt) ==
    LET Unordered(table, i) == (table[i] * At(aanscales, i) + 1024) \div 2048 IN
        [divisor_Y  |-> [i \in Coefficients |-> compute_reciprocal(Unordered(dqt.Ytable, i))],
         divisor_Cb |-> [i \in Coefficients |-> compute_reciprocal(Unordered(dqt.Cbtable, i))]]

prepare_quant_tables(dqt) ==
    [divisor_Y  |-> [i \in Coefficients |-> compute_reciprocal(Divisor(dqt.Ytable, i))],
     divisor_Cb |-> [i \in Coefficients |-> compute_reciprocal(Divisor(dqt.Cbtable, i))]]

\* Initialize of every quality in use; the Huffman tables are further down.
DQTinfo  == [q \in Qualities |-> set_DQTinfo(q)]
Divisors == [q \in Qualities |-> prepare_quant_tables(DQTinfo[q])]

\* load_data_units_from_buffer: a byte of the picture as the DCT takes it; the
\* SSE2 version puts it into the upper half of a lane, over 00 or 80.
Signed(n, width) == IF n < 2 ^ (width - 1) THEN n ELSE n - 2 ^ width
SamplePlain(byte) == Signed((byte + 128) % 256, 8)
Sample(byte, lane) ==
    Signed((256 * byte + 128 * (lane % 2) + 32768) % (2 ^ 16), 16) \div 256

\* One lane of jsimd_quantize_sse2.
Quantise(x, d) ==
    LET High(a, b) == (a * b) \div 2 ^ 16
        size  == IF x < 0 THEN -x ELSE x
        level == High(High((size + d.correction) % (2 ^ 16), d.reciprocal), d.scale)
    IN  IF x < 0 THEN -level ELSE level

-----------------------------------------------------------------------------
(* Huffman tables *)

\* The bits of n, the highest first.
Bits(n, len) == [k \in 1 .. len |-> (n \div 2 ^ (len - k)) % 2]

\* Codes are counted up, and doubled at the end of each length.  A symbol that
\* has no code has the empty one.
compute_Huffman_table(nrcodes, std_table) ==
    LET Upto[k \in 0 .. 16] == IF k = 0 THEN 0 ELSE Upto[k - 1] + At(nrcodes, k)
        LengthAt(p) == CHOOSE k \in 1 .. 16 : Upto[k - 1] < p /\ p <= Upto[k]
        CodeAt[p \in 1 .. Len(std_table)] ==
            IF p = 1 THEN 0 ELSE (CodeAt[p - 1] + 1) * 2 ^ (LengthAt(p) - LengthAt(p - 1))
    IN  [symbol \in 0 .. 255 |->
            IF \E p \in DOMAIN std_table : std_table[p] = symbol
            THEN LET p == CHOOSE p \in DOMAIN std_table : std_table[p] = symbol
                 IN  Bits(CodeAt[p], LengthAt(p))
            ELSE <<>>]

\* init_Huffman_tables
Y_HT  == [DC |-> compute_Huffman_table(std_dc_luminance_nrcodes, std_dc_luminance_values),
          AC |-> compute_Huffman_table(std_ac_luminance_nrcodes, std_ac_luminance_values)]
Cb_HT == [DC |-> compute_Huffman_table(std_dc_chrominance_nrcodes, std_dc_chrominance_values),
          AC |-> compute_Huffman_table(std_ac_chrominance_nrcodes, std_ac_chrominance_values)]

EOB == 0
M16zeroes == 240

-----------------------------------------------------------------------------
(* bit output *)

ValueOf(bits) == FoldLeft(LAMBDA n, b : 2 * n + b, 0, bits)
BytesOf(bits) == [i \in 1 .. Len(bits) \div 8 |-> ValueOf(SubSeq(bits, 8 * i - 7, 8 * i))]

\* A byte FF of the data is followed by 00, so that it is not read as a marker.
Output(bytes, bits) ==
    FoldLeft(LAMBDA s, b : s \o IF b = 255 THEN <<b, 0>> ELSE <<b>>, bytes, BytesOf(bits))

writebits(s, bits) ==
    IF Len(s.word) + Len(bits) < BufBits
    THEN [s EXCEPT !.word = @ \o bits]
    ELSE LET shift == BufBits - Len(s.word) IN
         [bytes |-> Output(s.bytes, s.word \o SubSeq(bits, 1, shift)),
          word  |-> SubSeq(bits, shift + 1, Len(bits))]

\* Defect: the last byte is written only when it is full.
flashbitsWhole(s) ==
    [bytes |-> Output(s.bytes, SubSeq(s.word, 1, Len(s.word) - (Len(s.word) % 8))),
     word  |-> <<>>]

\* What is left goes out with zeroes up to the end of the last byte.
flashbits(s) ==
    LET missing == (8 - (Len(s.word) % 8)) % 8 IN
        [bytes |-> Output(s.bytes, s.word \o [k \in 1 .. missing |-> 0]),
         word  |-> <<>>]

-----------------------------------------------------------------------------
(* process_DU: a data unit as the codes it is written with *)

Magnitude(v) == Category(IF v < 0 THEN -v ELSE v)

\* The low bits of the value, less one when it is negative.
ValueBits(v) == Bits((IF v < 0 THEN v - 1 ELSE v) % (2 ^ Magnitude(v)), Magnitude(v))

CodeDC(diff, HT) ==
    IF diff = 0 THEN <<HT.DC[0]>> ELSE <<HT.DC[Magnitude(diff)], ValueBits(diff)>>

\* A coefficient after a run of zeroes.
CodeAC(nrzeroes, v, HT) ==
    [k \in 1 .. nrzeroes \div 16 |-> HT.AC[M16zeroes]]
        \o <<HT.AC[(nrzeroes % 16) * 16 + Magnitude(v)], ValueBits(v)>>

\* Where the run of zeroes before place k starts; none starts before first.
RunStart(ZDU, first, k) ==
    CHOOSE s \in first .. k : /\ \A j \in s .. k - 1 : ZDU[j] = 0
                              /\ s = first \/ ZDU[s - 1] # 0

\* Each coefficient that is not zero after its run of nrzeroes.
CodeRuns(ZDU, nrzeroes, HT) ==
    FlattenSeq([k \in 1 .. 63 |-> IF ZDU[k] = 0 THEN <<>> ELSE CodeAC(nrzeroes[k], ZDU[k], HT)])

\* The portable version (ARM): up to the last coefficient that is not zero.
ProcessPlain(ZDU, diff, HT) ==
    LET end0pos == IF \A k \in 1 .. 63 : ZDU[k] = 0 THEN 0
                   ELSE CHOOSE k \in 1 .. 63 : ZDU[k] # 0 /\ \A j \in k + 1 .. 63 : ZDU[j] = 0
        nrzeroes == [k \in 1 .. 63 |-> k - RunStart(ZDU, 1, k)]
    IN  CodeDC(diff, HT) \o CodeRuns(ZDU, nrzeroes, HT)
            \o IF end0pos = 63 THEN <<>> ELSE <<HT.AC[EOB]>>

\* The zeroes before place k of a group that starts at first, with those carried
\* there from the groups before.
GroupZeroes(ZDU, first, carried, k) ==
    LET s == RunStart(ZDU, first, k) IN k - s + IF s = first THEN carried ELSE 0

\* Defect: the zeroes at the end of a group are forgotten.
ProcessUncarried(ZDU, diff, HT) ==
    LET nrzeroes == [k \in 1 .. 63 |->
                        GroupZeroes(ZDU, IF k < 16 THEN 1 ELSE k - (k % 16), 0, k)]
    IN  CodeDC(diff, HT) \o CodeRuns(ZDU, nrzeroes, HT)
            \o IF ZDU[63] = 0 THEN <<HT.AC[EOB]>> ELSE <<>>

\* The SSE2 version: four groups of 16 coefficients, each found by a mask of
\* those that are not zero; nrzeroes is carried from group to group.
ProcessDU(ZDU, diff, HT) ==
    LET to16 == GroupZeroes(ZDU, 1, 0, 16)
        to32 == GroupZeroes(ZDU, 16, to16, 32)
        to48 == GroupZeroes(ZDU, 32, to32, 48)
        nrzeroes == [k \in 1 .. 63 |-> CASE k < 16 -> GroupZeroes(ZDU, 1, 0, k)
                                         [] k \in 16 .. 31 -> GroupZeroes(ZDU, 16, to16, k)
                                         [] k \in 32 .. 47 -> GroupZeroes(ZDU, 32, to32, k)
                                         [] k >= 48 -> GroupZeroes(ZDU, 48, to48, k)]
    IN  CodeDC(diff, HT) \o CodeRuns(ZDU, nrzeroes, HT)
            \o IF ZDU[63] = 0 THEN <<HT.AC[EOB]>> ELSE <<>>

-----------------------------------------------------------------------------
(* what is written before a scan *)

Row(table) == [k \in 1 .. 64 |-> table[k - 1]]
Counts(nrcodes) == SubSeq(nrcodes, 2, 17)

write_APP0info == Word(65504) \o Word(16) \o <<74, 70, 73, 70, 0, 1, 1, 0>>
                      \o Word(1) \o Word(1) \o <<0, 0>>

write_DQTinfo(dqt) == Word(65499) \o Word(67) \o <<0>> \o Row(dqt.Ytable)
                          \o Word(65499) \o Word(67) \o <<1>> \o Row(dqt.Cbtable)

write_SOF0info(width, height) ==
    Word(65472) \o Word(17) \o <<8>> \o Word(height) \o Word(width)
        \o <<3, 1, 17, 0, 2, 17, 1, 3, 17, 1>>

\* set_DHTinfo and write_DHTinfo
write_DHTinfo ==
    Word(65476) \o Word(418)
        \o <<0>>  \o Counts(std_dc_luminance_nrcodes)   \o std_dc_luminance_values
        \o <<16>> \o Counts(std_ac_luminance_nrcodes)   \o std_ac_luminance_values
        \o <<1>>  \o Counts(std_dc_chrominance_nrcodes) \o std_dc_chrominance_values
        \o <<17>> \o Counts(std_ac_chrominance_nrcodes) \o std_ac_chrominance_values

write_SOSinfo == Word(65498) \o Word(12) \o <<3, 1, 0, 2, 17, 3, 17, 0, 63, 0>>

WriteHeader(q, width, height) ==
    Word(65496) \o write_APP0info \o write_DQTinfo(DQTinfo[q])
        \o write_SOF0info(width, height) \o write_DHTinfo \o write_SOSinfo

\* What the display is sent (SPD615): the tables in the order of the block.
GetDQTinfo(dqt) ==
    LET Natural(table) == [k \in 1 .. 64 |-> table[At(zigzag, k - 1)]]
    IN  Word(65499) \o Word(67) \o <<0>> \o Natural(dqt.Ytable)
            \o Word(65499) \o Word(67) \o <<1>> \o Natural(dqt.Cbtable)

-----------------------------------------------------------------------------
(* encode *)

\* wordpos and wordnew are cleared; jpegenc has written its header.
Init ==
    /\ quality \in Qualities /\ file \in BOOLEAN
    /\ stream = [bytes |-> IF file THEN WriteHeader(quality, 8 * Mcus, 8) ELSE <<>>,
                 word  |-> <<>>]
    /\ dc = [c \in Components |-> 0]
    /\ units = <<>> /\ ended = FALSE

\* fdct_and_quantization of a unit of a component, in zigzag order.
Levels(q, c, raw) ==
    LET divisors == IF c = 0 THEN Divisors[q].divisor_Y ELSE Divisors[q].divisor_Cb
    IN  [k \in Coefficients |-> Quantise(raw[Unzigzag[k]], divisors[Unzigzag[k]])]

HuffmanTable(c) == IF c = 0 THEN Y_HT ELSE Cb_HT

\* main_encoder: the units in the order Y, Cb, Cr of one place after the other,
\* each component predicting its DC from its own last unit.
CodeUnit(raw) ==
    /\ Len(units) < 3 * Mcus
    /\ LET c   == ComponentOf(Len(units))
           ZDU == Levels(quality, c, raw)
       IN  /\ stream' = FoldLeft(writebits, stream, ProcessDU(ZDU, ZDU[0] - dc[c], HuffmanTable(c)))
           /\ dc' = [dc EXCEPT ![c] = ZDU[0]]
    /\ units' = Append(units, raw)
    /\ UNCHANGED <<quality, file, ended>>

\* The rest of the bits and the end of image marker.
Finish ==
    /\ Len(units) = 3 * Mcus /\ ~ended
    /\ LET s == flashbits(stream) IN stream' = [s EXCEPT !.bytes = @ \o Word(65497)]
    /\ ended' = TRUE
    /\ UNCHANGED <<quality, file, dc, units>>

Next == (\E raw \in Inputs(quality, Len(units) + 1) : CodeUnit(raw)) \/ Finish

Spec == Init /\ [][Next]_vars
-----------------------------------------------------------------------------
(* properties; those that need a decoder are in JpegDecoder *)

\* The x86 and the ARM build write the same codes for a unit, and load the same
\* samples (Optimize_SSE2.h and the functions it replaces).
SameOnBothBuilds ==
    /\ units = <<>> =>
          \A byte \in 0 .. 255, lane \in 0 .. 7 : Sample(byte, lane) = SamplePlain(byte)
    /\ units # <<>> =>
        LET n   == Len(units)
            c   == ComponentOf(n - 1)
            ZDU == Levels(quality, c, units[n])
        IN  ProcessDU(ZDU, ZDU[0], HuffmanTable(c)) = ProcessPlain(ZDU, ZDU[0], HuffmanTable(c))

\* The divisions by multiplication are exact: every coefficient is rounded to the
\* nearest multiple of its divisor, for every divisor in use (compute_reciprocal).
RoundsToNearest ==
    units = <<>> /\ ~file =>
        \A table \in {DQTinfo[quality].Ytable, DQTinfo[quality].Cbtable} :
            \A d \in {Divisor(table, i) : i \in Coefficients} :
                LET fields == compute_reciprocal(d) IN
                    \A x \in 0 .. LargestCoefficient :
                        Quantise(x, fields) = (x + d \div 2) \div d

\* A display that scales the levels up with the tables it was sent comes as close
\* to the coefficients as a quantiser can: half a step.  The tables are sent in
\* another order than the one they are kept in, and the divisors are computed
\* from them with the scale factors of the DCT.
DisplayIsClose ==
    units # <<>> =>
        LET n    == Len(units)
            c    == ComponentOf(n - 1)
            sent == GetDQTinfo(DQTinfo[quality])
            step(i) == sent[(IF c = 0 THEN 5 ELSE 74) + i + 1] * At(aanscales, i)
        IN  \A i \in Coefficients :
               LET level == Levels(quality, c, units[n])[At(zigzag, i)]
                   off   == 2048 * units[n][i] - level * step(i)
               IN  2 * (IF off < 0 THEN -off ELSE off)
                      <= step(i) + 1024 * (1 + 2 * (IF level < 0 THEN -level ELSE level))

\* And a display makes of it what the quantisation of the units promises.
PictureIsClose == RoundsToNearest /\ DisplayIsClose
=============================================================================
