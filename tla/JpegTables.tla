----------------------------- MODULE JpegTables -----------------------------
(***************************************************************************)
(* The constant tables of the JPEG coder (libusbdisp/libenc/jpeg_enc.c).   *)
(* Sequences start at 1 where the arrays start at 0; At hides that.        *)
(***************************************************************************)
EXTENDS Naturals, Sequences

\* table[i] as C counts.
At(table, i) == table[i + 1]

\* Where each coefficient of a block stands in the zigzag order.
zigzag == <<
     0,  1,  5,  6, 14, 15, 27, 28,
     2,  4,  7, 13, 16, 26, 29, 42,
     3,  8, 12, 17, 25, 30, 41, 43,
     9, 11, 18, 24, 31, 40, 44, 53,
    10, 19, 23, 32, 39, 45, 52, 54,
    20, 22, 33, 38, 46, 51, 55, 60,
    21, 34, 37, 47, 50, 56, 59, 61,
    35, 36, 48, 49, 57, 58, 62, 63 >>

\* The sample quantisation tables of the JPEG standard, K.1.
std_luminance_qt == <<
     16,  11,  10,  16,  24,  40,  51,  61,  12,  12,  14,  19,  26,  58,  60,  55,
     14,  13,  16,  24,  40,  57,  69,  56,  14,  17,  22,  29,  51,  87,  80,  62,
     18,  22,  37,  56,  68, 109, 103,  77,  24,  35,  55,  64,  81, 104, 113,  92,
     49,  64,  78,  87, 103, 121, 120, 101,  72,  92,  95,  98, 112, 100, 103,  99 >>

std_chrominance_qt == <<
    17, 18, 24, 47, 99, 99, 99, 99, 18, 21, 26, 66, 99, 99, 99, 99,
    24, 26, 56, 99, 99, 99, 99, 99, 47, 66, 99, 99, 99, 99, 99, 99,
    99, 99, 99, 99, 99, 99, 99, 99, 99, 99, 99, 99, 99, 99, 99, 99,
    99, 99, 99, 99, 99, 99, 99, 99, 99, 99, 99, 99, 99, 99, 99, 99 >>

\* The scale factors the fast DCT leaves in its output, times 2^14.
aanscales == <<
    16384, 22725, 21407, 19266, 16384, 12873,  8867,  4520,
    22725, 31521, 29692, 26722, 22725, 17855, 12299,  6270,
    21407, 29692, 27969, 25172, 21407, 16819, 11585,  5906,
    19266, 26722, 25172, 22654, 19266, 15137, 10426,  5315,
    16384, 22725, 21407, 19266, 16384, 12873,  8867,  4520,
    12873, 17855, 16819, 15137, 12873, 10114,  6967,  3552,
     8867, 12299, 11585, 10426,  8867,  6967,  4799,  2446,
     4520,  6270,  5906,  5315,  4520,  3552,  2446,  1247 >>

\* The sample Huffman tables, K.3: how many codes there are of each length
\* (entry 0 is unused), and their symbols in the order of the codes.
std_dc_luminance_nrcodes == <<
    0, 0, 1, 5, 1, 1, 1, 1, 1, 1, 0, 0, 0, 0, 0, 0, 0 >>

std_dc_luminance_values == <<
     0,  1,  2,  3,  4,  5,  6,  7,  8,  9, 10, 11 >>

std_dc_chrominance_nrcodes == <<
    0, 0, 3, 1, 1, 1, 1, 1, 1, 1, 1, 1, 0, 0, 0, 0, 0 >>

std_dc_chrominance_values == <<
     0,  1,  2,  3,  4,  5,  6,  7,  8,  9, 10, 11 >>

std_ac_luminance_nrcodes == <<
      0,   0,   2,   1,   3,   3,   2,   4,   3,   5,   5,   4,   4,   0,   0,   1, 125 >>

std_ac_luminance_values == <<
      1,   2,   3,   0,   4,  17,   5,  18,  33,  49,  65,   6,  19,  81,  97,   7,  34, 113,
     20,  50, 129, 145, 161,   8,  35,  66, 177, 193,  21,  82, 209, 240,  36,  51,  98, 114,
    130,   9,  10,  22,  23,  24,  25,  26,  37,  38,  39,  40,  41,  42,  52,  53,  54,  55,
     56,  57,  58,  67,  68,  69,  70,  71,  72,  73,  74,  83,  84,  85,  86,  87,  88,  89,
     90,  99, 100, 101, 102, 103, 104, 105, 106, 115, 116, 117, 118, 119, 120, 121, 122, 131,
    132, 133, 134, 135, 136, 137, 138, 146, 147, 148, 149, 150, 151, 152, 153, 154, 162, 163,
    164, 165, 166, 167, 168, 169, 170, 178, 179, 180, 181, 182, 183, 184, 185, 186, 194, 195,
    196, 197, 198, 199, 200, 201, 202, 210, 211, 212, 213, 214, 215, 216, 217, 218, 225, 226,
    227, 228, 229, 230, 231, 232, 233, 234, 241, 242, 243, 244, 245, 246, 247, 248, 249, 250 >>

std_ac_chrominance_nrcodes == <<
      0,   0,   2,   1,   2,   4,   4,   3,   4,   7,   5,   4,   4,   0,   1,   2, 119 >>

std_ac_chrominance_values == <<
      0,   1,   2,   3,  17,   4,   5,  33,  49,   6,  18,  65,  81,   7,  97, 113,  19,  34,
     50, 129,   8,  20,  66, 145, 161, 177, 193,   9,  35,  51,  82, 240,  21,  98, 114, 209,
     10,  22,  36,  52, 225,  37, 241,  23,  24,  25,  26,  38,  39,  40,  41,  42,  53,  54,
     55,  56,  57,  58,  67,  68,  69,  70,  71,  72,  73,  74,  83,  84,  85,  86,  87,  88,
     89,  90,  99, 100, 101, 102, 103, 104, 105, 106, 115, 116, 117, 118, 119, 120, 121, 122,
    130, 131, 132, 133, 134, 135, 136, 137, 138, 146, 147, 148, 149, 150, 151, 152, 153, 154,
    162, 163, 164, 165, 166, 167, 168, 169, 170, 178, 179, 180, 181, 182, 183, 184, 185, 186,
    194, 195, 196, 197, 198, 199, 200, 201, 202, 210, 211, 212, 213, 214, 215, 216, 217, 218,
    226, 227, 228, 229, 230, 231, 232, 233, 234, 242, 243, 244, 245, 246, 247, 248, 249, 250 >>

=============================================================================
