------------------------------- MODULE MCJpeg -------------------------------
(* Instance of JpegDecoder for TLC. *)
EXTENDS JpegDecoder

\* A block whose coefficients are zero but for those of part, a function from
\* places of the zigzag order to values.
Block(part) ==
    [i \in Coefficients |-> IF At(zigzag, i) \in DOMAIN part THEN part[At(zigzag, i)] ELSE 0]

\* The largest values the DCT makes of 8-bit samples (1024 for the DC and 928 for
\* an AC, in units of 2048 / aanscale), and one quantisation step.
Peak(k) == (At(aanscales, Unzigzag[k]) * (IF k = 0 THEN 32 ELSE 29)) \div 64
Step(q, n, k) ==
    LET dqt == DQTinfo[q]
    IN  Divisor(IF ComponentOf(n - 1) = 0 THEN dqt.Ytable ELSE dqt.Cbtable, Unzigzag[k])

\* Places at the ends of the groups of 16, and runs across them.
Places == {1, 15, 16, 17, 33, 62, 63}
Pairs == {S \in SUBSET Places : \E a, b \in Places : S = {a, b}}

MCInputs(q, n) ==
    LET Value(k, big) == IF big THEN -Peak(k) ELSE Step(q, n, k)
        Sparse(S) == {[k \in S |-> Value(k, big[k])] : big \in [S -> BOOLEAN]}
        AC == UNION {Sparse(S) : S \in Pairs \cup {{}}}
        With(ac, d) == Block([k \in DOMAIN ac \cup {0} |-> IF k = 0 THEN d ELSE ac[k]])
    IN  CASE n = 1 -> {With(ac, d) : ac \in AC, d \in {0, Peak(0), -Peak(0)}}
          [] n \in {2, 4} -> {With(<<>>, Peak(0)),
                           With([k \in {1, 47} |-> Peak(k)], -(Step(q, n, 0) \div 2))}
          [] OTHER -> {With([k \in {n} |-> Step(q, n, k)], -Peak(0))}
=============================================================================
