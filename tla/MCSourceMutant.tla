--------------------------- MODULE MCSourceMutant ---------------------------
EXTENDS SourceMutant, TLC

CONSTANTS f1, f2, m1, m2, m3, a, b, a0, a1, b0, b1

Files == {f1, f2}
FileOfMutant == [m \in Mutant |-> IF m = m3 THEN f2 ELSE f1]

Original2 == [c \in {a, b} |-> IF c = a THEN a0 ELSE b0]
Binaries == {x \in [{a, b} -> {a0, a1, b0, b1}] : x[a] \in {a0, a1} /\ x[b] \in {b0, b1}}

\* Two commands; m1 changes the second binary or none, m2 both and m3 the first one,
\* each binary in the same way, and one of the changed ones or both fail.
Projects ==
    {s \in [original : {Original2}, built : [Mutant -> Binaries],
            fails : {{a1}, {b1}, {a1, b1}}] :
        /\ \A m \in Mutant : s.built[m][a] = IF m = m1 THEN a0 ELSE a1
        /\ s.built[m2][b] = b1 /\ s.built[m3][b] = b0
        /\ s.built[m1][b] = b0 => s.fails = {a1}}

Covers == [m \in Mutant |-> {n \in Mutant : FileOfMutant[n] = FileOfMutant[m]}]

Conf(early, sums, an, skip) ==
   [checksum |-> sums, earlyStop |-> early, analyzer |-> an, skipMutant |-> skip]

EarlyOrTable == {Conf(TRUE, FALSE, TRUE, TRUE), Conf(FALSE, TRUE, FALSE, FALSE)}
EarlyAndTable == {Conf(TRUE, TRUE, FALSE, FALSE)}
AnalyzerAndTable == {Conf(FALSE, TRUE, TRUE, FALSE)}
=============================================================================
