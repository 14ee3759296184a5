--------------------------- MODULE MCFingerprint ----------------------------
(***************************************************************************)
(* Two of the seeds of initial_machines; the valuations are theirs and one *)
(* in which all absolute addresses are the same.                           *)
(***************************************************************************)
EXTENDS Fingerprint

MCSeeds == << <<65535, 65535>>, <<4660, 22136>> >>

MCValuations(rms) ==
    Range(rms) \cup
    {[rms[s] EXCEPT !.absolute = [k \in 0 .. 3 |-> 512]] : s \in DOMAIN rms}

Abs(name, k) == instruction(name, "ABSOLUTE", k)
None(name)   == instruction(name, "NONE", 0)

MCProgram ==
    {Abs("STA", 0), Abs("STA", 1), Abs("STX", 0), Abs("LDA", 0), Abs("LSR", 0),
     Abs("BMI", 1), Abs("JMP", 0)}
    \cup {None(n) : n \in {"CLC", "SEC", "TAX", "RTS", "PHA", "DEX"}}

MCReplacements ==
    {<< <<Abs("LSR", 0), Abs("BMI", 1)>>, <<Abs("LSR", 0)>> >>,
     << <<None("CLC"), None("SEC")>>, <<None("SEC")>> >>}
=============================================================================
