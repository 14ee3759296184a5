---------------------------- MODULE Fingerprint -----------------------------
(***************************************************************************)
(* Fingerprints of sequences (enumerator2.cpp:73-114): a sequence is run   *)
(* on every machine of initial_machines, and the fingerprint is made of    *)
(* the hashes of their final states.  Only sequences with the same         *)
(* fingerprint are given to the solver (canBeDifferent), which compares    *)
(* the abstract machines under every valuation; here, under some.          *)
(*                                                                         *)
(* Two sequences grow independently, so that every pair is compared.       *)
(***************************************************************************)
EXTENDS Naturals, Instructions, Machine, SequencesExt, Fnv

CONSTANTS
    Seeds,          \* of the machines in initial_machines
    Valuations(_),  \* given those machines, the valuations of the unknowns
    Program,        \* the instructions of the sequences
    MaxLength,      \* how long the sequences get
    Replacements    \* pairs of sequences, of which the second may replace the first

Concrete == INSTANCE RandomMachine
Symbolic == INSTANCE AbstractMachine WITH Memory <- Concrete!read

VARIABLE
    side            \* side[i]: a sequence and the machines that have run it

vars == <<side>>

Side == {1, 2}

initial_machines == [i \in DOMAIN Seeds |-> Concrete!random_machine(Seeds[i])]

Init ==
    side = [i \in Side |->
              [seq |-> <<>>,
               rms |-> initial_machines,
               abs |-> [v \in Valuations(initial_machines) |->
                          Symbolic!abstract_machine(v)]]]

\* The next instruction of sequence i, on every machine.
Extend(i, ins) ==
    /\ Len(side[i].seq) < MaxLength
    /\ side' = [side EXCEPT ![i] =
          [seq |-> Append(@.seq, ins),
           rms |-> [k \in DOMAIN Seeds |-> Concrete!Emulator!Run(@.rms[k], ins)],
           abs |-> [v \in DOMAIN @.abs |-> Symbolic!Emulator!Run(@.abs[v], ins)]]]

Next == \E i \in Side, ins \in Program : Extend(i, ins)

Spec == Init /\ [][Next]_vars

-----------------------------------------------------------------------------
\* The hash of the hashes, with 0x18480949 for a seed.
hash(rms) ==
    FoldLeft(LAMBDA all, rm : add32(all, Concrete!hash(rm)), fnv_hash(<<6216, 2377>>), rms)

SameRegisters(m, n) ==
    /\ \A f \in Register \cup Flag : m[f] = n[f]
    /\ m.exit = n.exit

Stored(m, w) == Symbolic!read(m, Symbolic!num_val(w, 16))

\* There is no valuation under which the abstract machines differ.
canBeDifferent(ma, mb) ==
    \E v \in DOMAIN ma :
        ~ /\ SameRegisters(ma[v], mb[v])
          /\ \A w \in DOMAIN ma[v].memory \cup DOMAIN mb[v].memory :
                Stored(ma[v], w) = Stored(mb[v], w)

Equivalent == ~canBeDifferent(side[1].abs, side[2].abs)
SameHash   == hash(side[1].rms) = hash(side[2].rms)

-----------------------------------------------------------------------------
WrittenBy(m) == [i \in DOMAIN m.written |-> m.written[i][1]]

\* Sequences with the same fingerprint have done the same to every test
\* machine, its memory and the way it was left included: the solver is not
\* asked about sequences that a test has told apart
\* (random_machine.h:212-248, enumerator2.cpp:95-114).
HashTellsApart ==
    SameHash =>
        \A s \in DOMAIN Seeds :
            LET m == side[1].rms[s]
                n == side[2].rms[s]
            IN  /\ SameRegisters(m, n)
                /\ \A w \in ToSet(WrittenBy(m)) \cup ToSet(WrittenBy(n)) :
                      Concrete!read(m, w) = Concrete!read(n, w)

\* Equivalent sequences that write the same addresses in the same order have
\* the same fingerprint, so that they are compared (random_machine.h:212-248).
HashRuleInOrder ==
    /\ Equivalent
    /\ \A s \in DOMAIN Seeds : WrittenBy(side[1].rms[s]) = WrittenBy(side[2].rms[s])
    => SameHash

\* The sample replacements of the README are found: the two sequences are
\* equivalent and have the same fingerprint (README.md:45-53).
SamplesFound ==
    <<side[1].seq, side[2].seq>> \in Replacements => Equivalent /\ SameHash
=============================================================================
