----------------------------- MODULE MCPipeline -----------------------------
(***************************************************************************)
(* Loads of C0 and C1, a flag, and three opcodes whose costs add up to     *)
(* different floats in different orders.  Two of the 130 machines of *)
(* try_split; the valuations are of other machines, one with all absolute  *)
(* addresses the same.                                                     *)
(***************************************************************************)
EXTENDS Pipeline

MCTried ==
    {opcode("LDA", "Immediate", 0), opcode("LDA", "Immediate", 1),
     opcode("CLC", "None", 14),
     opcode("ORA", "ZeroPage", 10), opcode("ORA", "AbsoluteX", 7),
     opcode("ORA", "IndirectY", 10)}

MCSeeds      == {<<65444, 48301>>, <<17778, 33950>>}
MCSplitSeeds == {<<0, 0>>, <<22068, 27990>>}

\* Fewer do not tell apart all the bytes that ORA reads.
MCValuations ==
    LET ms == {Concrete!random_machine(<<4660 * k, 22136>>) : k \in 1 .. 7}
    IN  ms \cup {[m EXCEPT !.absolute = [k \in 0 .. 3 |-> 512]] : m \in {CHOOSE m \in ms : TRUE}}
=============================================================================
