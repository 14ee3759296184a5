------------------------------ MODULE Encoding ------------------------------
(***************************************************************************)
(* How instructions and hashes become numbers, bytes and text, and what    *)
(* the rest of the program needs of that: instructions2.h:5-163 and the    *)
(* records of enumerator2.cpp.  TLC evaluates the assumptions.             *)
(*                                                                         *)
(* A hash of 64 bits is four digits of 16 bits, the lowest first.  A text  *)
(* is the sequence of its parts.                                           *)
(***************************************************************************)
EXTENDS Instructions, SequencesExt

\* The enumerators after NONE, which is 0.
instruction_name ==
    <<"ADC", "AND", "ASL", "BCC", "BCS", "BEQ", "BIT", "BMI", "BNE", "BPL", "BRK", "BVC", "BVS",
      "CLC", "CLD", "CLI", "CLV", "CMP", "CPX", "CPY", "DEC", "DEX", "DEY", "EOR", "INC", "INX",
      "INY", "JMP", "JSR", "LDA", "LDX", "LDY", "LSR", "NOP", "ORA", "PHA", "PHP", "PLA", "PLP",
      "ROL", "ROR", "RTI", "RTS", "SBC", "SEC", "SED", "SEI", "STA", "STX", "STY", "TAX", "TAY",
      "TSX", "TXA", "TXS", "TYA", "JMPI", "LSRA", "ASLA", "ROLA", "RORA">>

addr_mode ==
    <<"ABSOLUTE", "ABSOLUTE_X", "ABSOLUTE_Y", "X_INDIRECT", "INDIRECT_Y", "ZERO_PAGE",
      "ZERO_PAGE_X", "ZERO_PAGE_Y", "IMMEDIATE", "CONSTANT">>

Code(enum, x) == IF x = "NONE" THEN 0 ELSE CHOOSE c \in DOMAIN enum : enum[c] = x
Named(enum, c) == IF c = 0 THEN "NONE" ELSE enum[c]

\* The 16 bits of an instruction, and what is got back from them.
data(ins) ==
    (Code(instruction_name, ins.name) * 16 + Code(addr_mode, ins.mode)) * 16 + ins.number

name(d)           == Named(instruction_name, (d \div 256) % 256)
mode(d)           == Named(addr_mode, (d \div 16) % 16)
number(d)         == d % 16
with_number(d, n) == d - (d % 16) + (n % 16)

Unpacked(d) == instruction(name(d), mode(d), number(d))

\* cycles.cpp has enumerations of its own, in which 57 has another name and
\* there are no constants, and packs instructions by them in the same way.
instruction_name_of_cycles == [instruction_name EXCEPT ![57] = "JSRI"]
addr_mode_of_cycles        == Front(addr_mode)

data_of_cycles(ins) ==
    (Code(instruction_name_of_cycles, ins.name) * 16 + Code(addr_mode_of_cycles, ins.mode)) * 16
        + ins.number

-----------------------------------------------------------------------------
\* The bytes of a hash, and back.
as_buffer(hash) ==
    [i \in 1 .. 8 |-> LET digit == hash[(i + 1) \div 2]
                      IN  IF i % 2 = 1 THEN digit % 256 ELSE digit \div 256]

from_buffer(buffer) == [i \in 1 .. 4 |-> buffer[2 * i - 1] + 256 * buffer[2 * i]]

\* The seven places of a sequence, two bytes each, those after its end empty.
write_instructions(seq) ==
    [i \in 1 .. 14 |->
        LET place == (i + 1) \div 2
            d     == IF place <= Len(seq) THEN data(seq[place]) ELSE 0
        IN  IF i % 2 = 1 THEN d % 256 ELSE d \div 256]

Record(hash, seq) == as_buffer(hash) \o write_instructions(seq)

\* What is read as instructions: up to the first empty place.
Stored(record) ==
    LET d(place) == record[7 + 2 * place] + 256 * record[8 + 2 * place]
        used     == {k \in 0 .. 7 : \A place \in 1 .. k : name(d(place)) # "NONE"}
    IN  [place \in 1 .. CHOOSE k \in used : \A j \in used : j <= k |-> Unpacked(d(place))]

\* get_bit of radix-sort.h, and the same of the hash as a number.
get_bit(record, index) == (record[index \div 8 + 1] \div 2^(index % 8)) % 2
HashBit(hash, index)   == (hash[index \div 16 + 1] \div 2^(index % 16)) % 2

-----------------------------------------------------------------------------
\* How an instruction is shown: the text of its row and its operand.
Suffix(m) ==
    CASE m \in {"ABSOLUTE", "NONE"}       -> ""
      [] m = "ABSOLUTE_X"                 -> ".x"
      [] m = "ABSOLUTE_Y"                 -> ".y"
      [] m = "X_INDIRECT"                 -> ".xi"
      [] m = "INDIRECT_Y"                 -> ".iy"
      [] m = "ZERO_PAGE"                  -> ".z"
      [] m = "ZERO_PAGE_X"                -> ".zx"
      [] m = "ZERO_PAGE_Y"                -> ".zy"
      [] m \in {"IMMEDIATE", "CONSTANT"}  -> ".#"

addr_mode_operand_strings ==
    <<"absolute", "absolute", "absolute", "zp", "zp", "zp", "zp", "zp", "immediate">>

addr_mode_operand_name(m, n) ==
    CASE m = "CONSTANT" -> <<addr_mode_constant_values[n + 1]>>
      [] m = "NONE"     -> <<>>
      [] OTHER          -> <<addr_mode_operand_strings[Code(addr_mode, m)], n>>

\* Every row for the same name and mode is shown; one that is not in the table
\* is passed over.
display_hash_result(record) ==
    LET shown == SelectSeq(Stored(record), LAMBDA ins :
                    \E row \in instructions : row.name = ins.name /\ row.mode = ins.mode)
    IN  <<from_buffer(record)>> \o
          [i \in DOMAIN shown |->
              <<shown[i].name, Suffix(shown[i].mode)>>
                  \o addr_mode_operand_name(shown[i].mode, shown[i].number)]

-----------------------------------------------------------------------------
LOCAL Known  == Variants(instructions, 16)
LOCAL Hashes == {<<0, 0, 0, 0>>, <<1, 2, 3, 4>>, <<65535, 0, 256, 255>>, <<43981, 4660, 32768, 65535>>}
LOCAL Sequences ==
    {SubSeq(<<i, j, i, j, j, i, j>>, 1, n) : n \in 0 .. 7, i \in {k \in Known : k.number = 3},
        j \in {instruction("RTS", "NONE", 0), instruction("LDA", "CONSTANT", 9)}}

\* The number of an operand has four bits, and every instruction its own 16
\* bits, none of them those of the empty place.
ASSUME InstructionsPack ==
    \A ins \in Known : /\ ins.number < 16
                       /\ data(ins) \in 256 .. 2^16 - 1
                       /\ Unpacked(data(ins)) = ins
                       /\ \A n \in 0 .. 9 : Unpacked(with_number(data(ins), n)) = [ins EXCEPT !.number = n]

\* The instructions of cycles.cpp are packed into the bits that they have in
\* the records, whatever JSRI was to be: no table has a row for 57.
ASSUME CyclesPacksAlike ==
    \A ins \in Variants({r \in instructions : r.mode # "CONSTANT"}, 1) :
        data_of_cycles(ins) = data(ins) /\ name(data(ins)) # instruction_name[57]

\* A record is read as what was written.
ASSUME RecordsReadBack ==
    \A hash \in Hashes, seq \in Sequences :
        LET record == Record(hash, seq)
        IN  Len(record) = 22 /\ from_buffer(record) = hash /\ Stored(record) = seq

\* The first 64 bits of a record, in the order of the passes of the sort, are
\* those of the hash from the lowest on: sorted files are in the order of the
\* numbers, which get_hashes counts on (enumerator2.cpp:151-153).
ASSUME SortIsByNumber ==
    \A hash \in Hashes, index \in 0 .. 63 :
        get_bit(Record(hash, <<>>), index) = HashBit(hash, index)

\* Whoever reads what "view" shows can tell all instructions apart, though the
\* rows of constants and of immediate operands have the same text.
ASSUME ShownApart ==
    LET Shown(ins) == Tail(display_hash_result(Record(<<0, 0, 0, 0>>, <<ins>>)))
    IN  /\ \A ins \in Known : Shown(ins) # <<>>
        /\ Cardinality({Shown(ins) : ins \in Known}) = Cardinality(Known)
=============================================================================
