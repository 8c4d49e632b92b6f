----------------------------- MODULE MCBytecode -----------------------------
(***************************************************************************)
(* Shapes with registers and outputs of one and of two bytes; numbers of   *)
(* cells around the powers of 256; all kinds of operands.                  *)
(***************************************************************************)
EXTENDS Bytecode

Shape(l, r, s) == [l_in |-> l, l_out |-> l, r |-> r, s |-> s, word_size |-> 32]
Small == Shape(8, 40, 32)          \* SE_SMALL and SE_EXTRALARGE of SEconfig.h
ExtraLarge == Shape(64, 320, 256)
MCConfigs == {Small, ExtraLarge, Shape(256, 512, 256), Shape(512, 1024, 512)}

Counts == {2, 3, 255, 256, 257, 65535, 65536, 65537, 2 ^ 24}

Operands(c, kinds, big) ==
  [j \in DOMAIN kinds |->
     [kind |-> kinds[j],
      v |-> CASE ~big -> j [] kinds[j] = "R" -> c.r - 1 [] OTHER -> 2 ^ 30 + 5]]

Opcodes == <<"MOV", "XOR", "OR", "AND", "LSL", "LSR", "LT", "ADD", "SUB", "MUL", "EQ", "DIV",
             "MOD", "CMOV">>

\* Two LLIs with two of the kinds of operands.
Snippet(c, q, big) ==
  [j \in 1 .. 2 |->
     LET o == ((q + j) % Len(OperandCode)) + 1 IN
     [op |-> Opcodes[o], dst |-> IF big THEN c.r - 1 ELSE 0,
      src |-> Operands(c, OperandCode[o], big)]]

MI(c, mc, ins, q, big) ==
  [inputs |-> ins, outputs |-> <<mc - 1, 0>>,
   instrID |-> IF big THEN 70000 ELSE 2, reveal_flag |-> q % 2,
   inputIDs |-> [j \in DOMAIN ins |-> <<j, IF big THEN c.l_out - 1 ELSE 0>>],
   seq |-> Snippet(c, q, big)]

Prog(mc, ins, llmis) ==
  [memory_count |-> mc, inputs |-> ins, outputs |-> <<0, mc - 1>>, llmis |-> llmis]

MCPrograms(c) ==
  UNION {{Prog(mc, <<mc - 1>>, <<>>)}
         \cup {Prog(mc, <<0, mc - 1>>, <<MI(c, mc, <<mc - 1>>, q, big), MI(c, mc, <<>>, q + 2, ~big)>>) :
                 q \in {0, 4, 8, 12}, big \in BOOLEAN} :
           mc \in Counts}
  \* LLMIs the dictionaries of the writer cannot serve: a cell, a register, a NOP.
  \cup {Prog(3, <<0>>, <<MI(c, 3, <<0>>, 0, FALSE), mi>>) :
          mi \in {[MI(c, 3, <<0>>, 1, FALSE) EXCEPT !.inputs = <<3>>],
                  [MI(c, 3, <<0>>, 1, FALSE) EXCEPT !.seq[1].dst = c.r],
                  [MI(c, 3, <<0>>, 1, FALSE) EXCEPT !.seq[2].op = "NOP"]}}
  \* A list as long as the memory: its length takes one byte more than a cell.
  \cup {Prog(mc, [j \in 1 .. mc |-> j - 1], <<>>) : mc \in {255, 256}}

MCRoundsDown == 2 ^ 24 + 1 .. 2 ^ 24 + 10
=============================================================================
