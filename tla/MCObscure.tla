----------------------------- MODULE MCObscure -----------------------------
(***************************************************************************)
(* Small programs on a small element: two outputs and two inputs per LLMI, *)
(* four registers, two instructions per snippet.                           *)
(***************************************************************************)
EXTENDS Determinate, ALU

Op(op, d, src) == [op |-> op, dst |-> d, src |-> src]

\* Snippets on the input registers 0 (and 1); they fill both output registers.
Snippets(n) ==
  IF n = 1
  THEN {<<Op("ADD", 2, <<Reg(0), Imm(1)>>), Op("EQ", 3, <<Reg(2), Reg(0)>>)>>}
  ELSE {<<Op("SUB", 2, <<Reg(0), Reg(1)>>),
          Op("CMOV", 3, <<Reg(1), Reg(2), Reg(0)>>)>>,
        <<Op("DIV", 3, <<Reg(0), Reg(1)>>), Op("MOV", 2, <<Reg(1)>>)>>}

\* The LLMIs that read the cells of one of the sequences in reads.
MIs(reads, outs) ==
  UNION {{[inputs |-> x, outputs |-> outs, seq |-> sq] : sq \in Snippets(Len(x))} :
           x \in reads}

\* Two LLMIs on n inputs (cells 0 .. n-1); the first writes the cells outs1,
\* the second reveals n+2 and n+3, and the program outputs one or both.
TwoStep(n, reads1, outs1, reads2, outs) ==
  {[inputs |-> [j \in 1 .. n |-> j - 1], outputs |-> o, instrs |-> <<f, g>>] :
     f \in MIs(reads1, outs1),
     g \in MIs(reads2, <<n + 2, n + 3>>),
     o \in outs}

\* One input: half a batch; two: exactly one; three: one and a half.  In the
\* last family the first LLMI overwrites the input it reads.
MCPrograms ==
  TwoStep(1, {<<0>>, <<0, 0>>}, <<1, 2>>, {<<1>>, <<2, 1>>, <<0, 2>>},
          {<<3>>, <<4, 3>>})
  \cup TwoStep(2, {<<1, 0>>}, <<2, 3>>, {<<1, 3>>, <<2, 3>>}, {<<5>>})
  \cup TwoStep(3, {<<2, 0>>, <<1, 2>>}, <<3, 4>>, {<<4, 2>>, <<3, 4>>},
               {<<6, 5>>})
  \cup TwoStep(2, {<<1, 0>>}, <<2, 0>>, {<<0, 1>>, <<2, 0>>}, {<<4>>})

MCItems == WordSet \cup {NotInt}
MCCells == 0 .. 6

=============================================================================
