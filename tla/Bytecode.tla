------------------------------ MODULE Bytecode ------------------------------
(***************************************************************************)
(* The bytes of a program: what serialize() writes, what interpret_meta()  *)
(* and interpret_prog() read back, and how LLS_execute() takes a snippet   *)
(* apart.  Nothing in the file says how wide its fields are: writer and    *)
(* readers compute the widths on their own.  Cells, numbers and snippets   *)
(* come numbered, as Serializer has them; encryption adds a MAC.           *)
(***************************************************************************)
EXTENDS Integers, SequencesExt

CONSTANTS
  Configs,      \* shapes [l_in, l_out, r, s, word_size] of the element
  Programs(_),  \* the programs for a shape: [memory_count, inputs, outputs, llmis]
  RoundsDown    \* the n just above a power of two whose log2f() is its exponent:
                \* none below 2^21; 2^24 + 1 .. 2^24 + 10 are there

VARIABLES
  config,    \* the shape the program is compiled for
  se,        \* the shape the runtime is built for
  prog,      \* the program
  wpc,       \* the writer: "header", "llmi", "done", "error"
  file,      \* the bytes written so far
  hpc,       \* the reader: where it is, or how it ended
  cur,       \* the LLMI being written, then read, then decoded
  pos,       \* bcptr, from 1; in a snippet, ptr
  got        \* what was read so far

bvars == <<config, se, prog, wpc, file, hpc, cur, pos, got>>
writer == <<config, prog, wpc, file>>

VERSION == 0
U32 == 4
MAC == 16
CT  == 64

Byte == 0 .. 255

Pow2[k \in 0 .. 30] == IF k = 0 THEN 1 ELSE 2 * Pow2[k - 1]

CeilLog2(n) == CHOOSE k \in 0 .. 30 : Pow2[k] >= n /\ (k = 0 \/ Pow2[k - 1] < n)

\* serialize(): bytes for a number below n.
lb(n) == (CeilLog2(n) + 7) \div 8

\* Mutant: the logarithm is not rounded up.
host_lb_Floor(n) ==
  ((IF Pow2[CeilLog2(n)] = n THEN CeilLog2(n) ELSE CeilLog2(n) - 1) + 7) \div 8

\* interpret(): the same, in single precision.
host_lb(n) ==
  ((IF n \in RoundsDown THEN CeilLog2(n) - 1 ELSE CeilLog2(n)) + 7) \div 8

\* uint_tobytes(), which raises OverflowError if n does not fit.
Power256(k) == <<1, 256, 256 * 256, 256 * 256 * 256>>[k + 1]
Fits(n, len) == IF len = 0 THEN n = 0 ELSE n \div Power256(len - 1) < 256
uint_tobytes(n, len) == [j \in 1 .. len |-> (n \div Power256(len - j)) % 256]

\* The concatenation of sequences, row by row as files are long.
RowLen == 16
Rows(n) == (n + RowLen - 1) \div RowLen
Row(ss, k) == [i \in 1 .. (IF k = Rows(Len(ss)) THEN Len(ss) - (k - 1) * RowLen ELSE RowLen) |->
                 ss[(k - 1) * RowLen + i]]
Concat(ss) == FlattenSeq([k \in 1 .. Rows(Len(ss)) |-> FlattenSeq(Row(ss, k))])

\* A field is a number and its width.
Field(n, len) == <<n, len>>
AllFit(fields) == \A j \in DOMAIN fields : Fits(fields[j][1], fields[j][2])
Bytes(fields) ==
  Concat([j \in DOMAIN fields |-> uint_tobytes(fields[j][1], fields[j][2])])

-----------------------------------------------------------------------------
(***************************************************************************)
(* Snippets.  The first byte of an LLI is its opcode and, in OperandCode,  *)
(* the kinds of its operands; the numbers are those of opcode.h as well.   *)
(***************************************************************************)
Opcode == [NOP |-> 0, MOV |-> 1, XOR |-> 2, OR |-> 3, AND |-> 4, LSL |-> 5, LSR |-> 6,
           LT |-> 7, ADD |-> 8, SUB |-> 9, MUL |-> 10, EQ |-> 11, DIV |-> 13, MOD |-> 14,
           CMOV |-> 15]

OperandCode ==
  << <<"I">>, <<"I", "R">>, <<"I", "R", "R">>, <<"I", "R", "I">>, <<"I", "I">>,
     <<"I", "I", "R">>, <<"I", "I", "I">>, <<"R">>, <<"R", "R">>, <<"R", "R", "I">>,
     <<"R", "R", "R">>, <<"R", "I", "I">>, <<"R", "I", "R">>, <<"R", "I">> >>

Kinds(lli) == [j \in DOMAIN lli.src |-> lli.src[j].kind]
FlagOf(lli) == (CHOOSE n \in DOMAIN OperandCode : OperandCode[n] = Kinds(lli)) - 1

\* What the writer is given.  Widths are of four bytes at most, as the readers'
\* switch statements have them, and not of none; the single precision of the
\* host must not tell.
Measured(n) == n \in 2 .. Pow2[30] /\ n \notin RoundsDown

LLI == [op : DOMAIN Opcode, dst : Nat, src : Seq([kind : {"I", "R"}, v : Nat])]

LLMI == [inputs : Seq(Nat), outputs : Seq(Nat), instrID : Nat, reveal_flag : Nat,
         inputIDs : Seq(Nat \X Nat), seq : Seq(LLI)]

ASSUME ConfigsAssumption ==
  \A c \in Configs :
    /\ c \in [l_in : Nat, l_out : Nat, r : Nat, s : Nat, word_size : Nat]
    /\ Measured(c.l_out) /\ Measured(c.r) /\ c.word_size \div 8 \in 1 .. 4

ASSUME ProgramsAssumption ==
  \A c \in Configs : \A p \in Programs(c) :
    /\ p = [memory_count |-> p.memory_count, inputs |-> p.inputs, outputs |-> p.outputs,
            llmis |-> p.llmis]
    /\ Measured(p.memory_count)
    /\ p.inputs \in Seq(Nat) /\ p.outputs \in Seq(Nat) /\ p.llmis \in Seq(LLMI)
    /\ \A j \in DOMAIN p.llmis :
         /\ Len(p.llmis[j].inputIDs) = Len(p.llmis[j].inputs)
         /\ Len(p.llmis[j].seq) =< c.s
         /\ \A k \in DOMAIN p.llmis[j].seq : Kinds(p.llmis[j].seq[k]) \in Range(OperandCode)

\* serialize_lls()
LLIFields(lli, w_r, w_c) ==
  <<Field(16 * Opcode[lli.op] + FlagOf(lli), 1), Field(lli.dst, w_r)>>
  \o [j \in DOMAIN lli.src |-> Field(lli.src[j].v, IF lli.src[j].kind = "R" THEN w_r ELSE w_c)]

LLSFields(seq, w_r, w_c) == FlattenSeq([j \in DOMAIN seq |-> LLIFields(seq[j], w_r, w_c)])

\* memdict and regdict have the numbers below the count they were created with,
\* and opdict has names: a NOP is looked up by its number.
InDict(v, count) == \A j \in DOMAIN v : v[j] < count
LLIKnown(lli, r) ==
  /\ lli.op # "NOP"
  /\ lli.dst < r
  /\ \A j \in DOMAIN lli.src : lli.src[j].kind = "R" => lli.src[j].v < r

-----------------------------------------------------------------------------
(***************************************************************************)
(* serialize(), for a shape c and a program p.                             *)
(***************************************************************************)
CellFields(cells, w_m) ==
  <<Field(Len(cells), w_m)>> \o [j \in DOMAIN cells |-> Field(cells[j], w_m)]

Metadata(c) == <<VERSION, c.word_size, c.l_in, c.l_out, c.r, c.s>>

Sealed == [j \in 1 .. CT |-> Field(0, 1)]

HeaderFields(c, p) ==
  LET w_m == lb(p.memory_count) IN
  [j \in DOMAIN Metadata(c) |-> Field(Metadata(c)[j], U32)]
  \o <<Field(p.memory_count, U32)>> \o Sealed
  \o CellFields(p.inputs, w_m) \o CellFields(p.outputs, w_m)
  \o <<Field(Len(p.llmis), U32)>>

IDFields(ids, w_o) ==
  FlattenSeq([j \in DOMAIN ids |-> <<Field(ids[j][1], U32), Field(ids[j][2], w_o)>>])

LLMIFields(llmi, c, p) ==
  LET w_m == lb(p.memory_count)
      lls == LLSFields(llmi.seq, lb(c.r), c.word_size \div 8)
  IN  CellFields(llmi.inputs, w_m) \o CellFields(llmi.outputs, w_m)
      \o <<Field(llmi.instrID, U32), Field(llmi.reveal_flag, 1)>>
      \o IDFields(llmi.inputIDs, lb(c.l_out))
      \o <<Field(Len(Bytes(lls)) + MAC, U32)>>
      \o lls \o [j \in 1 .. MAC |-> Field(0, 1)]

\* Nothing is looked up that the dictionaries do not have.
HeaderKnown(p) == InDict(p.inputs, p.memory_count) /\ InDict(p.outputs, p.memory_count)

LLMIKnown(llmi, c, p) ==
  /\ InDict(llmi.inputs, p.memory_count) /\ InDict(llmi.outputs, p.memory_count)
  /\ \A j \in DOMAIN llmi.seq : LLIKnown(llmi.seq[j], c.r)

BInit ==
  /\ config \in Configs
  /\ se \in Configs
  /\ prog \in Programs(config)
  /\ wpc = "header" /\ file = <<>>
  /\ hpc = "idle" /\ cur = 1 /\ pos = 1
  /\ got = [memory_count |-> 0, inputs |-> <<>>, outputs |-> <<>>, llmi_count |-> 0,
            llmis |-> <<>>]

\* The output file is flushed after the header and after every LLMI; an
\* exception (KeyError or OverflowError) ends the compiler and leaves what was
\* flushed before.
Flush(known, fields) ==
  IF known /\ AllFit(fields) THEN file' = file \o Bytes(fields) /\ wpc' = "llmi"
  ELSE wpc' = "error" /\ UNCHANGED file

WriteHeader ==
  /\ wpc = "header"
  /\ Flush(HeaderKnown(prog), HeaderFields(config, prog))
  /\ UNCHANGED <<config, se, prog, hpc, cur, pos, got>>

WriteLLMI ==
  /\ wpc = "llmi"
  /\ cur =< Len(prog.llmis)
  /\ Flush(LLMIKnown(prog.llmis[cur], config, prog), LLMIFields(prog.llmis[cur], config, prog))
  /\ cur' = cur + 1
  /\ UNCHANGED <<config, se, prog, hpc, pos, got>>

\* The loop over the LLMIs ends, and with it the compiler; the host is started
\* on the file.
WriteEnd ==
  /\ wpc = "llmi"
  /\ cur > Len(prog.llmis)
  /\ wpc' = "done" /\ hpc' = "meta" /\ cur' = 1
  /\ UNCHANGED <<config, se, prog, file, pos, got>>

-----------------------------------------------------------------------------
(***************************************************************************)
(* interpret_meta() and interpret_prog().  Beyond the end of the file is   *)
(* memory of the process: a read there may give anything ("overrun").      *)
(***************************************************************************)
ByteAt(bs, p) == IF p \in DOMAIN bs THEN bs[p] ELSE 0

\* The number in the bytes from p on, big-endian.  Any other width ends the process:
\* none is given to it, as the assumptions above say.
BigEndian(bs, p, len) ==
  CASE len = 1 -> ByteAt(bs, p)
    [] len = 2 -> 256 * ByteAt(bs, p) + ByteAt(bs, p + 1)
    [] len = 3 -> 256 * (256 * ByteAt(bs, p) + ByteAt(bs, p + 1)) + ByteAt(bs, p + 2)
    [] len = 4 -> 256 * (256 * (256 * ByteAt(bs, p) + ByteAt(bs, p + 1)) + ByteAt(bs, p + 2))
                    + ByteAt(bs, p + 3)
    [] OTHER -> 0

load_bytes(p, len) == BigEndian(file, p, len)
LoadCells(p, count, len) == [j \in 1 .. count |-> load_bytes(p + (j - 1) * len, len)]

Stop(how) == hpc' = how /\ UNCHANGED <<cur, pos, got>>

ReadMeta ==
  /\ hpc = "meta"
  /\ IF LoadCells(pos, 6, U32) # Metadata(se) THEN Stop("bad_meta")
     ELSE /\ hpc' = "prog"
          /\ got' = [got EXCEPT !.memory_count = load_bytes(pos + 6 * U32, U32)]
          /\ pos' = pos + 7 * U32 + CT
          /\ UNCHANGED cur
  /\ UNCHANGED <<writer, se>>

lb_m == host_lb(got.memory_count)
lb_o == host_lb(se.l_out)
lb_r == host_lb(se.r)
lb_c == se.word_size \div 8

\* Mutant: the two lists are read in the other order.
ReadProg_Swapped ==
  /\ hpc = "prog"
  /\ LET outs == load_bytes(pos, lb_m)
         p2   == pos + (outs + 1) * lb_m
         ins  == load_bytes(p2, lb_m)
         p3   == p2 + (ins + 1) * lb_m
     IN  /\ hpc' = "llmi"
         /\ got' = [got EXCEPT !.outputs = LoadCells(pos + lb_m, outs, lb_m),
                               !.inputs = LoadCells(p2 + lb_m, ins, lb_m),
                               !.llmi_count = load_bytes(p3, U32)]
         /\ pos' = p3 + U32
         /\ UNCHANGED cur
  /\ UNCHANGED <<writer, se>>

ReadProg ==
  /\ hpc = "prog"
  /\ IF lb_m = 0 THEN Stop("bad_width")
     ELSE LET ins  == load_bytes(pos, lb_m)
              p2   == pos + (ins + 1) * lb_m
              outs == load_bytes(p2, lb_m)
              p3   == p2 + (outs + 1) * lb_m
          IN  IF p3 + U32 > Len(file) + 1 THEN Stop("overrun")
              ELSE /\ hpc' = "llmi"
                   /\ got' = [got EXCEPT !.inputs = LoadCells(pos + lb_m, ins, lb_m),
                                         !.outputs = LoadCells(p2 + lb_m, outs, lb_m),
                                         !.llmi_count = load_bytes(p3, U32)]
                   /\ pos' = p3 + U32
                   /\ UNCHANGED cur
  /\ UNCHANGED <<writer, se>>

ReadLLMI ==
  /\ hpc = "llmi"
  /\ cur =< got.llmi_count
  /\ LET ins  == load_bytes(pos, lb_m)
         p2   == pos + (ins + 1) * lb_m
         outs == load_bytes(p2, lb_m)
         p3   == p2 + (outs + 1) * lb_m
         p4   == p3 + U32 + 1
         ID(j) == LET p == p4 + (j - 1) * (U32 + lb_o)
                  IN  <<load_bytes(p, U32), load_bytes(p + U32, lb_o)>>
         p5   == p4 + ins * (U32 + lb_o)
         p6   == p5 + U32
         end  == p6 + load_bytes(p5, U32)
     IN  CASE ins > 0 /\ lb_o = 0 -> Stop("bad_width")
           [] p6 > Len(file) + 1 \/ end > Len(file) + 1 -> Stop("overrun")
           [] OTHER ->
                /\ got' = [got EXCEPT !.llmis = Append(@,
                     [inputs  |-> LoadCells(pos + lb_m, ins, lb_m),
                      outputs |-> LoadCells(p2 + lb_m, outs, lb_m),
                      instrID |-> load_bytes(p3, U32),
                      reveal_flag |-> load_bytes(p3 + U32, 1),
                      inputIDs |-> [j \in 1 .. ins |-> ID(j)],
                      code |-> SubSeq(file, p6, end - 1 - MAC),
                      seq  |-> <<>>])]
                /\ pos' = end
                /\ cur' = cur + 1
                /\ UNCHANGED hpc
  /\ UNCHANGED <<writer, se>>

\* interpret(): the file must end here.
ReadEnd ==
  /\ hpc = "llmi"
  /\ cur > got.llmi_count
  /\ IF pos # Len(file) + 1 THEN Stop("bad_end")
     ELSE hpc' = "lls" /\ cur' = 1 /\ pos' = 1 /\ UNCHANGED got
  /\ UNCHANGED <<writer, se>>

-----------------------------------------------------------------------------
(***************************************************************************)
(* LLS_execute(): the snippets taken apart, one after the other.           *)
(***************************************************************************)
Code == got.llmis[cur].code
CodeNumber(p, len) == BigEndian(Code, p, len)

OperandLen(kind) == IF kind = "R" THEN lb_r ELSE lb_c

\* Where the operands start, and where the next LLI does.
OperandsAt(kinds, p) ==
  LET from[j \in 1 .. Len(kinds) + 1] ==
        IF j = 1 THEN p ELSE from[j - 1] + OperandLen(kinds[j - 1])
  IN  from

\* One turn of the loop, which counts every LLI.  A NOP is a byte alone.
NOPAlone == [op |-> "NOP", dst |-> 0, src |-> <<>>]

TakeApart(lli, next) ==
  /\ got' = [got EXCEPT !.llmis[cur].seq = Append(@, lli)]
  /\ pos' = next
  /\ UNCHANGED <<hpc, cur>>

DecodeLLI ==
  /\ hpc = "lls"
  /\ cur =< got.llmi_count
  /\ pos # Len(Code) + 1
  /\ IF Len(got.llmis[cur].seq) = se.s THEN Stop("too_long")
     ELSE IF CodeNumber(pos, 1) \div 16 = Opcode["NOP"] THEN TakeApart(NOPAlone, pos + 1)
     ELSE LET flag == (CodeNumber(pos, 1) % 16) + 1 IN
          IF flag \notin DOMAIN OperandCode THEN Stop("bad_flag")
          ELSE LET kinds == OperandCode[flag]
                   from  == OperandsAt(kinds, pos + 1 + lb_r)
                   lli == [op  |-> CHOOSE x \in DOMAIN Opcode :
                                     Opcode[x] = CodeNumber(pos, 1) \div 16,
                           dst |-> CodeNumber(pos + 1, lb_r),
                           src |-> [j \in DOMAIN kinds |->
                                      [kind |-> kinds[j],
                                       v    |-> CodeNumber(from[j], OperandLen(kinds[j]))]]]
               IN  TakeApart(lli, from[Len(kinds) + 1])
  /\ UNCHANGED <<writer, se>>

NextLLS ==
  /\ hpc = "lls"
  /\ cur =< got.llmi_count
  /\ pos = Len(Code) + 1
  /\ cur' = cur + 1 /\ pos' = 1
  /\ UNCHANGED <<writer, se, hpc, got>>

DecodeEnd ==
  /\ hpc = "lls"
  /\ cur > got.llmi_count
  /\ hpc' = "done"
  /\ UNCHANGED <<writer, se, cur, pos, got>>

BNext == WriteHeader \/ WriteLLMI \/ WriteEnd \/ ReadMeta \/ ReadProg \/ ReadLLMI
           \/ ReadEnd \/ DecodeLLI \/ NextLLS \/ DecodeEnd

BSpec == BInit /\ [][BNext]_bvars

-----------------------------------------------------------------------------
\* What host and element read is what the compiler was given, down to the
\* operands; a runtime built for another shape does not get that far
\* ("Invalid register_count" and the other checks of interpret_meta).
Read(llmi) ==
  [inputs |-> llmi.inputs, outputs |-> llmi.outputs, instrID |-> llmi.instrID,
   reveal_flag |-> llmi.reveal_flag, inputIDs |-> llmi.inputIDs, seq |-> llmi.seq]
ReadBack ==
  hpc = "done" =>
    /\ se = config
    /\ got.memory_count = prog.memory_count
    /\ got.inputs = prog.inputs
    /\ got.outputs = prog.outputs
    /\ got.llmi_count = Len(prog.llmis)
    /\ [j \in DOMAIN got.llmis |-> Read(got.llmis[j])] = prog.llmis

\* A file that was written to its end is read to its end: writer and reader
\* agree on every width ("lb_c: bytelen for memory cell", interpreter.c:155,
\* and "for 1 memory cell", serializer.py:175), also around the powers of two,
\* and neither bcptr nor ptr leaves what it walks through.
NeverRefused ==
  /\ se = config =>
       hpc \notin {"bad_meta", "bad_width", "overrun", "bad_end", "bad_flag", "too_long"}
  /\ pos \in 1 .. (IF hpc = "lls" /\ cur =< got.llmi_count THEN Len(Code) ELSE Len(file)) + 1
=============================================================================
