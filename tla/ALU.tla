-------------------------------- MODULE ALU --------------------------------
(***************************************************************************)
(* instruction_execute() on words of w bits: the set of outcomes of each   *)
(* opcode.  What C leaves undefined has every outcome a build may give: a  *)
(* shift by the word size or more is masked or gives zero, a division by   *)
(* zero stops the process or gives zero.                                   *)
(***************************************************************************)
EXTENDS Integers, Bitwise

CONSTANT w   \* WORD_SIZE, scaled down

TrapOutcome == -2

ALUOpcodes == {"MOV", "XOR", "OR", "AND", "LSL", "LSR", "LT", "ADD", "SUB",
               "MUL", "EQ", "DIV", "MOD", "CMOV"}

WordSet == 0 .. 2 ^ w - 1

Truth(p) == IF p THEN 1 ELSE 0

ShiftLeft(x, n)  == (x * 2 ^ n) % 2 ^ w
ShiftRight(x, n) == x \div 2 ^ n

instruction_execute(op, x, y, z) ==
  CASE op = "MOV"  -> {x}
    [] op = "XOR"  -> {x ^^ y}
    [] op = "OR"   -> {x | y}
    [] op = "AND"  -> {x & y}
    [] op = "LSL"  -> IF y < w THEN {ShiftLeft(x, y)}
                      ELSE {ShiftLeft(x, y % w), 0}
    [] op = "LSR"  -> IF y < w THEN {ShiftRight(x, y)}
                      ELSE {ShiftRight(x, y % w), 0}
    [] op = "LT"   -> {Truth(x < y)}
    [] op = "ADD"  -> {(x + y) % 2 ^ w}
    [] op = "SUB"  -> {(x - y) % 2 ^ w}
    [] op = "MUL"  -> {(x * y) % 2 ^ w}
    [] op = "EQ"   -> {Truth(x = y)}
    [] op = "DIV"  -> IF y = 0 THEN {TrapOutcome, 0} ELSE {x \div y}
    [] op = "MOD"  -> IF y = 0 THEN {TrapOutcome, x} ELSE {x % y}
    [] op = "CMOV" -> {IF x # 0 THEN y ELSE z}
=============================================================================
