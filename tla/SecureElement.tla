--------------------------- MODULE SecureElement ---------------------------
(***************************************************************************)
(* The secure element (SEalgo.c).  It keeps no state between two calls:    *)
(* everything it needs comes back to it in authenticated ciphertexts, so   *)
(* its three services are operators on their arguments, a guard that says  *)
(* when the call goes through and what it then returns.  A call whose      *)
(* guard is false ends the process.                                        *)
(***************************************************************************)
EXTENDS LLIR, Crypto

\* The keys built into the element; K_S travels in the program's header.
K_SE == "K_SE"
K_S  == "K_S"
pub_SE == "pub_SE"

CeilDiv(n, d) == (n + d - 1) \div d

-----------------------------------------------------------------------------
(***************************************************************************)
(* Ciphertexts under K_SE.  Each kind of ciphertext has its own hash       *)
(* prefix, and its nonce is a hash of what identifies it.                  *)
(***************************************************************************)
\* hashchain(): H_i from H_{i-1} and the batch X_i.  Alone among the hashes it
\* has no prefix: what is hashed is H_{i-1} followed by the words of X_i.
HashChain(Hp, X) == <<Hp, X>>

\* E_K, the shared key under the element's own key.
ESharedKey(execID, k) == AEAD(K_SE, Hash("1", execID), <<>>, k)

\* C_i^in: "under execID, batch i is expected to lead to hash h".
CinOf(execID, i, h) ==
  AEAD(K_SE, Hash("2", <<execID, i>>), <<h, i, execID>>, <<>>)

\* C_{i,j}: word number id = <<instrID, outputID>> of this execution.
WordOf(execID, id, w) ==
  AEAD(K_SE, Hash("3", <<id, execID>>), <<id, execID>>, w)

\* What a memory cell of the host (EWORD) may hold.
Encrypted(c) == [kind |-> "ct", ct |-> c]
Clear(w)     == [kind |-> "clear", word |-> w]
Junk         == [kind |-> "junk"]

-----------------------------------------------------------------------------
\* SEstart: the identity of the execution commits to the hash of all inputs
\* and to the header, and C_L^in starts the chain of input batches.
SEstartOk(header) == Unseals(header.ct, pub_SE)

ExecID(header, h) == Hash("0", <<h, header>>)

SEstart(header, h) ==
  LET e == ExecID(header, h)
      L == CeilDiv(header.n, l_out)
  IN  [execID     |-> e,
       esharedkey |-> ESharedKey(e, header.ct.sealed),
       Cin        |-> CinOf(e, L, h)]

-----------------------------------------------------------------------------
\* Mutants: the hash of the batch is not checked; the check on H_0 is missing.
SEinputOk_AnyBatch(execID, i, Hp, X, Cin) ==
  /\ i >= 1
  /\ i = 1 => Hp = ZeroHash
  /\ Cin.nonce = Hash("2", <<execID, i>>)

SEinputOk_AnyStart(execID, i, Hp, X, Cin) ==
  /\ i >= 1
  /\ Opens(Cin, K_SE, Hash("2", <<execID, i>>),
           <<HashChain(Hp, X), i, execID>>)

\* Mutant: the words of a batch are numbered from 1.
SEinput_FromOne(execID, i, Hp, X) ==
  [Cin |-> CinOf(execID, i - 1, Hp),
   C   |-> [j \in 1 .. l_out |-> WordOf(execID, <<i, j>>, X[j])]]

\* Mutant: the number is checked, the execution is not.
EWORDOk_AnyExecution(execID, id, cell) ==
  cell.kind = "ct" /\ cell.ct.ad[1] = id

\* SEinput: batch i is accepted if it hashes, from H_{i-1}, to the value that
\* C_i^in carries; the first batch must start from H_0.
SEinputOk(execID, i, Hp, X, Cin) ==
  /\ i >= 1
  /\ i = 1 => Hp = ZeroHash
  /\ Opens(Cin, K_SE, Hash("2", <<execID, i>>),
           <<HashChain(Hp, X), i, execID>>)

SEinput(execID, i, Hp, X) ==
  [Cin |-> CinOf(execID, i - 1, Hp),
   C   |-> [j \in 1 .. l_out |-> WordOf(execID, <<i, j - 1>>, X[j])]]

-----------------------------------------------------------------------------
(***************************************************************************)
(* SEeval.  aells is the encrypted snippet with the data its associated    *)
(* data is made of.                                                        *)
(***************************************************************************)
AellsAd(aells) ==
  <<aells.instrID, aells.reveal_flag, aells.inputIDs, aells.out_count>>

\* EWORD_decrypt: input j must be the word of this execution whose number the
\* snippet names.
EWORDOk(execID, id, cell) ==
  /\ cell.kind = "ct"
  /\ Opens(cell.ct, K_SE, Hash("3", <<id, execID>>), <<id, execID>>)

SEevalOk(execID, esharedkey, aells, Cx) ==
  /\ Opens(esharedkey, K_SE, Hash("1", execID), <<>>)
  /\ Opens(aells.bytecode, esharedkey.msg, aells.instrID, AellsAd(aells))
  /\ \A j \in 1 .. Len(aells.inputIDs) :
        EWORDOk(execID, aells.inputIDs[j], Cx[j])

\* The registers when LLS_execute starts: reg is malloc'ed, not cleared.
RegsAfterDecrypt(aells, Cx) ==
  [n \in Regs |->
     IF n < Len(aells.inputIDs) THEN Cx[n + 1].ct.msg ELSE Uninit]

\* EWORD_encode and EWORD_encrypt: the output words are the last l_out
\* registers; with the reveal flag they leave the element in the clear.
SEevalOutput(execID, aells, j, w) ==
  IF aells.reveal_flag = 1 THEN Clear(w)
  ELSE Encrypted(WordOf(execID, <<aells.instrID, j - 1>>, w))
=============================================================================
