---------------------------- MODULE MCSEProtocol ----------------------------
(***************************************************************************)
(* A program of three inputs (two batches of two words) and three LLMIs,   *)
(* the last of which reveals its output.                                   *)
(***************************************************************************)
EXTENDS SEProtocol, ALU

MCHeader == [ct |-> Seal(pub_SE, K_S), n |-> 3]

Snip(id, flag, ids, outs) ==
  [instrID |-> id, reveal_flag |-> flag, inputIDs |-> ids, out_count |-> outs,
   bytecode |-> AEAD(K_S, id, <<id, flag, ids, outs>>, <<>>)]

MCAELLSs ==
  {Snip(3, 0, <<<<1, 0>>, <<2, 0>>>>, 2),
   Snip(4, 0, <<<<3, 1>>, <<1, 1>>>>, 1),
   Snip(5, 1, <<<<4, 0>>>>, 1)}

\* The hashes of at most MaxChain batches, from H_0, and two of three batches,
\* one more than the program has: a chain that does not end at H_0.
MaxChain == 2
Level[n \in 0 .. MaxChain] ==
  IF n = 0 THEN {ZeroHash}
  ELSE Level[n - 1] \cup {HashChain(h, X) : h \in Level[n - 1], X \in Batches}
Same(v) == [j \in 1 .. l_out |-> v]
TooLong(v) == HashChain(HashChain(HashChain(ZeroHash, Same(v)), Same(v)), Same(v))
MCHashes == Level[MaxChain] \cup {TooLong(v) : v \in Words}

MCSnippet(a, ws) ==
  [j \in 1 .. a.out_count |->
     IF Len(a.inputIDs) = 2 THEN (ws[1] + j * ws[2]) % 2 ELSE 1 - ws[1]]
=============================================================================
