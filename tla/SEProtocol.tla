----------------------------- MODULE SEProtocol -----------------------------
(***************************************************************************)
(* The secure element serving calls in any order.  The element has no      *)
(* memory, so nothing but the ciphertexts it gets back stops a host from   *)
(* repeating a call, skipping one, restarting halfway or mixing what it    *)
(* kept of two executions of the same program.  Here the host may make any *)
(* call, any number of times, with anything the element ever gave it; the  *)
(* program's header and its LLMIs are the compiled ones.                   *)
(***************************************************************************)
EXTENDS SecureElement, FiniteSets

CONSTANTS
  Header,        \* the header of the bytecode
  AELLSs,        \* its encrypted snippets
  Hashes,        \* the hashes a host may send
  MaxExecs,      \* bound: executions started
  Snippet(_, _)  \* Snippet(aells, ws): the output words of a snippet on ws

Batches == [1 .. l_out -> Words]
BatchTotal == CeilDiv(Header.n, l_out)
WordNumbers == (1 .. BatchTotal) \cup {a.instrID : a \in AELLSs}

ASSUME HeaderAssumption ==
  /\ Header.n \in Nat
  /\ SEstartOk(Header)

\* What the compiler guarantees of the snippets: their numbers follow those
\* of the input batches (and start at 2, see InstrID in Serializer, even if
\* there are none), no two have the same, and each opens under K_S.
ASSUME AELLSAssumption ==
  \A a \in AELLSs :
    /\ a.instrID \in Nat
    /\ a.instrID > BatchTotal /\ a.instrID > 1
    /\ a.inputIDs \in Seq(Nat \X Nat)
    /\ a.out_count \in 0 .. l_out
    /\ a.bytecode.key = Header.ct.sealed
    /\ \A a2 \in AELLSs : a.instrID = a2.instrID => a = a2
    /\ \A ws \in [1 .. Len(a.inputIDs) -> Words] :
         Snippet(a, ws) \in [1 .. a.out_count -> Words]

VARIABLES
  started,   \* the pairs of an execution and the hash it was started with
  tickets,   \* the C_i^in the element returned
  words      \* the encrypted words it returned

evars == <<started, tickets, words>>

PInit == started = {} /\ tickets = {} /\ words = {}

\* SEstart on any hash.
CallStart(h) ==
  LET s == SEstart(Header, h) IN
  /\ Cardinality(started \cup {<<s.execID, h>>}) =< MaxExecs
  /\ SEstartOk(Header)
  /\ started' = started \cup {<<s.execID, h>>}
  /\ tickets' = tickets \cup {s.Cin}
  /\ UNCHANGED words

\* SEinput on any batch, hash and ticket, claiming any execution and index.
CallInput(e, n, Hp, X, t) ==
  /\ SEinputOk(e, n, Hp, X, t)
  /\ LET s == SEinput(e, n, Hp, X) IN
     /\ tickets' = tickets \cup {s.Cin}
     /\ words' = words \cup {s.C[j] : j \in 1 .. l_out}
  /\ UNCHANGED started

\* SEeval on any snippet, with any words.
CallEval(e, a, cx) ==
  /\ SEevalOk(e, ESharedKey(e, Header.ct.sealed), a,
              [j \in DOMAIN cx |-> Encrypted(cx[j])])
  /\ LET res == Snippet(a, [j \in DOMAIN cx |-> cx[j].msg]) IN
     words' = words \cup
       (IF a.reveal_flag = 1 THEN {}
        ELSE {SEevalOutput(e, a, j, res[j]).ct : j \in 1 .. a.out_count})
  /\ UNCHANGED <<started, tickets>>

PNext ==
  \/ \E h \in Hashes : CallStart(h)
  \/ \E x \in started : \E n \in 0 .. BatchTotal, Hp \in Hashes, X \in Batches,
        t \in tickets : CallInput(x[1], n, Hp, X, t)
  \/ \E x \in started : \E a \in AELLSs :
        \E cx \in [1 .. Len(a.inputIDs) -> words] : CallEval(x[1], a, cx)

PSpec == PInit /\ [][PNext]_evars

-----------------------------------------------------------------------------
\* The element returned only tickets and words of its own making.
TypeOK ==
  /\ \A x \in started : x[2] \in Hashes /\ x[1] = ExecID(Header, x[2])
  /\ \A t \in tickets : \E x \in started : \E n \in 0 .. BatchTotal :
       \E h \in Hashes : t = CinOf(x[1], n, h)
  /\ \A c \in words : \E x \in started : \E n \in WordNumbers :
       \E j \in 0 .. l_out - 1, v \in Words : c = WordOf(x[1], <<n, j>>, v)

\* One hash per batch and execution: whatever calls were made, in whatever
\* order, C_i^in commits to a single H_i.
TicketBinding ==
  \A t, u \in tickets : t.nonce = u.nonce => t = u

\* One word per number and execution: no sequence of calls makes the element
\* encrypt two different words as the same input or the same LLMI output.
WordBinding ==
  \A c, d \in words : c.nonce = d.nonce => c = d

\* Once the first batch of an execution is accepted (SEinput returned a word of
\* it) the whole chain is closed: the hash given to SEstart is that of one
\* sequence of batches, of the announced length and from H_0, and for every n
\* the words returned as input n are exactly those of its n-th batch, however
\* the host repeated, skipped or mixed its calls.
FirstBatchClosesChain ==
  \A x \in started :
    (\E c \in words : \E v \in Words : c = WordOf(x[1], <<1, 0>>, v)) =>
      \E Xs \in [1 .. BatchTotal -> Batches] :
        LET h[n \in 0 .. BatchTotal] ==
              IF n = 0 THEN ZeroHash ELSE HashChain(h[n - 1], Xs[n])
        IN  /\ x[2] = h[BatchTotal]
            /\ \A n \in 1 .. BatchTotal, j \in 1 .. l_out, v \in Words :
                 WordOf(x[1], <<n, j - 1>>, v) \in words <=> v = Xs[n][j]
=============================================================================
