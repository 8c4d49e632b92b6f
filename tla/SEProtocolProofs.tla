-------------------------- MODULE SEProtocolProofs --------------------------
(***************************************************************************)
(* Proofs about the secure element serving calls in any order, for every   *)
(* header, set of snippets, set of hashes and number of executions.        *)
(***************************************************************************)
EXTENDS SEProtocol, SetInduction, TLAPS

(***************************************************************************)
(* The inductive invariant: where a ticket and a word came from.           *)
(***************************************************************************)
\* The ticket of batch n of an execution was made by SEstart, if it is the
\* last batch, or else by SEinput on the batch that follows it.
TicketOrigin ==
  \A x \in started : \A n \in 0 .. BatchTotal : \A h \in Hashes :
    CinOf(x[1], n, h) \in tickets =>
      IF n = BatchTotal THEN h = x[2]
      ELSE \E X \in Batches : CinOf(x[1], n + 1, HashChain(h, X)) \in tickets

\* The hash in a ticket leads to the one the execution was started with,
\* through batches whose words were returned.
ChainFrom(x, n, h) ==
  \E g \in [n .. BatchTotal -> Hashes] : \E Xs \in [n + 1 .. BatchTotal -> Batches] :
    /\ g[n] = h
    /\ g[BatchTotal] = x[2]
    /\ \A m \in n + 1 .. BatchTotal : g[m] = HashChain(g[m - 1], Xs[m])
    /\ \A m \in n + 1 .. BatchTotal : \A q \in 1 .. l_out :
         WordOf(x[1], <<m, q - 1>>, Xs[m][q]) \in words

TicketChain ==
  \A x \in started : \A n \in 0 .. BatchTotal : \A h \in Hashes :
    CinOf(x[1], n, h) \in tickets => ChainFrom(x, n, h)

\* A word of an input batch: the batch had a ticket, and all of its words were
\* returned together.
FromBatch(x, c) ==
  \E n \in 1 .. BatchTotal : \E Hp \in Hashes : \E X \in Batches : \E j \in 1 .. l_out :
    /\ n = 1 => Hp = ZeroHash
    /\ CinOf(x[1], n, HashChain(Hp, X)) \in tickets
    /\ \A q \in 1 .. l_out : WordOf(x[1], <<n, q - 1>>, X[q]) \in words
    /\ c = WordOf(x[1], <<n, j - 1>>, X[j])

\* A word of a snippet: it was computed from words the element had returned,
\* the ones whose numbers the snippet names.
Computed(x, c, a, cx, j) ==
  /\ \A q \in 1 .. Len(a.inputIDs) : EWORDOk(x[1], a.inputIDs[q], Encrypted(cx[q]))
  /\ c = WordOf(x[1], <<a.instrID, j - 1>>,
                Snippet(a, [q \in 1 .. Len(a.inputIDs) |-> cx[q].msg])[j])

FromSnippet(x, c) ==
  \E a \in AELLSs : \E cx \in [1 .. Len(a.inputIDs) -> words] : \E j \in 1 .. a.out_count :
    Computed(x, c, a, cx, j)

WordOrigin == \A c \in words : \E x \in started : FromBatch(x, c) \/ FromSnippet(x, c)

PInv == TypeOK /\ TicketOrigin /\ TicketChain /\ TicketBinding /\ WordOrigin /\ WordBinding

-----------------------------------------------------------------------------
(***************************************************************************)
(* Ciphertexts say what they are made of.                                  *)
(***************************************************************************)
\* A ticket has one execution, batch and hash, and its nonce has the first two.
LEMMA TicketIs ==
  ASSUME NEW e, NEW n, NEW h, NEW e2, NEW n2, NEW h2
  PROVE  /\ CinOf(e, n, h) = CinOf(e2, n2, h2) <=> e = e2 /\ n = n2 /\ h = h2
         /\ CinOf(e, n, h).nonce = CinOf(e2, n2, h2).nonce <=> e = e2 /\ n = n2
  BY DEF CinOf, AEAD, Hash

\* A word has one execution, number and value, and its nonce has the first two.
LEMMA WordIs ==
  ASSUME NEW e, NEW n, NEW j, NEW v, NEW e2, NEW n2, NEW j2, NEW v2
  PROVE  /\ WordOf(e, <<n, j>>, v) = WordOf(e2, <<n2, j2>>, v2)
              <=> e = e2 /\ n = n2 /\ j = j2 /\ v = v2
         /\ WordOf(e, <<n, j>>, v).nonce = WordOf(e2, <<n2, j2>>, v2).nonce
              <=> e = e2 /\ n = n2 /\ j = j2
         /\ WordOf(e, <<n, j>>, v).msg = v
  BY DEF WordOf, AEAD, Hash

LEMMA HashChainIs ==
  ASSUME NEW h, NEW X, NEW h2, NEW X2
  PROVE  HashChain(h, X) = HashChain(h2, X2) <=> h = h2 /\ X = X2
  BY DEF HashChain

\* The identity of an execution commits to the hash it was started with.
LEMMA ExecIDIs ==
  ASSUME NEW h, NEW h2, ExecID(Header, h) = ExecID(Header, h2)
  PROVE  h = h2
  BY DEF ExecID, Hash

\* SEinput accepts a batch exactly with the ticket made for it.
LEMMA AcceptedTicket ==
  ASSUME TypeOK, NEW e, NEW n, NEW Hp, NEW X, NEW t \in tickets, SEinputOk(e, n, Hp, X, t)
  PROVE  t = CinOf(e, n, HashChain(Hp, X))
  BY DEF TypeOK, SEinputOk, Opens, CinOf, AEAD, Hash

LEMMA BatchTotalIs == BatchTotal \in Nat /\ l_out \in Nat \ {0}
  BY HeaderAssumption, SizeAssumption DEF BatchTotal, CeilDiv

\* Who may have a ticket, and for what.
LEMMA TicketFrom ==
  ASSUME TypeOK, NEW e, NEW n, NEW h, CinOf(e, n, h) \in tickets
  PROVE  n \in 0 .. BatchTotal /\ h \in Hashes /\ \E x \in started : x[1] = e
<1>1. PICK x \in started, m \in 0 .. BatchTotal, h2 \in Hashes : CinOf(e, n, h) = CinOf(x[1], m, h2)
  BY DEF TypeOK
<1>2. QED
  BY <1>1, TicketIs

-----------------------------------------------------------------------------
(***************************************************************************)
(* A nonce determines its word.                                            *)
(***************************************************************************)
FromTicket(x, c) ==
  \E n \in 1 .. BatchTotal : \E Hp \in Hashes : \E X \in Batches : \E j \in 1 .. l_out :
    /\ CinOf(x[1], n, HashChain(Hp, X)) \in tickets
    /\ c = WordOf(x[1], <<n, j - 1>>, X[j])

LEMMA SameNonce ==
  ASSUME TicketBinding, WordBinding, NEW x, NEW y, NEW c, NEW d,
         FromTicket(x, c) \/ FromSnippet(x, c),
         FromTicket(y, d) \/ FromSnippet(y, d),
         c.nonce = d.nonce
  PROVE  c = d
<1>1. CASE FromTicket(x, c) /\ FromTicket(y, d)
  <2>1. PICK n \in 1 .. BatchTotal, Hp \in Hashes, X \in Batches, j \in 1 .. l_out :
          /\ CinOf(x[1], n, HashChain(Hp, X)) \in tickets
          /\ c = WordOf(x[1], <<n, j - 1>>, X[j])
    BY <1>1 DEF FromTicket
  <2>2. PICK n2 \in 1 .. BatchTotal, Hp2 \in Hashes, X2 \in Batches, j2 \in 1 .. l_out :
          /\ CinOf(y[1], n2, HashChain(Hp2, X2)) \in tickets
          /\ d = WordOf(y[1], <<n2, j2 - 1>>, X2[j2])
    BY <1>1 DEF FromTicket
  <2>3. x[1] = y[1] /\ n = n2 /\ j - 1 = j2 - 1
    BY <2>1, <2>2, WordIs
  <2>4. CinOf(x[1], n, HashChain(Hp, X)) = CinOf(y[1], n2, HashChain(Hp2, X2))
    BY <2>1, <2>2, <2>3, TicketIs DEF TicketBinding
  <2>5. X = X2
    BY <2>4, TicketIs, HashChainIs
  <2>6. j = j2
    BY <2>3, BatchTotalIs
  <2>7. QED
    BY <2>1, <2>2, <2>3, <2>5, <2>6
<1>2. CASE FromSnippet(x, c) /\ FromSnippet(y, d)
  <2>1. PICK a \in AELLSs : \E cx \in [1 .. Len(a.inputIDs) -> words] :
          \E j \in 1 .. a.out_count : Computed(x, c, a, cx, j)
    BY <1>2 DEF FromSnippet
  <2>2. PICK cx \in [1 .. Len(a.inputIDs) -> words], j \in 1 .. a.out_count :
          Computed(x, c, a, cx, j)
    BY <2>1
  <2>3. PICK a2 \in AELLSs : \E cx2 \in [1 .. Len(a2.inputIDs) -> words] :
          \E j2 \in 1 .. a2.out_count : Computed(y, d, a2, cx2, j2)
    BY <1>2 DEF FromSnippet
  <2>4. PICK cx2 \in [1 .. Len(a2.inputIDs) -> words], j2 \in 1 .. a2.out_count :
          Computed(y, d, a2, cx2, j2)
    BY <2>3
  <2>5. x[1] = y[1] /\ a.instrID = a2.instrID /\ j - 1 = j2 - 1
    BY <2>2, <2>4, WordIs DEF Computed
  <2>6. a = a2
    BY <2>5, AELLSAssumption
  <2>7. ASSUME NEW q \in 1 .. Len(a.inputIDs)
        PROVE  cx[q] = cx2[q]
    <3>1. EWORDOk(x[1], a.inputIDs[q], Encrypted(cx[q]))
      BY <2>2 DEF Computed
    <3>2. EWORDOk(x[1], a.inputIDs[q], Encrypted(cx2[q]))
      BY <2>4, <2>5, <2>6 DEF Computed
    <3>3. cx[q].nonce = cx2[q].nonce
      BY <3>1, <3>2 DEF EWORDOk, Encrypted, Opens
    <3>4. cx[q] \in words /\ cx2[q] \in words
      BY <2>6
    <3>5. QED
      BY <3>3, <3>4 DEF WordBinding
  <2>8. [q \in 1 .. Len(a.inputIDs) |-> cx[q].msg] = [q \in 1 .. Len(a2.inputIDs) |-> cx2[q].msg]
    BY <2>6, <2>7
  <2>9. j = j2
    BY <2>5, AELLSAssumption
  <2>10. QED
    BY <2>2, <2>4, <2>5, <2>6, <2>8, <2>9 DEF Computed
<1>3. ASSUME NEW z, NEW u, NEW f, NEW g, FromTicket(z, f), FromSnippet(u, g), f.nonce = g.nonce
      PROVE  FALSE
  <2>1. PICK n \in 1 .. BatchTotal, Hp \in Hashes, X \in Batches, j \in 1 .. l_out :
          f = WordOf(z[1], <<n, j - 1>>, X[j])
    BY <1>3 DEF FromTicket
  <2>2. PICK a \in AELLSs : \E cx, j2 : Computed(u, g, a, cx, j2)
    BY <1>3 DEF FromSnippet
  <2>3. n = a.instrID
    BY <1>3, <2>1, <2>2, WordIs DEF Computed
  <2>4. QED
    BY <2>3, AELLSAssumption, BatchTotalIs
<1>4. QED
  BY <1>1, <1>2, <1>3

LEMMA FromBatchIs ==
  ASSUME NEW x, NEW c, FromBatch(x, c) \/ FromSnippet(x, c)
  PROVE  FromTicket(x, c) \/ FromSnippet(x, c)
  BY DEF FromBatch, FromTicket

\* Words that come from tickets and words given out before go well together
\* with these.
LEMMA WordBindingStep ==
  ASSUME PInv, NEW S, words' = words \cup S,
         \A c \in S : \E x \in started : FromTicket(x, c) \/ FromSnippet(x, c)
  PROVE  WordBinding'
<1> SUFFICES ASSUME NEW c \in words', NEW d \in words', c.nonce = d.nonce
             PROVE  c = d
  BY DEF WordBinding
<1>1. ASSUME NEW f \in words'
      PROVE  \E x \in started : FromTicket(x, f) \/ FromSnippet(x, f)
  BY FromBatchIs DEF PInv, WordOrigin
<1>2. QED
  BY <1>1, SameNonce DEF PInv

\* What has an origin keeps it.
LEMMA OriginStays ==
  ASSUME NEW x, NEW c, FromBatch(x, c) \/ FromSnippet(x, c),
         tickets \subseteq tickets', words \subseteq words'
  PROVE  (FromBatch(x, c) \/ FromSnippet(x, c))'
<1>1. CASE FromBatch(x, c)
  <2>1. FromBatch(x, c)'
    BY <1>1 DEF FromBatch
  <2>2. QED
    BY <2>1
<1>2. CASE FromSnippet(x, c)
  <2>1. PICK a \in AELLSs : \E cx \in [1 .. Len(a.inputIDs) -> words] :
          \E j \in 1 .. a.out_count : Computed(x, c, a, cx, j)
    BY <1>2 DEF FromSnippet
  <2>2. \E cx \in [1 .. Len(a.inputIDs) -> words'] :
          \E j \in 1 .. a.out_count : Computed(x, c, a, cx, j)
    BY <2>1
  <2>3. FromSnippet(x, c)'
    BY <2>1, <2>2 DEF FromSnippet
  <2>4. QED
    BY <2>3
<1>3. QED
  BY <1>1, <1>2

LEMMA ChainStays ==
  ASSUME NEW x, NEW n, NEW h, ChainFrom(x, n, h), words \subseteq words'
  PROVE  ChainFrom(x, n, h)'
<1>1. PICK g \in [n .. BatchTotal -> Hashes], Xs \in [n + 1 .. BatchTotal -> Batches] :
        /\ g[n] = h
        /\ g[BatchTotal] = x[2]
        /\ \A m \in n + 1 .. BatchTotal : g[m] = HashChain(g[m - 1], Xs[m])
        /\ \A m \in n + 1 .. BatchTotal : \A q \in 1 .. l_out :
             WordOf(x[1], <<m, q - 1>>, Xs[m][q]) \in words
  BY DEF ChainFrom
<1>2. \A m \in n + 1 .. BatchTotal : \A q \in 1 .. l_out :
        WordOf(x[1], <<m, q - 1>>, Xs[m][q]) \in words'
  BY <1>1
<1>3. QED
  BY <1>1, <1>2 DEF ChainFrom

-----------------------------------------------------------------------------
(***************************************************************************)
(* The calls.                                                              *)
(***************************************************************************)
LEMMA PInvInit == PInit => PInv
  BY DEF PInit, PInv, TypeOK, TicketOrigin, TicketChain, TicketBinding, WordOrigin, WordBinding

LEMMA StartStep ==
  ASSUME PInv, NEW h \in Hashes, CallStart(h)
  PROVE  PInv'
<1> DEFINE e == ExecID(Header, h)
<1>1. /\ started' = started \cup {<<e, h>>}
      /\ tickets' = tickets \cup {CinOf(e, BatchTotal, h)}
      /\ words' = words
  BY DEF CallStart, SEstart, BatchTotal
<1>2. TypeOK /\ BatchTotal \in 0 .. BatchTotal
  BY BatchTotalIs DEF PInv
<1>3. TypeOK'
  <2>1. \A x \in started' : x[2] \in Hashes /\ x[1] = ExecID(Header, x[2])
    BY <1>1, <1>2 DEF TypeOK
  <2>2. <<e, h>> \in started' /\ <<e, h>>[1] = e
    BY <1>1
  <2>3. \A t \in tickets' : \E x \in started' : \E n \in 0 .. BatchTotal :
          \E h2 \in Hashes : t = CinOf(x[1], n, h2)
    BY <1>1, <1>2, <2>2 DEF TypeOK
  <2>4. QED
    BY <1>1, <1>2, <2>1, <2>3 DEF TypeOK
<1>4. ASSUME NEW x \in started', NEW n, NEW h2, CinOf(x[1], n, h2) \in tickets
      PROVE  \E y \in started : y[1] = x[1] /\ y[2] = x[2]
  <2>1. PICK y \in started : y[1] = x[1]
    BY <1>2, <1>4, TicketFrom
  <2>2. y[1] = ExecID(Header, y[2]) /\ x[1] = ExecID(Header, x[2])
    BY <1>2, <1>3 DEF TypeOK
  <2>3. QED
    BY <2>1, <2>2, ExecIDIs
<1>5. ASSUME NEW x \in started', NEW n, NEW h2, CinOf(x[1], n, h2) \in tickets' \ tickets
      PROVE  n = BatchTotal /\ h2 = h /\ x[2] = h
  <2>1. CinOf(x[1], n, h2) = CinOf(e, BatchTotal, h)
    BY <1>1, <1>5
  <2>2. x[1] = e /\ n = BatchTotal /\ h2 = h
    BY <2>1, TicketIs
  <2>3. x[1] = ExecID(Header, x[2])
    BY <1>3 DEF TypeOK
  <2>4. QED
    BY <2>2, <2>3, ExecIDIs
<1>6. TicketOrigin'
  <2> SUFFICES ASSUME NEW x \in started', NEW n \in 0 .. BatchTotal, NEW h2 \in Hashes,
                      CinOf(x[1], n, h2) \in tickets'
               PROVE  IF n = BatchTotal THEN h2 = x[2]
                      ELSE \E X \in Batches : CinOf(x[1], n + 1, HashChain(h2, X)) \in tickets'
    BY DEF TicketOrigin
  <2>1. CASE CinOf(x[1], n, h2) \in tickets
    <3>1. PICK y \in started : y[1] = x[1] /\ y[2] = x[2]
      BY <1>4, <2>1
    <3>2. IF n = BatchTotal THEN h2 = y[2]
          ELSE \E X \in Batches : CinOf(y[1], n + 1, HashChain(h2, X)) \in tickets
      BY <2>1, <3>1 DEF PInv, TicketOrigin
    <3>3. QED
      BY <1>1, <3>1, <3>2
  <2>2. CASE CinOf(x[1], n, h2) \notin tickets
    <3>1. CinOf(x[1], n, h2) \in tickets' \ tickets
      BY <2>2
    <3>2. n = BatchTotal /\ h2 = h /\ x[2] = h
      BY <1>5, <3>1
    <3>3. QED
      BY <3>2
  <2>3. QED
    BY <2>1, <2>2
<1>7. TicketChain'
  <2> SUFFICES ASSUME NEW x \in started', NEW n \in 0 .. BatchTotal, NEW h2 \in Hashes,
                      CinOf(x[1], n, h2) \in tickets'
               PROVE  ChainFrom(x, n, h2)'
    BY DEF TicketChain
  <2>1. CASE CinOf(x[1], n, h2) \in tickets
    <3>1. PICK y \in started : y[1] = x[1] /\ y[2] = x[2]
      BY <1>4, <2>1
    <3>2. ChainFrom(y, n, h2)
      BY <2>1, <3>1 DEF PInv, TicketChain
    <3>3. ChainFrom(x, n, h2)
      BY <3>1, <3>2 DEF ChainFrom
    <3>4. QED
      BY <1>1, <3>3, ChainStays
  <2>2. CASE CinOf(x[1], n, h2) \notin tickets
    <3>1. n = BatchTotal /\ h2 = h /\ x[2] = h
      BY <1>5, <2>2
    <3> DEFINE g == [m \in n .. BatchTotal |-> h]
               Xs == [m \in n + 1 .. BatchTotal |-> CHOOSE X \in Batches : TRUE]
    <3>2. g \in [n .. BatchTotal -> Hashes] /\ g[n] = h2 /\ g[BatchTotal] = x[2]
      BY <3>1, BatchTotalIs
    <3>3. n + 1 .. BatchTotal = {}
      BY <3>1, BatchTotalIs
    <3>4. Xs \in [n + 1 .. BatchTotal -> Batches]
      BY <3>3
    <3> HIDE DEF g, Xs
    <3>5. QED
      BY <3>2, <3>3, <3>4 DEF ChainFrom
  <2>3. QED
    BY <2>1, <2>2
<1>8. TicketBinding'
  <2> SUFFICES ASSUME NEW t \in tickets', NEW u \in tickets', t.nonce = u.nonce
               PROVE  t = u
    BY DEF TicketBinding
  <2>1. PICK x \in started', n \in 0 .. BatchTotal, h1 \in Hashes : t = CinOf(x[1], n, h1)
    BY <1>3 DEF TypeOK
  <2>2. PICK y \in started', n2 \in 0 .. BatchTotal, h2 \in Hashes : u = CinOf(y[1], n2, h2)
    BY <1>3 DEF TypeOK
  <2>3. x[1] = y[1] /\ n = n2
    BY <2>1, <2>2, TicketIs
  <2>4. CASE t \in tickets /\ u \in tickets
    BY <2>4 DEF PInv, TicketBinding
  <2>5. CASE n = BatchTotal
    <3>1. h1 = x[2] /\ h2 = y[2]
      BY <1>6, <2>1, <2>2, <2>3, <2>5 DEF TicketOrigin
    <3>2. x[1] = ExecID(Header, x[2]) /\ y[1] = ExecID(Header, y[2])
      BY <1>3 DEF TypeOK
    <3>3. QED
      BY <2>1, <2>2, <2>3, <3>1, <3>2, ExecIDIs
  <2>6. CASE t \notin tickets
    <3>1. CinOf(x[1], n, h1) \in tickets' \ tickets
      BY <2>1, <2>6
    <3>2. QED
      BY <1>5, <2>5, <3>1
  <2>7. CASE u \notin tickets
    <3>1. CinOf(y[1], n2, h2) \in tickets' \ tickets
      BY <2>2, <2>7
    <3>2. QED
      BY <1>5, <2>3, <2>5, <3>1
  <2>8. QED
    BY <2>4, <2>6, <2>7
<1>9. WordOrigin'
  <2> SUFFICES ASSUME NEW c \in words'
               PROVE  \E x \in started' : (FromBatch(x, c) \/ FromSnippet(x, c))'
    BY DEF WordOrigin
  <2>1. PICK x \in started : FromBatch(x, c) \/ FromSnippet(x, c)
    BY <1>1 DEF PInv, WordOrigin
  <2>2. QED
    BY <1>1, <2>1, OriginStays
<1>10. WordBinding'
  BY <1>1 DEF PInv, WordBinding
<1>11. QED
  BY <1>3, <1>6, <1>7, <1>8, <1>9, <1>10 DEF PInv

LEMMA InputStep ==
  ASSUME PInv, NEW x \in started, NEW n \in 0 .. BatchTotal, NEW Hp \in Hashes,
         NEW X \in Batches, NEW t \in tickets, CallInput(x[1], n, Hp, X, t)
  PROVE  PInv'
<1> DEFINE e == x[1]
           new == CinOf(e, n - 1, Hp)
           W == {WordOf(e, <<n, j - 1>>, X[j]) : j \in 1 .. l_out}
<1>1. SEinputOk(e, n, Hp, X, t) /\ started' = started /\ tickets' = tickets \cup {new}
  BY DEF CallInput, SEinput
<1>2. words' = words \cup W
  BY DEF CallInput, SEinput
<1>3. TypeOK /\ BatchTotal \in Nat /\ l_out \in Nat \ {0}
  BY BatchTotalIs DEF PInv
<1>4. n \in 1 .. BatchTotal /\ n - 1 \in 0 .. BatchTotal /\ (n = 1 => Hp = ZeroHash)
  BY <1>1, <1>3 DEF SEinputOk
<1>5. t = CinOf(e, n, HashChain(Hp, X)) /\ HashChain(Hp, X) \in Hashes
  BY <1>1, <1>3, AcceptedTicket, TicketFrom
<1>6. \A j \in 1 .. l_out : X[j] \in Words
  BY DEF Batches
<1> HIDE DEF W
<1>7. TypeOK'
  <2>1. \A u \in tickets' : \E y \in started : \E m \in 0 .. BatchTotal :
          \E h \in Hashes : u = CinOf(y[1], m, h)
    BY <1>1, <1>3, <1>4 DEF TypeOK
  <2>2. ASSUME NEW c \in words'
        PROVE  \E y \in started : \E m \in WordNumbers :
                 \E j \in 0 .. l_out - 1, v \in Words : c = WordOf(y[1], <<m, j>>, v)
    <3>1. CASE c \in words
      BY <1>3, <3>1 DEF TypeOK
    <3>2. CASE c \in W
      <4>1. PICK j \in 1 .. l_out : c = WordOf(e, <<n, j - 1>>, X[j])
        BY <3>2 DEF W
      <4>2. j - 1 \in 0 .. l_out - 1 /\ X[j] \in Words /\ n \in WordNumbers
        BY <1>3, <1>4, <1>6 DEF WordNumbers
      <4>3. QED
        BY <4>1, <4>2
    <3>3. QED
      BY <1>2, <3>1, <3>2
  <2>3. QED
    BY <1>1, <1>3, <2>1, <2>2 DEF TypeOK
<1>8. TicketOrigin'
  <2> SUFFICES ASSUME NEW y \in started, NEW m \in 0 .. BatchTotal, NEW h \in Hashes,
                      CinOf(y[1], m, h) \in tickets'
               PROVE  IF m = BatchTotal THEN h = y[2]
                      ELSE \E Z \in Batches : CinOf(y[1], m + 1, HashChain(h, Z)) \in tickets'
    BY <1>1 DEF TicketOrigin
  <2>1. CASE CinOf(y[1], m, h) \in tickets
    BY <1>1, <2>1 DEF PInv, TicketOrigin
  <2>2. CASE CinOf(y[1], m, h) = new
    <3>1. y[1] = e /\ m = n - 1 /\ h = Hp
      BY <2>2, TicketIs
    <3>2. m # BatchTotal /\ m + 1 = n
      BY <1>3, <1>4, <3>1
    <3>3. CinOf(y[1], m + 1, HashChain(h, X)) \in tickets'
      BY <1>1, <1>5, <3>1, <3>2
    <3>4. QED
      BY <3>2, <3>3
  <2>3. QED
    BY <1>1, <2>1, <2>2
<1>9. TicketChain'
  <2> SUFFICES ASSUME NEW y \in started, NEW m \in 0 .. BatchTotal, NEW h \in Hashes,
                      CinOf(y[1], m, h) \in tickets'
               PROVE  ChainFrom(y, m, h)'
    BY <1>1 DEF TicketChain
  <2>1. CASE CinOf(y[1], m, h) \in tickets
    BY <1>2, <2>1, ChainStays DEF PInv, TicketChain
  <2>2. CASE CinOf(y[1], m, h) = new
    <3>1. y[1] = e /\ m = n - 1 /\ h = Hp
      BY <2>2, TicketIs
    <3>2. ChainFrom(y, n, HashChain(Hp, X))
      BY <1>4, <1>5, <3>1 DEF PInv, TicketChain
    <3>3. PICK g \in [n .. BatchTotal -> Hashes], Xs \in [n + 1 .. BatchTotal -> Batches] :
            /\ g[n] = HashChain(Hp, X)
            /\ g[BatchTotal] = y[2]
            /\ \A q \in n + 1 .. BatchTotal : g[q] = HashChain(g[q - 1], Xs[q])
            /\ \A q \in n + 1 .. BatchTotal : \A j \in 1 .. l_out :
                 WordOf(y[1], <<q, j - 1>>, Xs[q][j]) \in words
      BY <3>2 DEF ChainFrom
    <3> DEFINE g2 == [q \in m .. BatchTotal |-> IF q = m THEN Hp ELSE g[q]]
               Xs2 == [q \in m + 1 .. BatchTotal |-> IF q = n THEN X ELSE Xs[q]]
    <3>4. g2 \in [m .. BatchTotal -> Hashes] /\ g2[m] = h
      BY <1>3, <1>4, <3>1
    <3>5. Xs2 \in [m + 1 .. BatchTotal -> Batches]
      BY <1>3, <1>4, <3>1
    <3>6. g2[BatchTotal] = y[2]
      BY <1>3, <1>4, <3>1, <3>3
    <3>7. ASSUME NEW q \in m + 1 .. BatchTotal
          PROVE  g2[q] = HashChain(g2[q - 1], Xs2[q])
      <4>1. CASE q = n
        BY <1>3, <1>4, <3>1, <3>3, <4>1
      <4>2. CASE q # n
        <5>1. q \in n + 1 .. BatchTotal /\ q # m /\ q - 1 # m /\ q - 1 \in m .. BatchTotal
          BY <1>3, <1>4, <3>1, <4>2
        <5>2. g2[q] = g[q] /\ g2[q - 1] = g[q - 1] /\ Xs2[q] = Xs[q]
          BY <4>2, <5>1
        <5>3. QED
          BY <3>3, <5>1, <5>2
      <4>3. QED
        BY <4>1, <4>2
    <3>8. ASSUME NEW q \in m + 1 .. BatchTotal, NEW j \in 1 .. l_out
          PROVE  WordOf(y[1], <<q, j - 1>>, Xs2[q][j]) \in words'
      <4>1. CASE q = n
        <5>1. Xs2[q] = X
          BY <4>1
        <5>2. WordOf(e, <<n, j - 1>>, X[j]) \in W
          BY DEF W
        <5>3. QED
          BY <1>2, <3>1, <4>1, <5>1, <5>2
      <4>2. CASE q # n
        <5>1. q \in n + 1 .. BatchTotal /\ Xs2[q] = Xs[q]
          BY <1>3, <1>4, <3>1, <4>2
        <5>2. QED
          BY <1>2, <3>3, <5>1
      <4>3. QED
        BY <4>1, <4>2
    <3> HIDE DEF g2, Xs2
    <3>9. QED
      BY <3>4, <3>5, <3>6, <3>7, <3>8 DEF ChainFrom
  <2>3. QED
    BY <1>1, <2>1, <2>2
<1>10. ASSUME NEW u \in tickets, u.nonce = new.nonce
       PROVE  u = new
  <2>1. PICK y \in started, m \in 0 .. BatchTotal, h \in Hashes : u = CinOf(y[1], m, h)
    BY <1>3 DEF TypeOK
  <2>2. y[1] = e /\ m = n - 1
    BY <1>10, <2>1, TicketIs
  <2>3. m # BatchTotal /\ m + 1 = n
    BY <1>3, <1>4, <2>2
  <2>4. PICK Z \in Batches : CinOf(y[1], m + 1, HashChain(h, Z)) \in tickets
    BY <2>1, <2>3 DEF PInv, TicketOrigin
  <2>5. CinOf(y[1], m + 1, HashChain(h, Z)) = t
    BY <1>5, <2>2, <2>3, <2>4, TicketIs DEF PInv, TicketBinding
  <2>6. h = Hp
    BY <1>5, <2>5, TicketIs, HashChainIs
  <2>7. QED
    BY <2>1, <2>2, <2>6
<1>11. TicketBinding'
  BY <1>1, <1>10 DEF PInv, TicketBinding
<1>12. WordOrigin'
  <2> SUFFICES ASSUME NEW c \in words'
               PROVE  \E y \in started : (FromBatch(y, c) \/ FromSnippet(y, c))'
    BY <1>1 DEF WordOrigin
  <2>1. CASE c \in words
    <3>1. PICK y \in started : FromBatch(y, c) \/ FromSnippet(y, c)
      BY <2>1 DEF PInv, WordOrigin
    <3>2. QED
      BY <1>1, <1>2, <3>1, OriginStays
  <2>2. CASE c \in W
    <3>1. PICK j \in 1 .. l_out : c = WordOf(x[1], <<n, j - 1>>, X[j])
      BY <2>2 DEF W
    <3>2. \A q \in 1 .. l_out : WordOf(x[1], <<n, q - 1>>, X[q]) \in words'
      BY <1>2 DEF W
    <3>3. CinOf(x[1], n, HashChain(Hp, X)) \in tickets'
      BY <1>1, <1>5
    <3>4. FromBatch(x, c)'
      BY <1>4, <3>1, <3>2, <3>3 DEF FromBatch
    <3>5. QED
      BY <3>4
  <2>3. QED
    BY <1>2, <2>1, <2>2
<1>13. WordBinding'
  <2>1. ASSUME NEW c \in W
        PROVE  FromTicket(x, c)
    <3>1. PICK j \in 1 .. l_out : c = WordOf(x[1], <<n, j - 1>>, X[j])
      BY <2>1 DEF W
    <3>2. QED
      BY <1>4, <1>5, <3>1 DEF FromTicket
  <2>2. QED
    BY <1>2, <2>1, WordBindingStep
<1>14. QED
  BY <1>7, <1>8, <1>9, <1>11, <1>12, <1>13 DEF PInv

LEMMA EvalStep ==
  ASSUME PInv, NEW x \in started, NEW a \in AELLSs,
         NEW cx \in [1 .. Len(a.inputIDs) -> words], CallEval(x[1], a, cx)
  PROVE  PInv'
<1> DEFINE ws == [q \in 1 .. Len(a.inputIDs) |-> cx[q].msg]
           W == {WordOf(x[1], <<a.instrID, j - 1>>, Snippet(a, ws)[j]) : j \in 1 .. a.out_count}
<1>1. started' = started /\ tickets' = tickets
  BY DEF CallEval
<1>2. [j \in DOMAIN cx |-> cx[j].msg] = ws
  OBVIOUS
<1>3. \E S \in SUBSET W : words' = words \cup S
  <2>1. CASE a.reveal_flag = 1
    <3>1. words' = words \cup {}
      BY <2>1 DEF CallEval
    <3>2. QED
      BY <3>1
  <2>2. CASE a.reveal_flag # 1
    <3>1. \A j : SEevalOutput(x[1], a, j, Snippet(a, ws)[j]).ct
                  = WordOf(x[1], <<a.instrID, j - 1>>, Snippet(a, ws)[j])
      BY <2>2 DEF SEevalOutput, Encrypted
    <3> HIDE DEF ws
    <3>2. words' = words \cup {SEevalOutput(x[1], a, j, Snippet(a, ws)[j]).ct : j \in 1 .. a.out_count}
      BY <1>2, <2>2 DEF CallEval
    <3>3. QED
      BY <3>1, <3>2
  <2>3. QED
    BY <2>1, <2>2
<1>4. PICK S \in SUBSET W : words' = words \cup S
  BY <1>3
<1>5. \A q \in 1 .. Len(a.inputIDs) : EWORDOk(x[1], a.inputIDs[q], Encrypted(cx[q]))
  <2>1. \A q \in 1 .. Len(a.inputIDs) :
          EWORDOk(x[1], a.inputIDs[q], [j \in DOMAIN cx |-> Encrypted(cx[j])][q])
    BY DEF CallEval, SEevalOk
  <2>2. QED
    BY <2>1
<1> HIDE DEF W
<1>6. ASSUME NEW c \in W
      PROVE  FromSnippet(x, c)
  <2>1. PICK j \in 1 .. a.out_count : c = WordOf(x[1], <<a.instrID, j - 1>>, Snippet(a, ws)[j])
    BY <1>6 DEF W
  <2>2. Computed(x, c, a, cx, j)
    BY <1>5, <2>1 DEF Computed
  <2>3. QED
    BY <2>2 DEF FromSnippet
<1>7. TypeOK'
  <2>1. ASSUME NEW c \in words
        PROVE  c.msg \in Words
    <3>1. PICK y \in started, m \in WordNumbers, j \in 0 .. l_out - 1, v \in Words :
            c = WordOf(y[1], <<m, j>>, v)
      BY DEF PInv, TypeOK
    <3>2. QED
      BY <3>1, WordIs
  <2>2. ws \in [1 .. Len(a.inputIDs) -> Words]
    BY <2>1
  <2>3. Snippet(a, ws) \in [1 .. a.out_count -> Words] /\ a.out_count \in 0 .. l_out
    BY <2>2, AELLSAssumption
  <2> HIDE DEF ws
  <2>4. ASSUME NEW c \in W
        PROVE  \E m \in WordNumbers :
                 \E j \in 0 .. l_out - 1, v \in Words : c = WordOf(x[1], <<m, j>>, v)
    <3>1. PICK j \in 1 .. a.out_count : c = WordOf(x[1], <<a.instrID, j - 1>>, Snippet(a, ws)[j])
      BY <2>4 DEF W
    <3>2. a.instrID \in WordNumbers /\ j - 1 \in 0 .. l_out - 1 /\ Snippet(a, ws)[j] \in Words
      BY <2>3, BatchTotalIs DEF WordNumbers
    <3>3. QED
      BY <3>1, <3>2
  <2>5. QED
    BY <1>1, <1>4, <2>4 DEF PInv, TypeOK
<1>8. TicketOrigin' /\ TicketChain' /\ TicketBinding'
  <2>1. TicketOrigin' /\ TicketBinding'
    BY <1>1 DEF PInv, TicketOrigin, TicketBinding
  <2>2. TicketChain'
    BY <1>1, <1>4, ChainStays DEF PInv, TicketChain
  <2>3. QED
    BY <2>1, <2>2
<1>9. WordOrigin'
  <2> SUFFICES ASSUME NEW c \in words'
               PROVE  \E y \in started : (FromBatch(y, c) \/ FromSnippet(y, c))'
    BY <1>1 DEF WordOrigin
  <2>1. PICK y \in started : FromBatch(y, c) \/ FromSnippet(y, c)
    BY <1>4, <1>6 DEF PInv, WordOrigin
  <2>2. QED
    BY <1>1, <1>4, <2>1, OriginStays
<1>10. WordBinding'
  BY <1>4, <1>6, WordBindingStep
<1>11. QED
  BY <1>7, <1>8, <1>9, <1>10 DEF PInv

\* No sequence of calls breaks the invariant.
THEOREM ProtocolInvariance == PSpec => []PInv
<1>1. PInv /\ [PNext]_evars => PInv'
  <2> SUFFICES ASSUME PInv, [PNext]_evars PROVE PInv'
    OBVIOUS
  <2>1. CASE \E h \in Hashes : CallStart(h)
    BY <2>1, StartStep
  <2>2. CASE \E x \in started : \E n \in 0 .. BatchTotal, Hp \in Hashes, X \in Batches,
               t \in tickets : CallInput(x[1], n, Hp, X, t)
    BY <2>2, InputStep
  <2>3. CASE \E x \in started : \E a \in AELLSs :
               \E cx \in [1 .. Len(a.inputIDs) -> words] : CallEval(x[1], a, cx)
    BY <2>3, EvalStep
  <2>4. CASE UNCHANGED evars
    <3>1. started' = started /\ tickets' = tickets /\ words' = words
      BY <2>4 DEF evars
    <3>2. TypeOK' /\ TicketOrigin' /\ TicketBinding' /\ WordBinding'
      BY <3>1 DEF PInv, TypeOK, TicketOrigin, TicketBinding, WordBinding
    <3>3. TicketChain'
      BY <3>1, ChainStays DEF PInv, TicketChain
    <3>4. \A c \in words' : \E x \in started' : (FromBatch(x, c) \/ FromSnippet(x, c))'
      BY <3>1, OriginStays DEF PInv, WordOrigin
    <3>5. WordOrigin'
      BY <3>4 DEF WordOrigin
    <3>6. QED
      BY <3>2, <3>3, <3>5 DEF PInv
  <2>5. QED
    BY <2>1, <2>2, <2>3, <2>4 DEF PNext
<1>2. QED
  BY <1>1, PInvInit, PTL DEF PSpec

\* The element returned only tickets and words of its own making.
THEOREM ProtocolTypes == PSpec => []TypeOK
<1>1. PInv => TypeOK
  BY DEF PInv
<1>2. QED
  BY <1>1, ProtocolInvariance, PTL

\* SEinput and SEstart never give two tickets for the same batch of an
\* execution: C_i^in commits to a single hash.
THEOREM TicketsBind == PSpec => []TicketBinding
<1>1. PInv => TicketBinding
  BY DEF PInv
<1>2. QED
  BY <1>1, ProtocolInvariance, PTL

\* Without any memory of its own, the element never encrypts two words as the
\* same input or as the same output of an LLMI.
THEOREM WordsBind == PSpec => []WordBinding
<1>1. PInv => WordBinding
  BY DEF PInv
<1>2. QED
  BY <1>1, ProtocolInvariance, PTL

-----------------------------------------------------------------------------
(***************************************************************************)
(* The chain of the inputs.                                                *)
(***************************************************************************)
\* A function that satisfies the equation of the chain of the batches Xs is
\* the one that the equation defines.
ChainStep(h, Xs) ==
  [n \in 0 .. BatchTotal |-> IF n = 0 THEN ZeroHash ELSE HashChain(h[n - 1], Xs[n])]

LEMMA ChainUnique ==
  ASSUME NEW Xs, NEW g, g = ChainStep(g, Xs), NEW h, h = ChainStep(h, Xs)
  PROVE  h[BatchTotal] = g[BatchTotal]
<1> DEFINE S == {n \in 0 .. BatchTotal : h[n] = g[n]}
<1>1. BatchTotal \in Nat
  BY BatchTotalIs
<1>2. 0 \in S
  BY <1>1 DEF ChainStep
<1>3. ASSUME NEW n \in 0 .. BatchTotal - 1, n \in S
      PROVE  n + 1 \in S
  <2>1. n + 1 \in 0 .. BatchTotal /\ n + 1 # 0 /\ n + 1 - 1 = n
    BY <1>1
  <2>2. ASSUME NEW f, f = ChainStep(f, Xs), NEW m \in 0 .. BatchTotal, m # 0
        PROVE  f[m] = HashChain(f[m - 1], Xs[m])
    <3>1. ChainStep(f, Xs)[m] = HashChain(f[m - 1], Xs[m])
      BY <2>2 DEF ChainStep
    <3>2. QED
      BY <2>2, <3>1
  <2>3. h[n + 1] = HashChain(h[n], Xs[n + 1]) /\ g[n + 1] = HashChain(g[n], Xs[n + 1])
    <3>1. ASSUME NEW m, m = n + 1
          PROVE  h[m] = HashChain(h[n], Xs[m]) /\ g[m] = HashChain(g[n], Xs[m])
      BY <2>1, <2>2, <3>1
    <3>2. QED
      BY <3>1
  <2>4. QED
    BY <1>3, <2>1, <2>3
<1> HIDE DEF S
<1>4. \A n \in 0 .. BatchTotal : n \in S
  BY <1>1, <1>2, <1>3, RangeInduction
<1>5. QED
  BY <1>1, <1>4 DEF S

\* The batch whose word <<1, 0>> the element returned is the first of a chain.
LEMMA FirstBatch ==
  ASSUME PInv, NEW x \in started, NEW v, WordOf(x[1], <<1, 0>>, v) \in words
  PROVE  \E X \in Batches :
           /\ BatchTotal >= 1
           /\ ChainFrom(x, 1, HashChain(ZeroHash, X))
           /\ \A q \in 1 .. l_out : WordOf(x[1], <<1, q - 1>>, X[q]) \in words
<1> DEFINE c == WordOf(x[1], <<1, 0>>, v)
<1>1. PICK y \in started : FromBatch(y, c) \/ FromSnippet(y, c)
  BY DEF PInv, WordOrigin
<1>2. ~ FromSnippet(y, c)
  <2> SUFFICES ASSUME FromSnippet(y, c) PROVE FALSE
    OBVIOUS
  <2>1. PICK a \in AELLSs : \E cx, j : Computed(y, c, a, cx, j)
    BY DEF FromSnippet
  <2>2. a.instrID = 1
    BY <2>1, WordIs DEF Computed
  <2>3. QED
    BY <2>2, AELLSAssumption
<1>3. PICK n \in 1 .. BatchTotal, Hp \in Hashes, X \in Batches, j \in 1 .. l_out :
        /\ n = 1 => Hp = ZeroHash
        /\ CinOf(y[1], n, HashChain(Hp, X)) \in tickets
        /\ \A q \in 1 .. l_out : WordOf(y[1], <<n, q - 1>>, X[q]) \in words
        /\ c = WordOf(y[1], <<n, j - 1>>, X[j])
  BY <1>1, <1>2 DEF FromBatch
<1>4. y[1] = x[1] /\ n = 1
  BY <1>3, WordIs
<1>5. y[2] = x[2]
  BY <1>4, ExecIDIs DEF PInv, TypeOK
<1>6. BatchTotal >= 1 /\ 1 \in 0 .. BatchTotal
  BY <1>3, <1>4, BatchTotalIs
<1>7. HashChain(ZeroHash, X) \in Hashes
  BY <1>3, <1>4, TicketFrom DEF PInv
<1>8. ChainFrom(x, 1, HashChain(ZeroHash, X))
  BY <1>3, <1>4, <1>6, <1>7 DEF PInv, TicketChain
<1>9. QED
  BY <1>3, <1>4, <1>6, <1>8

LEMMA ChainIsClosed == PInv => FirstBatchClosesChain
<1> SUFFICES ASSUME PInv, NEW x \in started, NEW v \in Words,
                    WordOf(x[1], <<1, 0>>, v) \in words
             PROVE  \E Xs \in [1 .. BatchTotal -> Batches] :
                      LET h[n \in 0 .. BatchTotal] ==
                            IF n = 0 THEN ZeroHash ELSE HashChain(h[n - 1], Xs[n])
                      IN  /\ x[2] = h[BatchTotal]
                          /\ \A n \in 1 .. BatchTotal, j \in 1 .. l_out, u \in Words :
                               WordOf(x[1], <<n, j - 1>>, u) \in words <=> u = Xs[n][j]
  BY DEF FirstBatchClosesChain
<1>1. BatchTotal \in Nat
  BY BatchTotalIs
<1>2. PICK X \in Batches :
        /\ BatchTotal >= 1
        /\ ChainFrom(x, 1, HashChain(ZeroHash, X))
        /\ \A q \in 1 .. l_out : WordOf(x[1], <<1, q - 1>>, X[q]) \in words
  BY FirstBatch
<1>3. PICK g \in [1 .. BatchTotal -> Hashes], Zs \in [1 + 1 .. BatchTotal -> Batches] :
        /\ g[1] = HashChain(ZeroHash, X)
        /\ g[BatchTotal] = x[2]
        /\ \A q \in 1 + 1 .. BatchTotal : g[q] = HashChain(g[q - 1], Zs[q])
        /\ \A q \in 1 + 1 .. BatchTotal : \A j \in 1 .. l_out :
             WordOf(x[1], <<q, j - 1>>, Zs[q][j]) \in words
  BY <1>2 DEF ChainFrom
<1> DEFINE Xs == [n \in 1 .. BatchTotal |-> IF n = 1 THEN X ELSE Zs[n]]
           f == [n \in 0 .. BatchTotal |-> IF n = 0 THEN ZeroHash ELSE g[n]]
           h == CHOOSE h : h = [n \in 0 .. BatchTotal |->
                                  IF n = 0 THEN ZeroHash ELSE HashChain(h[n - 1], Xs[n])]
<1>4. Xs \in [1 .. BatchTotal -> Batches] /\ Xs[1] = X
  BY <1>1, <1>2
<1>5. f[BatchTotal] = x[2]
  BY <1>1, <1>2, <1>3
<1>6. f = ChainStep(f, Xs)
  <2> SUFFICES ASSUME NEW n \in 0 .. BatchTotal, n # 0
               PROVE  g[n] = HashChain(f[n - 1], Xs[n])
    BY DEF ChainStep
  <2>1. CASE n = 1
    BY <1>1, <1>2, <1>3, <2>1
  <2>2. CASE n # 1
    <3>1. n \in 1 + 1 .. BatchTotal /\ n - 1 \in 0 .. BatchTotal /\ n - 1 # 0
          /\ n \in 1 .. BatchTotal
      BY <1>1, <2>2
    <3>2. Xs[n] = Zs[n] /\ f[n - 1] = g[n - 1]
      BY <2>2, <3>1
    <3>3. QED
      BY <1>3, <3>1, <3>2
  <2>3. QED
    BY <2>1, <2>2
<1>7. h = ChainStep(h, Xs)
  <2> HIDE DEF f, Xs
  <2>1. \E u : u = ChainStep(u, Xs)
    BY <1>6
  <2>2. QED
    BY <2>1 DEF ChainStep
<1>8. h[BatchTotal] = x[2]
  <2> HIDE DEF f, h, Xs
  <2>1. QED
    BY <1>5, <1>6, <1>7, ChainUnique
<1>9. ASSUME NEW n \in 1 .. BatchTotal, NEW j \in 1 .. l_out, NEW u \in Words
      PROVE  WordOf(x[1], <<n, j - 1>>, u) \in words <=> u = Xs[n][j]
  <2>1. WordOf(x[1], <<n, j - 1>>, Xs[n][j]) \in words
    <3>1. CASE n = 1
      BY <1>2, <1>4, <3>1
    <3>2. CASE n # 1
      <4>1. n \in 1 + 1 .. BatchTotal /\ Xs[n] = Zs[n]
        BY <1>1, <3>2
      <4>2. QED
        BY <1>3, <4>1
    <3>3. QED
      BY <3>1, <3>2
  <2> HIDE DEF Xs
  <2>2. QED
    BY <2>1, WordIs DEF PInv, WordBinding
<1> HIDE DEF Xs
<1>10. QED
  BY <1>4, <1>8, <1>9

\* Whatever the host repeats, skips or mixes, a word of the first batch is only
\* ever returned in an execution whose hash is that of a whole sequence of
\* batches, of the announced length and from H_0, and the input words returned
\* in it, of every batch, are exactly the words of that sequence.
THEOREM FirstBatchCommits == PSpec => []FirstBatchClosesChain
<1>1. PInv => FirstBatchClosesChain
  BY ChainIsClosed
<1>2. QED
  BY <1>1, ProtocolInvariance, PTL
=============================================================================
