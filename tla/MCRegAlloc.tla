----------------------------- MODULE MCRegAlloc -----------------------------
(***************************************************************************)
(* All snippets of four instructions in SSA on two inputs, each reading    *)
(* one or two variables, those with inputs nobody reads, which             *)
(* universalization adds, and one without inputs.  Variables 1 and 2 are   *)
(* inputs, 3 an unused one, instruction j defines variable 3 + j.          *)
(***************************************************************************)
EXTENDS RegAllocSSA

Length == 4
Var(j) == 3 + j
Before(j) == {1, 2} \cup {Var(q) : q \in 1 .. j - 1}
Sources(j) == {<<v>> : v \in Before(j)}
              \cup {p \in Before(j) \X Before(j) : p[1] < p[2]}

Bodies ==
  {[j \in 1 .. Length |-> [dst |-> Var(j), src |-> s[j]]] :
     s \in {t \in [1 .. Length -> UNION {Sources(j) : j \in 1 .. Length}] :
              \A j \in 1 .. Length : t[j] \in Sources(j)}}

\* The outputs are at least the variables that nobody reads.
SnippetsOf(body, outs) ==
  {[instrs |-> body, inputs |-> ins, outputs |-> o] :
     ins \in {<<1, 2>>, <<2, 1, 3>>}, o \in outs}

Unread(body) == {Var(j) : j \in 1 .. Length} \ Reads(body)

\* No output is read in the snippet itself.
MCSnippets ==
  UNION {SnippetsOf(body,
           {o \in [1 .. Cardinality(Unread(body)) -> Unread(body)] :
              Range(o) = Unread(body)}) :
           body \in {x \in Bodies : /\ Cardinality(Unread(x)) =< l_out
                                    /\ {1, 2} \subseteq Reads(x)}}
  \cup {[instrs |-> <<[dst |-> 4, src |-> <<2>>], [dst |-> 5, src |-> <<2>>]>>,
         inputs |-> <<1, 2>>, outputs |-> o] : o \in {<<4, 5>>, <<5, 4>>}}
  \cup {[instrs |-> <<[dst |-> 4, src |-> <<>>], [dst |-> 5, src |-> <<4, 4>>]>>,
         inputs |-> <<>>, outputs |-> <<5>>]}
=============================================================================
