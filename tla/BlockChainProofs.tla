--------------------------- MODULE BlockChainProofs ---------------------------
(***************************************************************************)
(* Proofs about BlockChain, for any tree of blocks, any work that grows     *)
(* along it and any blocks that are refused.                                *)
(***************************************************************************)
EXTENDS BlockChain, FiniteDataTheorems, SequenceTheorems, TLAPS

Node == Block \cup {Genesis}

-----------------------------------------------------------------------------
(* Blocks are sequences, their ancestors are the prefixes.                   *)
LEMMA SubSeqFacts ==
    ASSUME NEW s \in Seq(STRING), NEW n \in 0..Len(s)
    PROVE  /\ SubSeq(s, 1, n) \in Seq(STRING)
           /\ Len(SubSeq(s, 1, n)) = n
           /\ \A i \in 1..n : SubSeq(s, 1, n)[i] = s[i]
BY SubSeqProperties

LEMMA ChainElements ==
    ASSUME NEW s \in Seq(STRING), NEW a
    PROVE  a \in Chain(s) <=>
              /\ a \in Seq(STRING)
              /\ Len(a) <= Len(s)
              /\ \A i \in 1..Len(a) : a[i] = s[i]
<1>1. ASSUME a \in Chain(s)
      PROVE  a \in Seq(STRING) /\ Len(a) <= Len(s) /\ \A i \in 1..Len(a) : a[i] = s[i]
  <2>1. PICK n \in 0..Len(s) : a = SubSeq(s, 1, n)
    BY <1>1 DEF Chain, Prefixes
  <2>. QED  BY <2>1, SubSeqFacts
<1>2. ASSUME a \in Seq(STRING), Len(a) <= Len(s), \A i \in 1..Len(a) : a[i] = s[i]
      PROVE  a \in Chain(s)
  <2>1. Len(a) \in 0..Len(s)
    BY <1>2, LenProperties
  <2>2. a = SubSeq(s, 1, Len(a))
    BY <1>2, <2>1, SubSeqFacts, SeqEqual
  <2>. QED  BY <2>1, <2>2 DEF Chain, Prefixes
<1>. QED  BY <1>1, <1>2

LEMMA ChainEnds ==
    ASSUME NEW s \in Seq(STRING)
    PROVE  s \in Chain(s) /\ Genesis \in Chain(s)
<1>1. Genesis \in Seq(STRING) /\ Len(Genesis) = 0
  BY DEF Genesis
<1>2. Len(s) \in Nat
  BY LenProperties
<1>3. s \in Chain(s)
  BY <1>2, ChainElements
<1>4. Genesis \in Chain(s)
  <2>1. Len(Genesis) <= Len(s) /\ \A i \in 1..Len(Genesis) : Genesis[i] = s[i]
    BY <1>1, <1>2
  <2>. QED  BY <1>1, <2>1, ChainElements
<1>. QED  BY <1>3, <1>4

LEMMA ChainTransitive ==
    ASSUME NEW s \in Seq(STRING), NEW b \in Chain(s), NEW a \in Chain(b)
    PROVE  a \in Chain(s) /\ a \in Seq(STRING) /\ b \in Seq(STRING)
<1>1. b \in Seq(STRING) /\ Len(b) <= Len(s) /\ \A i \in 1..Len(b) : b[i] = s[i]
  BY ChainElements
<1>2. a \in Seq(STRING) /\ Len(a) <= Len(b) /\ \A i \in 1..Len(a) : a[i] = b[i]
  BY <1>1, ChainElements
<1>3. Len(a) \in Nat /\ Len(b) \in Nat /\ Len(s) \in Nat
  BY <1>1, <1>2, LenProperties
<1>4. Len(a) <= Len(s) /\ \A i \in 1..Len(a) : a[i] = s[i]
  BY <1>1, <1>2, <1>3
<1>. QED  BY <1>1, <1>2, <1>4, ChainElements

(* Of two blocks on one chain the shorter is an ancestor of the longer.      *)
LEMMA ChainLinear ==
    ASSUME NEW s \in Seq(STRING), NEW a \in Chain(s), NEW b \in Chain(s),
           Len(a) <= Len(b)
    PROVE  a \in Chain(b)
<1>1. /\ a \in Seq(STRING) /\ Len(a) <= Len(s) /\ \A i \in 1..Len(a) : a[i] = s[i]
      /\ b \in Seq(STRING) /\ Len(b) <= Len(s) /\ \A i \in 1..Len(b) : b[i] = s[i]
  BY ChainElements
<1>2. Len(a) \in Nat /\ Len(b) \in Nat
  BY <1>1, LenProperties
<1>3. \A i \in 1..Len(a) : a[i] = b[i]
  BY <1>1, <1>2
<1>. QED  BY <1>1, <1>3, ChainElements

LEMMA ChainSameLength ==
    ASSUME NEW s \in Seq(STRING), NEW a \in Chain(s), NEW b \in Chain(s),
           Len(a) = Len(b)
    PROVE  a = b
<1>1. /\ a \in Seq(STRING) /\ \A i \in 1..Len(a) : a[i] = s[i]
      /\ b \in Seq(STRING) /\ \A i \in 1..Len(b) : b[i] = s[i]
  BY ChainElements
<1>. QED  BY <1>1, SeqEqual

LEMMA ChainLen ==
    ASSUME NEW s \in Seq(STRING), NEW a \in Chain(s)
    PROVE  /\ a \in Seq(STRING)
           /\ Len(a) \in Nat /\ Len(s) \in Nat
           /\ Len(a) <= Len(s)
           /\ a # s => Len(a) < Len(s)
<1>1. a \in Seq(STRING) /\ Len(a) <= Len(s)
  BY ChainElements
<1>2. Len(a) \in Nat /\ Len(s) \in Nat
  BY <1>1, LenProperties
<1>3. Len(a) = Len(s) => a = s
  BY ChainEnds, ChainSameLength
<1>. QED  BY <1>1, <1>2, <1>3

(* The block of a chain at a height.                                         *)
LEMMA ChainAt ==
    ASSUME NEW s \in Seq(STRING), NEW n \in 0..Len(s)
    PROVE  /\ SubSeq(s, 1, n) \in Chain(s)
           /\ Len(SubSeq(s, 1, n)) = n
           /\ \A a \in Chain(s) : Len(a) = n => a = SubSeq(s, 1, n)
<1>1. SubSeq(s, 1, n) \in Chain(s)
  BY DEF Chain, Prefixes
<1>2. Len(SubSeq(s, 1, n)) = n
  BY SubSeqFacts
<1>. QED  BY <1>1, <1>2, ChainSameLength

LEMMA ChainParent ==
    ASSUME NEW s \in Seq(STRING), Len(s) > 0
    PROVE  /\ Parent(s) \in Seq(STRING)
           /\ Parent(s) \in Chain(s)
           /\ Len(Parent(s)) = Len(s) - 1
           /\ Chain(s) = Chain(Parent(s)) \cup {s}
<1>1. Len(s) \in Nat
  BY LenProperties
<1>2. Len(s) - 1 \in 0..Len(s)
  BY <1>1
<1>3. Parent(s) \in Chain(s) /\ Len(Parent(s)) = Len(s) - 1
  BY <1>2, ChainAt DEF Parent
<1>4. Parent(s) \in Seq(STRING)
  BY <1>3, ChainElements
<1>5. ASSUME NEW a \in Chain(s), a # s PROVE a \in Chain(Parent(s))
  <2>1. Len(a) <= Len(Parent(s))
    BY <1>3, <1>5, ChainLen
  <2>. QED  BY <1>3, <2>1, ChainLinear
<1>6. ASSUME NEW a \in Chain(Parent(s)) PROVE a \in Chain(s)
  BY <1>3, <1>6, ChainTransitive
<1>. QED  BY <1>3, <1>4, <1>5, <1>6, ChainEnds

(* The child, on a chain, of a block of it.                                  *)
LEMMA ChainNext ==
    ASSUME NEW s \in Seq(STRING), NEW a \in Chain(s), a # s
    PROVE  LET c == SubSeq(s, 1, Len(a) + 1) IN
           /\ c \in Chain(s) /\ Parent(c) = a /\ Len(c) = Len(a) + 1
           /\ \A d \in Chain(s) : Len(d) = Len(a) + 1 => d = c
           /\ \A d \in Chain(s) : Len(d) > 0 /\ Parent(d) = a => d = c
<1>. DEFINE c == SubSeq(s, 1, Len(a) + 1)
<1>1. Len(a) \in Nat /\ Len(s) \in Nat /\ Len(a) < Len(s)
  BY ChainLen
<1>2. Len(a) + 1 \in 0..Len(s)
  BY <1>1
<1>3. c \in Chain(s) /\ Len(c) = Len(a) + 1 /\ \A d \in Chain(s) : Len(d) = Len(a) + 1 => d = c
  BY <1>2, ChainAt
<1>4. c \in Seq(STRING)
  BY <1>3, ChainElements
<1>. HIDE DEF c
<1>5. Parent(c) \in Chain(c) /\ Len(Parent(c)) = Len(a)
  BY <1>1, <1>3, <1>4, ChainParent
<1>6. Parent(c) \in Chain(s)
  BY <1>3, <1>5, ChainTransitive
<1>7. Parent(c) = a
  BY <1>5, <1>6, ChainSameLength
<1>8. ASSUME NEW d \in Chain(s), Len(d) > 0, Parent(d) = a PROVE d = c
  <2>1. d \in Seq(STRING) /\ Len(d) \in Nat
    BY ChainLen
  <2>2. Len(d) = Len(a) + 1
    BY <1>8, <2>1, <1>1, ChainParent
  <2>. QED  BY <2>2, <1>3
<1>. QED  BY <1>3, <1>7, <1>8 DEF c

LEMMA PrefixIsAncestor ==
    ASSUME NEW s \in Seq(STRING), NEW a \in Seq(STRING)
    PROVE  IsPrefix(a, s) <=> a \in Chain(s)
<1>1. Len(a) \in Nat /\ Len(s) \in Nat
  BY LenProperties
<1>2. SubSeq(a, 1, Len(a)) = a
  BY <1>1, SubSeqFacts, SeqEqual
<1>3. ASSUME IsPrefix(a, s) PROVE a \in Chain(s)
  <2>1. Len(a) \in 0..Len(s) /\ a = SubSeq(s, 1, Len(a))
    BY <1>1, <1>2, <1>3 DEF IsPrefix
  <2>. QED  BY <2>1 DEF Chain, Prefixes
<1>4. ASSUME a \in Chain(s) PROVE IsPrefix(a, s)
  <2>1. Len(a) \in 0..Len(s)
    BY <1>1, <1>4, ChainLen
  <2>2. a = SubSeq(s, 1, Len(a))
    BY <1>4, <2>1, ChainAt
  <2>. QED  BY <2>1, <2>2, <1>2 DEF IsPrefix
<1>. QED  BY <1>3, <1>4

(* Among blocks, if there are any, there is a lowest.                        *)
LEMMA LowestExists ==
    ASSUME NEW S, S \subseteq Seq(STRING), S # {}
    PROVE  Lowest(S) \in S /\ \A c \in S : Len(Lowest(S)) <= Len(c)
<1>. DEFINE T == {Len(b) : b \in S}
<1>1. T \subseteq Nat /\ T # {}
  BY LenProperties
<1>2. PICK n \in T : \A m \in T : n <= m
  BY <1>1, LeastElement
<1>3. \E b \in S : \A c \in S : Len(b) <= Len(c)
  BY <1>2
<1>. QED  BY <1>3 DEF Lowest

LEMMA HighestExists ==
    ASSUME NEW s \in Seq(STRING), NEW S, S \subseteq Chain(s), S # {}
    PROVE  Highest(S) \in S /\ \A c \in S : Len(c) <= Len(Highest(S))
<1>. DEFINE T == {Len(s) - Len(b) : b \in S}
<1>1. T \subseteq Nat /\ T # {}
  BY ChainLen
<1>2. PICK n \in T : \A m \in T : n <= m
  BY <1>1, LeastElement
<1>3. PICK b \in S : n = Len(s) - Len(b)
  BY <1>2
<1>4. ASSUME NEW c \in S PROVE Len(c) <= Len(b)
  <2>1. n <= Len(s) - Len(c)
    BY <1>2
  <2>. QED  BY <2>1, <1>3, ChainLen
<1>. QED  BY <1>4 DEF Highest

-----------------------------------------------------------------------------
LEMMA NodeIsSeq == Node \subseteq Seq(STRING) /\ None \notin Node
<1>1. Genesis \in Seq(STRING) /\ Len(Genesis) = 0
  BY DEF Genesis
<1>2. Len(None) = 1
  BY DEF None
<1>3. None # Genesis
  BY <1>1, <1>2
<1>. QED  BY <1>1, <1>3, BlockAssumption DEF Node

(* The ancestors of a block are blocks, and have less work.                  *)
LEMMA AncestorsHaveLessWork ==
    ASSUME NEW b \in Node, NEW a \in Chain(b)
    PROVE  a \in Node /\ (a # b => Work[a] < Work[b])
<1>. DEFINE Good(c) == \A d \in Chain(c) : d \in Node /\ (d # c => Work[d] < Work[c])
            T == {Len(c) : c \in {d \in Node : ~Good(d)}}
<1>1. SUFFICES T = {}
  OBVIOUS
<1>2. SUFFICES ASSUME T # {} PROVE FALSE
  OBVIOUS
<1>3. T \subseteq Nat
  BY NodeIsSeq, LenProperties
<1>4. PICK n \in T : \A m \in T : n <= m
  BY <1>2, <1>3, LeastElement
<1>5. PICK c \in Node : ~Good(c) /\ Len(c) = n
  BY <1>4
<1>. DEFINE p == Parent(c)
<1>. c \in Seq(STRING)
  BY NodeIsSeq
<1>6. c # Genesis /\ Len(c) > 0
  <2>1. ASSUME Len(c) = 0 PROVE FALSE
    <3>1. ASSUME NEW d \in Chain(c) PROVE d = c
      <4>1. Len(d) \in Nat /\ Len(d) <= Len(c) /\ (d # c => Len(d) < Len(c))
        BY ChainLen
      <4>. QED  BY <2>1, <4>1
    <3>. QED  BY <3>1, <1>5
  <2>2. Len(c) \in Nat
    BY LenProperties
  <2>. QED  BY <2>1, <2>2 DEF Genesis
<1>7. p \in Node /\ Work[p] < Work[c]
  BY <1>6, BlockAssumption, WorkAssumption DEF Node
<1>8. Chain(c) = Chain(p) \cup {c} /\ Len(p) = Len(c) - 1
  BY <1>6, ChainParent
<1>9. Good(p)
  <2>1. ASSUME ~Good(p) PROVE FALSE
    <3>1. Len(p) \in T
      BY <2>1, <1>7
    <3>. QED  BY <3>1, <1>4, <1>5, <1>8, <1>3
  <2>. QED  BY <2>1
<1>10. ASSUME NEW d \in Chain(c) PROVE d \in Node /\ (d # c => Work[d] < Work[c])
  <2>1. CASE d = c
    BY <2>1
  <2>2. CASE d # c
    <3>1. d \in Chain(p)
      BY <2>2, <1>8
    <3>2. d \in Node /\ (d # p => Work[d] < Work[p])
      BY <3>1, <1>9
    <3>3. Work[d] \in Nat /\ Work[p] \in Nat /\ Work[c] \in Nat
      BY <3>2, <1>7, WorkAssumption DEF Node
    <3>. QED  BY <3>2, <3>3, <1>7
  <2>. QED  BY <2>1, <2>2
<1>. QED  BY <1>5, <1>10

LEMMA WorkType == \A b \in Node : Work[b] \in Nat
BY WorkAssumption DEF Node

-----------------------------------------------------------------------------
(* The invariant behind ChainShape.                                          *)
IndexInv ==
    /\ index \subseteq Node
    /\ \A b \in index : Chain(b) \subseteq index
    /\ sync \in index
    /\ orphans \subseteq Block \ index
    /\ pending \in Block \cup {None}

(* A failed block is not sound, a block that was best is: so no reason that  *)
(* they are apart is lost when the chain moves.                              *)
ChainInv ==
    /\ best \in index /\ saved \in index
    /\ pnext = [a \in Chain(best) \ {best} |-> SubSeq(best, 1, Len(a) + 1)]
    /\ failed \subseteq index
    /\ valid = index \ failed
    /\ \A b \in failed : ~Sound(b)
    /\ Sound(best) /\ Sound(saved)

ControlInv ==
    /\ pc \in {"idle", "connect", "attach", "accepted", "orphans", "down"}
    /\ block \in index \cup {None}
    /\ vAttach \subseteq index
    /\ pc = "attach" => vAttach # {}
    /\ vWorkQueue \subseteq index
    /\ pc = "accepted" => block # None

Inv == IndexInv /\ ChainInv /\ ControlInv

LEMMA IndexFacts ==
    ASSUME Inv, NEW b \in index
    PROVE  /\ b \in Seq(STRING) /\ b \in Node /\ Chain(b) \subseteq index
           /\ b \in Chain(b)
           /\ Sound(b) => Chain(b) \cap failed = {}
           /\ \A a \in Chain(b) : Sound(b) => Sound(a)
<1>1. b \in Seq(STRING) /\ b \in Node /\ Chain(b) \subseteq index
  BY NodeIsSeq DEF Inv, IndexInv
<1>2. ASSUME NEW a \in Chain(b), Sound(b) PROVE Sound(a)
  <2>1. Chain(a) \subseteq Chain(b)
    BY <1>1, ChainTransitive
  <2>. QED  BY <2>1, <1>2 DEF Sound
<1>. QED  BY <1>1, <1>2, ChainEnds DEF Inv, ChainInv

LEMMA ShapeFromInv == Inv => ChainShape
<1>1. ASSUME Inv PROVE failed \cap Chain(best) = {}
  BY <1>1, IndexFacts DEF Inv, ChainInv
<1>. QED  BY <1>1 DEF Inv, IndexInv, ChainInv, ControlInv, ChainShape, Node

(* A move of the best chain links exactly the new one, wherever the two      *)
(* chains fork.                                                              *)
LEMMA LinkedIsChain ==
    ASSUME Inv, NEW x \in index
    PROVE  Linked(x) = Chain(x) \ {x}
<1>. best \in index /\ best \in Seq(STRING) /\ x \in Seq(STRING)
  BY IndexFacts DEF Inv, ChainInv
<1>1. DOMAIN pnext = Chain(best) \ {best}
  BY DEF Inv, ChainInv
<1>2. \A s \in {x, best} : \A b \in Chain(s) :
         b \in Seq(STRING) /\ Len(b) \in Nat /\ Len(b) <= Len(s) /\ Len(s) \in Nat
  BY ChainLen
<1>3. \A b \in vConnect(x) \cup vDisconnect(x) : Len(b) > 0
  <2>1. \A s \in {x, best} : \A b \in Chain(s) : Len(b) = 0 => b = Genesis
    <3>1. Len(Genesis) = 0
      BY DEF Genesis
    <3>. QED  BY <3>1, ChainEnds, ChainSameLength
  <2>2. \A s \in {x, best} : Genesis \in Chain(s)
    BY ChainEnds
  <2>. QED  BY <2>1, <2>2, <1>2 DEF vConnect, vDisconnect
<1>4. ASSUME NEW a \in Linked(x) PROVE a \in Chain(x) \ {x}
  <2>1. CASE a \in DOMAIN pnext \ {Parent(b) : b \in vDisconnect(x)}
    <3>. DEFINE c == SubSeq(best, 1, Len(a) + 1)
    <3>1. c \in Chain(best) /\ Parent(c) = a /\ Len(c) = Len(a) + 1
      BY <1>1, <2>1, ChainNext
    <3>. HIDE DEF c
    <3>2. c \in Chain(x) /\ Len(a) <= Len(c)
      BY <2>1, <3>1, <1>1, <1>2 DEF vDisconnect
    <3>3. a \in Chain(c)
      BY <3>1, <3>2, <1>1, <2>1, ChainLinear
    <3>4. a \in Chain(x)
      BY <3>2, <3>3, ChainTransitive
    <3>. QED  BY <3>1, <3>2, <3>4, <1>2
  <2>2. CASE a \in {Parent(b) : b \in vConnect(x)}
    <3>1. PICK b \in vConnect(x) : a = Parent(b)
      BY <2>2
    <3>2. b \in Chain(x) /\ b \in Seq(STRING) /\ Len(b) > 0 /\ Len(b) \in Nat
      BY <1>2, <1>3 DEF vConnect
    <3>3. a \in Chain(b) /\ Len(a) = Len(b) - 1
      BY <3>1, <3>2, ChainParent
    <3>4. a \in Chain(x)
      BY <3>2, <3>3, ChainTransitive
    <3>. QED  BY <3>2, <3>3, <3>4, <1>2
  <2>. QED  BY <2>1, <2>2 DEF Linked
<1>5. ASSUME NEW a \in Chain(x) \ {x} PROVE a \in Linked(x)
  <2>. DEFINE c == SubSeq(x, 1, Len(a) + 1)
  <2>1. c \in Chain(x) /\ Parent(c) = a /\ Len(c) = Len(a) + 1
    BY ChainNext
  <2>. HIDE DEF c
  <2>2. CASE c \notin Chain(best)
    BY <2>1, <2>2 DEF Linked, vConnect
  <2>3. CASE c \in Chain(best)
    <3>1. c \in Seq(STRING) /\ Len(c) > 0 /\ Len(a) \in Nat
      BY <1>2, <2>1
    <3>2. a \in Chain(best)
      BY <2>1, <2>3, <3>1, ChainParent, ChainTransitive
    <3>3. a # best
      BY <2>1, <2>3, <1>2, <3>1
    <3>4. ASSUME NEW d \in vDisconnect(x), Parent(d) = a PROVE FALSE
      <4>1. d \in Chain(best) /\ d \notin Chain(x) /\ Len(d) > 0
        BY <1>3 DEF vDisconnect
      <4>2. d = SubSeq(best, 1, Len(a) + 1) /\ c = SubSeq(best, 1, Len(a) + 1)
        BY <2>1, <2>3, <3>1, <3>2, <3>3, <3>4, <4>1, ChainNext
      <4>. QED  BY <4>1, <4>2, <2>1
    <3>. QED  BY <1>1, <3>2, <3>3, <3>4 DEF Linked
  <2>. QED  BY <2>2, <2>3
<1>. QED  BY <1>4, <1>5

LEMMA SetBestChainMoves ==
    ASSUME Inv, NEW x \in index, SetBestChain(x)
    PROVE  pnext' = [a \in Chain(x) \ {x} |-> SubSeq(x, 1, Len(a) + 1)]
<1>. best \in index /\ best \in Seq(STRING) /\ x \in Seq(STRING)
  BY IndexFacts DEF Inv, ChainInv
<1>. DEFINE Link(a) == IF \E c \in vConnect(x) : Parent(c) = a
                       THEN CHOOSE c \in vConnect(x) : Parent(c) = a
                       ELSE pnext[a]
<1>1. pnext' = [a \in Linked(x) |-> Link(a)]
  BY DEF SetBestChain
<1>2. ASSUME NEW a \in Chain(x) \ {x} PROVE Link(a) = SubSeq(x, 1, Len(a) + 1)
  <2>. DEFINE c == SubSeq(x, 1, Len(a) + 1)
  <2>1. /\ c \in Chain(x) /\ Parent(c) = a /\ Len(c) = Len(a) + 1
        /\ \A d \in Chain(x) : Len(d) > 0 /\ Parent(d) = a => d = c
    BY ChainNext
  <2>2. a \in Seq(STRING) /\ Len(a) \in Nat
    BY ChainLen
  <2>. HIDE DEF c
  <2>3. \A d \in vConnect(x) : Len(d) > 0
    <3>1. ASSUME NEW d \in vConnect(x), Len(d) = 0 PROVE FALSE
      <4>1. Len(Genesis) = 0 /\ Genesis \in Chain(x) /\ Genesis \in Chain(best)
        BY ChainEnds DEF Genesis
      <4>2. d = Genesis
        BY <3>1, <4>1, ChainSameLength DEF vConnect
      <4>. QED  BY <4>1, <4>2 DEF vConnect
    <3>2. \A d \in vConnect(x) : Len(d) \in Nat
      BY ChainLen DEF vConnect
    <3>. QED  BY <3>1, <3>2
  <2>4. CASE \E d \in vConnect(x) : Parent(d) = a
    <3>1. \A d \in vConnect(x) : Parent(d) = a => d = c
      BY <2>1, <2>3 DEF vConnect
    <3>. QED  BY <2>4, <3>1 DEF c
  <2>5. CASE ~\E d \in vConnect(x) : Parent(d) = a
    <3>1. c \in Chain(best)
      BY <2>1, <2>5 DEF vConnect
    <3>2. c \in Seq(STRING) /\ Len(c) > 0
      BY <2>1, <2>2, ChainLen
    <3>3. a \in Chain(c)
      BY <2>1, <3>2, ChainParent
    <3>4. a \in Chain(best) /\ Len(c) <= Len(best) /\ Len(best) \in Nat
      BY <3>1, <3>3, ChainTransitive, ChainLen
    <3>5. a # best
      BY <3>4, <2>1, <2>2
    <3>6. pnext[a] = SubSeq(best, 1, Len(a) + 1)
      BY <3>4, <3>5 DEF Inv, ChainInv
    <3>7. c = SubSeq(best, 1, Len(a) + 1)
      BY <3>1, <3>4, <3>5, <2>1, ChainNext
    <3>. QED  BY <2>5, <3>6, <3>7 DEF c
  <2>. QED  BY <2>4, <2>5
<1>. HIDE DEF Link
<1>3. Linked(x) = Chain(x) \ {x}
  BY LinkedIsChain
<1>. QED  BY <1>1, <1>2, <1>3

-----------------------------------------------------------------------------
(* What the moves of the best chain and the failed marks preserve.           *)
LEMMA ConnectsIsSound ==
    ASSUME Inv, NEW x \in index
    PROVE  Connects(x) <=> Sound(x)
<1>1. Chain(best) \cap Bad = {}
  BY DEF Inv, ChainInv, Sound
<1>. QED  BY <1>1 DEF Connects, vConnect, Sound

LEMMA ChainMoved ==
    ASSUME Inv, NEW x \in index, Connects(x), SetBestChain(x), UNCHANGED <<Bad, index>>
    PROVE  ChainInv'
<1>1. Sound(x)
  BY ConnectsIsSound
<1>2. \A b : Sound(b)' <=> Sound(b)
  BY DEF Sound
<1>3. pnext' = [a \in Chain(x) \ {x} |-> SubSeq(x, 1, Len(a) + 1)]
  BY SetBestChainMoves
<1>4. best' = x /\ saved' \in {x, saved} /\ failed' = failed /\ valid' = valid
  BY DEF SetBestChain
<1>5. Sound(saved)'
  BY <1>1, <1>2, <1>4 DEF Inv, ChainInv, Sound
<1>6. (\A b \in failed : ~Sound(b))' /\ Sound(best)'
  BY <1>1, <1>2, <1>4 DEF Inv, ChainInv, Sound
<1>7. (pnext = [a \in Chain(best) \ {best} |-> SubSeq(best, 1, Len(a) + 1)])'
  BY <1>3, <1>4 DEF Chain
<1>8. (best \in index /\ saved \in index /\ failed \subseteq index /\ valid = index \ failed)'
  BY <1>4 DEF Inv, ChainInv
<1>. QED  BY <1>5, <1>6, <1>7, <1>8 DEF ChainInv

(* Failed marks on blocks that are known and unsound.                        *)
LEMMA ChainMarked ==
    ASSUME Inv, NEW F, F \subseteq index, \A b \in F : ~Sound(b),
           failed' = failed \cup F, valid' = valid \ F,
           UNCHANGED <<Bad, index, best, pnext, saved>>
    PROVE  ChainInv'
<1>1. \A b : Sound(b)' <=> Sound(b)
  BY DEF Sound
<1>2. Sound(best)' /\ Sound(saved)' /\ (\A b \in failed : ~Sound(b))'
  BY <1>1 DEF Inv, ChainInv, Sound
<1>3. (best \in index /\ saved \in index /\ failed \subseteq index /\ valid = index \ failed)'
  BY DEF Inv, ChainInv
<1>4. (pnext = [a \in Chain(best) \ {best} |-> SubSeq(best, 1, Len(a) + 1)])'
  BY DEF Inv, ChainInv, Chain
<1>. QED  BY <1>2, <1>3, <1>4 DEF ChainInv

LEMMA ChainRefused ==
    ASSUME Inv, NEW x \in index, ~Connects(x), SetBestChainFails(x),
           UNCHANGED <<Bad, index>>
    PROVE  /\ ChainInv'
           /\ best' = best /\ pnext' = pnext /\ saved' = saved
           /\ \E f \in Chain(x) : failed' = failed \cup {f}
<1>. DEFINE S == vConnect(x) \cap Bad
            f == Lowest(S)
<1>. x \in Seq(STRING)
  BY IndexFacts
<1>1. f \in S
  <2>1. S # {} /\ S \subseteq Seq(STRING)
    BY ChainLen DEF Connects, vConnect
  <2>. QED  BY <2>1, LowestExists
<1>2. f \in Chain(x) /\ f \in Bad
  BY <1>1 DEF vConnect
<1>3. f \in index /\ ~Sound(f)
  <2>1. f \in index
    BY <1>2, IndexFacts
  <2>. QED  BY <1>2, <2>1, IndexFacts DEF Sound
<1>4. /\ failed' = failed \cup {f} /\ valid' = valid \ {f}
      /\ best' = best /\ pnext' = pnext /\ saved' = saved
  BY DEF SetBestChainFails, InvalidBlockFound
<1>. HIDE DEF f
<1>5. ChainInv'
  <2>. DEFINE F == {f}
  <2>1. F \subseteq index /\ \A b \in F : ~Sound(b)
    BY <1>3
  <2>2. failed' = failed \cup F /\ valid' = valid \ F
    BY <1>4
  <2>3. UNCHANGED <<Bad, index, best, pnext, saved>>
    BY <1>4
  <2>. HIDE DEF F
  <2>. QED  BY <2>1, <2>2, <2>3, ChainMarked
<1>. QED  BY <1>2, <1>4, <1>5

LEMMA MarkFailedUnsound ==
    ASSUME Inv, NEW b \in index, Tested(b) \cap failed # {}
    PROVE  MarkFailed(b) \subseteq index /\ \A c \in MarkFailed(b) : ~Sound(c)
<1>. DEFINE S == Tested(b) \cap failed
            f == Highest(S)
<1>. b \in Seq(STRING)
  BY IndexFacts
<1>1. f \in S
  <2>1. S \subseteq Chain(b)
    BY DEF Tested
  <2>. QED  BY <2>1, HighestExists
<1>2. f \in Chain(b) /\ ~Sound(f)
  BY <1>1 DEF Tested, Inv, ChainInv
<1>3. MarkFailed(b) = {c \in Chain(b) : IsStrictPrefix(f, c)}
  BY DEF MarkFailed
<1>. HIDE DEF f
<1>4. ASSUME NEW c \in Chain(b), IsStrictPrefix(f, c) PROVE c \in index /\ ~Sound(c)
  <2>1. c \in index /\ c \in Seq(STRING) /\ f \in Seq(STRING)
    BY <1>2, IndexFacts, ChainLen
  <2>2. f \in Chain(c)
    BY <1>4, <2>1, PrefixIsAncestor DEF IsStrictPrefix
  <2>. QED  BY <1>2, <2>1, <2>2, IndexFacts
<1>. QED  BY <1>3, <1>4

(* The walk down from a candidate to the best chain misses nothing.          *)
LEMMA TestedReaches ==
    ASSUME Inv, NEW b \in index, NEW a \in Chain(b), a \notin Tested(b)
    PROVE  a \in Chain(best)
<1>. b \in Seq(STRING) /\ best \in Seq(STRING)
  BY IndexFacts DEF Inv, ChainInv
<1>1. PICK c \in Chain(b) : IsPrefix(a, c) /\ c \in DOMAIN pnext
  BY DEF Tested
<1>2. c \in Chain(best)
  BY <1>1 DEF Inv, ChainInv
<1>3. a \in Seq(STRING) /\ c \in Seq(STRING)
  BY ChainLen
<1>4. a \in Chain(c)
  BY <1>1, <1>3, PrefixIsAncestor
<1>. QED  BY <1>2, <1>4, ChainTransitive

(* The blocks that ConnectBestBlock switches to are those of the candidate's *)
(* chain that have more work than the best block, the candidate among them.  *)
LEMMA AttachTargets ==
    ASSUME Inv, NEW b \in Candidates, Attach(b)
    PROVE  /\ b \in index /\ b \in vAttach'
           /\ vAttach' \subseteq index
           /\ vAttach' = {a \in Chain(b) : Work[a] > Work[best]}
           /\ Chain(b) \cap failed = {}
           /\ Work[b] > Work[best]
<1>1. b \in index /\ best \in valid /\ best \in index
  BY IndexFacts DEF Inv, ChainInv, Candidates
<1>. b \in Seq(STRING) /\ best \in Seq(STRING) /\ b \in Node /\ best \in Node
  BY <1>1, IndexFacts
<1>2. Work[b] > Work[best]
  BY <1>1, WorkType DEF Candidates, Attach
<1>3. ASSUME NEW a \in Chain(b), a \notin Tested(b)
      PROVE  a \notin failed /\ ~(Work[a] > Work[best])
  <2>1. a \in Chain(best)
    BY <1>1, TestedReaches, <1>3
  <2>2. a \notin failed
    BY <1>1, <2>1, IndexFacts DEF Inv, ChainInv
  <2>3. a \in Node /\ (a # best => Work[a] < Work[best])
    BY <2>1, AncestorsHaveLessWork
  <2>. QED  BY <2>2, <2>3, WorkType
<1>4. vAttach' = {a \in Chain(b) : Work[a] > Work[best]}
  BY <1>3 DEF Attach, Tested
<1>5. Chain(b) \cap failed = {}
  BY <1>3 DEF Attach
<1>. QED  BY <1>1, <1>2, <1>4, <1>5, IndexFacts

-----------------------------------------------------------------------------
LEMMA InvInit == Init => Inv
<1>. SUFFICES ASSUME Init PROVE Inv
  OBVIOUS
<1>1. Genesis \in Node /\ Genesis \in Seq(STRING)
  BY NodeIsSeq DEF Node
<1>2. Chain(Genesis) = {Genesis}
  <2>1. ASSUME NEW a \in Chain(Genesis) PROVE a = Genesis
    <3>1. Len(a) \in Nat /\ Len(a) <= Len(Genesis) /\ Len(Genesis) = 0
      BY <1>1, ChainLen DEF Genesis
    <3>. QED  BY <1>1, <3>1, ChainEnds, ChainSameLength
  <2>. QED  BY <1>1, <2>1, ChainEnds
<1>3. Genesis \notin Bad
  <2>1. Genesis \notin Block
    <3>1. Len(Genesis) = 0
      BY DEF Genesis
    <3>. QED  BY <3>1, BlockAssumption
  <2>. QED  BY <2>1, BadAssumption DEF Init
<1>4. IndexInv
  <2>1. Genesis \notin Block
    <3>1. Len(Genesis) = 0
      BY DEF Genesis
    <3>. QED  BY <3>1, BlockAssumption
  <2>. QED  BY <1>1, <1>2, <2>1 DEF Init, IndexInv
<1>5. Sound(Genesis)
  BY <1>2, <1>3 DEF Sound
<1>6. pnext = [a \in Chain(best) \ {best} |-> SubSeq(best, 1, Len(a) + 1)]
  <2>1. Chain(best) \ {best} = {}
    BY <1>2 DEF Init
  <2>. QED  BY <2>1 DEF Init
<1>7. ChainInv
  BY <1>5, <1>6 DEF Init, ChainInv
<1>8. ControlInv
  BY DEF Init, ControlInv
<1>. QED  BY <1>4, <1>7, <1>8 DEF Inv

(* A block whose parent is known enters the index.                           *)
LEMMA AcceptKeeps ==
    ASSUME Inv, NEW b \in Block, b \notin index, Parent(b) \in index, AcceptBlock(b),
           orphans' \subseteq orphans \ {b},
           UNCHANGED <<Bad, sync, pending, vWorkQueue>>
    PROVE  Inv'
<1>. b \in Seq(STRING) /\ b \in Node /\ b \in index'
  BY NodeIsSeq DEF Node, AcceptBlock
<1>1. Chain(b) = Chain(Parent(b)) \cup {b}
  BY BlockAssumption, ChainParent
<1>2. index' = index \cup {b} /\ valid' = valid \cup {b} /\ block' = b
      /\ UNCHANGED <<failed, best, pnext, saved, vAttach>> /\ pc' = "connect"
  BY DEF AcceptBlock
<1>3. Chain(Parent(b)) \subseteq index
  BY DEF Inv, IndexInv
<1>4. (\A c \in index : Chain(c) \subseteq index)'
  BY <1>1, <1>2, <1>3 DEF Inv, IndexInv, Chain
<1>5. IndexInv'
  BY <1>2, <1>4 DEF Inv, IndexInv
<1>6. \A c : Sound(c)' <=> Sound(c)
  BY DEF Sound
<1>7. (pnext = [a \in Chain(best) \ {best} |-> SubSeq(best, 1, Len(a) + 1)])'
  BY <1>2 DEF Inv, ChainInv, Chain
<1>8. Sound(best)' /\ Sound(saved)' /\ (\A c \in failed : ~Sound(c))'
  BY <1>2, <1>6 DEF Inv, ChainInv, Sound
<1>9. ChainInv'
  BY <1>2, <1>7, <1>8 DEF Inv, ChainInv
<1>10. ControlInv'
  BY <1>2 DEF Inv, ControlInv
<1>. QED  BY <1>5, <1>9, <1>10 DEF Inv

LEMMA ChainUnchanged ==
    ASSUME Inv, UNCHANGED <<Bad, chain, index>>
    PROVE  ChainInv'
<1>1. ChainInv
  BY DEF Inv
<1>. QED  BY <1>1 DEF ChainInv, Sound, Chain, chain

LEMMA IndexUnchanged ==
    ASSUME Inv, UNCHANGED index, sync' \in index, pending' \in Block \cup {None},
           orphans' \subseteq Block \ index
    PROVE  IndexInv'
BY DEF Inv, IndexInv, Chain

(* A checkpoint whose block is known keeps the invariant.                    *)
LEMMA TakeKeeps ==
    ASSUME Inv, NEW h \in index, TakeCheckpoint(h), UNCHANGED <<Bad, index>>
    PROVE  ChainInv' /\ sync' \in index /\ pending' \in Block \cup {None}
<1>1. CASE sync' = h /\ pending' = None /\ UNCHANGED chain
  BY <1>1, ChainUnchanged
<1>2. CASE Connects(h) /\ SetBestChain(h) /\ sync' = h /\ pending' = None
  BY <1>2, ChainMoved
<1>3. CASE ~Connects(h) /\ SetBestChainFails(h) /\ UNCHANGED checkpoint
  <2>1. sync' = sync /\ pending' = pending
    BY <1>3 DEF checkpoint
  <2>. QED  BY <1>3, <2>1, ChainRefused DEF Inv, IndexInv
<1>. QED  BY <1>1, <1>2, <1>3 DEF TakeCheckpoint

LEMMA InvNext == Inv /\ [Next]_vars => Inv'
<1>. SUFFICES ASSUME Inv, [Next]_vars PROVE Inv'
  OBVIOUS
<1>. USE DEF config, checkpoint, control
<1>1. CASE ConnectBestBlock
  <2>1. PICK b \in Candidates : NothingToDo(b) \/ FailedAncestor(b) \/ Attach(b)
    BY <1>1 DEF ConnectBestBlock
  <2>2. UNCHANGED <<Bad, index, orphans, sync, pending>>
    BY <1>1 DEF ConnectBestBlock
  <2>3. b \in index /\ pc = "connect"
    BY <1>1 DEF ConnectBestBlock, Candidates, Inv, ChainInv
  <2>4. IndexInv'
    BY <2>2, IndexUnchanged DEF Inv, IndexInv
  <2>5. CASE NothingToDo(b)
    <3>1. ChainInv'
      BY <2>2, <2>5, ChainUnchanged DEF NothingToDo
    <3>2. ControlInv'
      BY <2>2, <2>5 DEF NothingToDo, Inv, ControlInv
    <3>. QED  BY <2>4, <3>1, <3>2 DEF Inv
  <2>6. CASE FailedAncestor(b)
    <3>1. MarkFailed(b) \subseteq index /\ \A c \in MarkFailed(b) : ~Sound(c)
      BY <2>3, <2>6, MarkFailedUnsound DEF FailedAncestor
    <3>2. ChainInv'
      BY <2>2, <2>6, <3>1, ChainMarked DEF FailedAncestor
    <3>3. ControlInv'
      BY <2>2, <2>6 DEF FailedAncestor, Inv, ControlInv
    <3>. QED  BY <2>4, <3>2, <3>3 DEF Inv
  <2>7. CASE Attach(b)
    <3>1. b \in vAttach' /\ vAttach' \subseteq index
      BY <2>7, AttachTargets
    <3>2. ChainInv'
      BY <2>2, <2>7, ChainUnchanged DEF Attach
    <3>3. ControlInv'
      BY <2>2, <2>7, <3>1 DEF Attach, Inv, ControlInv
    <3>. QED  BY <2>4, <3>2, <3>3 DEF Inv
  <2>. QED  BY <2>1, <2>5, <2>6, <2>7
<1>2. CASE Switch
  <2>. DEFINE x == Lowest(vAttach)
  <2>1. x \in vAttach /\ x \in index
    BY <1>2, LowestExists, IndexFacts DEF Switch, Inv, ControlInv
  <2>2. /\ Connects(x) /\ SetBestChain(x) /\ vAttach' = vAttach \ {x}
        /\ pc' = IF vAttach' # {} THEN "attach" ELSE IF block = None THEN "idle" ELSE "accepted"
        /\ UNCHANGED <<Bad, index, orphans, sync, pending, block, vWorkQueue>>
    BY <1>2 DEF Switch
  <2>. HIDE DEF x
  <2>3. ChainInv'
    BY <2>1, <2>2, ChainMoved
  <2>4. IndexInv'
    BY <2>2, IndexUnchanged DEF Inv, IndexInv
  <2>5. ControlInv'
    BY <2>2 DEF Inv, ControlInv
  <2>. QED  BY <2>3, <2>4, <2>5 DEF Inv
<1>3. CASE SwitchFails
  <2>. DEFINE x == Lowest(vAttach)
  <2>1. x \in vAttach /\ x \in index
    BY <1>3, LowestExists, IndexFacts DEF SwitchFails, Inv, ControlInv
  <2>2. /\ ~Connects(x) /\ SetBestChainFails(x) /\ vAttach' = {}
        /\ pc' \in {"down", "idle", "orphans"}
        /\ UNCHANGED <<Bad, index, orphans, sync, pending, block, vWorkQueue>>
    BY <1>3 DEF SwitchFails
  <2>. HIDE DEF x
  <2>3. ChainInv'
    BY <2>1, <2>2, ChainRefused
  <2>4. IndexInv'
    BY <2>2, IndexUnchanged DEF Inv, IndexInv
  <2>5. ControlInv'
    BY <2>2 DEF Inv, ControlInv
  <2>. QED  BY <2>3, <2>4, <2>5 DEF Inv
<1>4. CASE BlockAccepted
  <2>1. /\ AcceptPendingSyncCheckpoint /\ vWorkQueue' = vWorkQueue \cup {block}
        /\ pc = "accepted" /\ pc' = "orphans"
        /\ UNCHANGED <<Bad, index, orphans, block, vAttach>>
    BY <1>4 DEF BlockAccepted, Queued
  <2>2. ChainInv' /\ sync' \in index /\ pending' \in Block \cup {None}
    <3>1. CASE UNCHANGED <<chain, sync>> /\ pending' \in {pending, None}
      BY <2>1, <3>1, ChainUnchanged DEF Inv, IndexInv
    <3>2. CASE pending \in index /\ TakeCheckpoint(pending)
      BY <2>1, <3>2, TakeKeeps
    <3>. QED  BY <2>1, <3>1, <3>2 DEF AcceptPendingSyncCheckpoint
  <2>3. IndexInv'
    BY <2>1, <2>2, IndexUnchanged DEF Inv, IndexInv
  <2>4. ControlInv'
    BY <2>1 DEF Inv, ControlInv
  <2>. QED  BY <2>2, <2>3, <2>4 DEF Inv
<1>5. ASSUME NEW b \in Block, ProcessOrphan(b) PROVE Inv'
  <2>1. b \in orphans /\ Parent(b) \in vWorkQueue /\ orphans' = orphans \ {b}
        /\ UNCHANGED <<Bad, sync, pending, vWorkQueue>> /\ pc = "orphans"
    BY <1>5 DEF ProcessOrphan, Waiting
  <2>2. CASE AcceptBlock(b)
    <3>1. b \notin index /\ Parent(b) \in index
      BY <2>1 DEF Inv, IndexInv, ControlInv
    <3>. QED  BY <2>1, <2>2, <3>1, AcceptKeeps
  <2>3. CASE UNCHANGED <<index, chain, pc, block, vAttach>>
    <3>1. ChainInv'
      BY <2>1, <2>3, ChainUnchanged
    <3>2. IndexInv'
      BY <2>1, <2>3, IndexUnchanged DEF Inv, IndexInv
    <3>3. ControlInv'
      BY <2>1, <2>3 DEF Inv, ControlInv
    <3>. QED  BY <3>1, <3>2, <3>3 DEF Inv
  <2>. QED  BY <1>5, <2>2, <2>3 DEF ProcessOrphan
<1>6. CASE OrphansDone
  <2>1. UNCHANGED <<Bad, index, chain, orphans, sync, pending, block, vAttach>>
        /\ vWorkQueue' = {} /\ pc' = "idle"
    BY <1>6 DEF OrphansDone
  <2>2. ChainInv'
    BY <2>1, ChainUnchanged
  <2>3. IndexInv'
    BY <2>1, IndexUnchanged DEF Inv, IndexInv
  <2>4. ControlInv'
    BY <2>1 DEF Inv, ControlInv
  <2>. QED  BY <2>2, <2>3, <2>4 DEF Inv
<1>7. ASSUME NEW b \in Block, ProcessBlock(b) PROVE Inv'
  <2>1. b \notin index \cup orphans /\ Parent(b) \in index /\ AcceptBlock(b)
        /\ UNCHANGED <<Bad, orphans, sync, pending, vWorkQueue>>
    BY <1>7 DEF ProcessBlock
  <2>. QED  BY <2>1, AcceptKeeps
<1>8. ASSUME NEW b \in Block, OrphanBlock(b) PROVE Inv'
  <2>1. b \notin index /\ orphans' = orphans \cup {b}
        /\ UNCHANGED <<Bad, index, chain, sync, pending, pc, block, vAttach, vWorkQueue>>
    BY <1>8 DEF OrphanBlock
  <2>2. ChainInv'
    BY <2>1, ChainUnchanged
  <2>3. IndexInv'
    BY <2>1, IndexUnchanged DEF Inv, IndexInv
  <2>4. ControlInv'
    BY <2>1 DEF Inv, ControlInv
  <2>. QED  BY <2>2, <2>3, <2>4 DEF Inv
<1>9. ASSUME NEW h \in Block, ProcessSyncCheckpoint(h) PROVE Inv'
  <2>1. UNCHANGED <<Bad, index, orphans, pc, block, vAttach, vWorkQueue>>
    BY <1>9 DEF ProcessSyncCheckpoint
  <2>2. ChainInv' /\ sync' \in index /\ pending' \in Block \cup {None}
    <3>1. CASE pending' = h /\ UNCHANGED <<chain, sync>>
      BY <2>1, <3>1, ChainUnchanged DEF Inv, IndexInv
    <3>2. CASE h \in index /\ TakeCheckpoint(h)
      BY <2>1, <3>2, TakeKeeps
    <3>. QED  BY <1>9, <3>1, <3>2 DEF ProcessSyncCheckpoint
  <2>3. IndexInv'
    BY <2>1, <2>2, IndexUnchanged DEF Inv, IndexInv
  <2>4. ControlInv'
    BY <2>1 DEF Inv, ControlInv
  <2>. QED  BY <2>2, <2>3, <2>4 DEF Inv
<1>10. CASE EnforceCheckpoint
  <2>1. UNCHANGED <<Bad, index, chain, orphans, sync, pending, pc, block, vAttach, vWorkQueue>>
    BY <1>10 DEF EnforceCheckpoint
  <2>2. ChainInv'
    BY <2>1, ChainUnchanged
  <2>. QED  BY <2>1, <2>2 DEF Inv, IndexInv, ControlInv, Chain
<1>11. CASE Restart
  <2>1. PICK b \in {saved, best} :
           /\ best' = b /\ saved' = b
           /\ pnext' = [a \in Chain(b) \ {b} |-> SubSeq(b, 1, Len(a) + 1)]
    BY <1>11 DEF Restart
  <2>2. /\ UNCHANGED <<Bad, index, failed, sync>> /\ valid' = index \ failed
        /\ orphans' = {} /\ pending' = None /\ pc' = "connect" /\ block' = None
        /\ vAttach' = {} /\ vWorkQueue' = {}
    BY <1>11 DEF Restart
  <2>3. b \in index /\ Sound(b)
    BY DEF Inv, ChainInv
  <2>4. ChainInv'
    <3>1. (pnext = [a \in Chain(best) \ {best} |-> SubSeq(best, 1, Len(a) + 1)])'
      BY <2>1 DEF Chain
    <3>. QED  BY <2>1, <2>2, <2>3, <3>1 DEF Inv, ChainInv, Sound, Chain
  <2>5. IndexInv'
    BY <2>2, IndexUnchanged DEF Inv, IndexInv
  <2>6. ControlInv'
    BY <2>2 DEF ControlInv
  <2>. QED  BY <2>4, <2>5, <2>6 DEF Inv
<1>12. CASE UNCHANGED vars
  <2>1. ChainInv'
    BY <1>12, ChainUnchanged DEF vars
  <2>. QED  BY <1>12, <2>1 DEF Inv, IndexInv, ControlInv, Chain, vars, chain
<1>. QED
  BY <1>1, <1>2, <1>3, <1>4, <1>5, <1>6, <1>7, <1>8, <1>9, <1>10, <1>11, <1>12
     DEF Next, Proceed

(* The invariant holds in every state.                                       *)
THEOREM InvAlways == Spec => []Inv
BY InvInit, InvNext, PTL DEF Spec

(* The best chain is always linked, and by pnext alone: over moves to a      *)
(* chain that forks anywhere, refused ones, and restarts with coins of any   *)
(* age, no failed block is on it or among the candidates.                    *)
THEOREM ChainShapeHolds == Spec => []ChainShape
BY InvAlways, ShapeFromInv, PTL

-----------------------------------------------------------------------------
(* The checkpoint.                                                           *)
LEMMA TakeAdvances ==
    ASSUME Inv, NEW h \in index, ValidateSyncCheckpoint(h), TakeCheckpoint(h)
    PROVE  IsPrefix(sync, sync')
<1>1. sync \in Seq(STRING) /\ h \in Seq(STRING)
  BY IndexFacts DEF Inv, IndexInv
<1>2. Len(sync) \in Nat /\ Len(h) \in Nat /\ Len(sync) <= Len(h)
  BY <1>1, LenProperties DEF ValidateSyncCheckpoint
<1>3. sync \in Chain(h)
  <2>1. Len(sync) \in 0..Len(h) /\ sync = SubSeq(h, 1, Len(sync))
    BY <1>2 DEF ValidateSyncCheckpoint
  <2>. QED  BY <2>1 DEF Chain, Prefixes
<1>4. sync' \in {h, sync}
  BY DEF TakeCheckpoint, checkpoint
<1>. QED  BY <1>1, <1>3, <1>4, PrefixIsAncestor, ChainEnds

LEMMA CheckedIsDescendant ==
    ASSUME Inv, NEW b \in Block, b \notin index, CheckSyncCheckpoint(b)
    PROVE  IsPrefix(sync, b)
<1>1. sync \in Seq(STRING) /\ b \in Seq(STRING) /\ Len(b) > 0
  BY IndexFacts, BlockAssumption DEF Inv, IndexInv
<1>2. Len(sync) \in Nat /\ Len(b) \in Nat
  BY <1>1, LenProperties
<1>3. CASE Len(b) > Len(sync)
  <2>1. Parent(b) \in Seq(STRING) /\ Parent(b) \in Chain(b) /\ Len(Parent(b)) = Len(b) - 1
    BY <1>1, ChainParent
  <2>2. SubSeq(Parent(b), 1, Len(sync)) = sync
    BY <1>3 DEF CheckSyncCheckpoint
  <2>3. Len(sync) \in 0..Len(Parent(b))
    BY <2>1, <1>2, <1>3
  <2>4. sync \in Chain(Parent(b))
    BY <2>2, <2>3 DEF Chain, Prefixes
  <2>. QED  BY <1>1, <2>1, <2>4, ChainTransitive, PrefixIsAncestor
<1>4. CASE Len(b) = Len(sync)
  <2>1. b = sync
    BY <1>4, <1>2 DEF CheckSyncCheckpoint
  <2>. QED  BY <1>1, <2>1, ChainEnds, PrefixIsAncestor
<1>5. CASE Len(b) < Len(sync)
  BY <1>5, <1>2 DEF CheckSyncCheckpoint
<1>. QED  BY <1>2, <1>3, <1>4, <1>5

LEMMA CheckpointStep ==
    Inv /\ [Next]_vars =>
        /\ IsPrefix(sync, sync')
        /\ enforced => \A b \in index' \ index : IsPrefix(sync, b)
<1>. SUFFICES ASSUME Inv, [Next]_vars
              PROVE  /\ IsPrefix(sync, sync')
                     /\ enforced => \A b \in index' \ index : IsPrefix(sync, b)
  OBVIOUS
<1>1. sync' = sync => IsPrefix(sync, sync')
  BY IndexFacts, PrefixIsAncestor, ChainEnds DEF Inv, IndexInv
<1>. USE DEF config, checkpoint, control
<1>2. ASSUME NEW b \in Block, ProcessBlock(b) \/ ProcessOrphan(b)
      PROVE  sync' = sync /\ (enforced => \A c \in index' \ index : IsPrefix(sync, c))
  <2>1. sync' = sync /\ (AcceptBlock(b) \/ index' = index)
    BY <1>2 DEF ProcessBlock, ProcessOrphan
  <2>2. b \notin index
    BY <1>2 DEF ProcessBlock, ProcessOrphan, Waiting, Inv, IndexInv
  <2>. QED  BY <2>1, <2>2, CheckedIsDescendant DEF AcceptBlock
<1>3. CASE BlockAccepted
  <2>1. index' = index
    BY <1>3 DEF BlockAccepted
  <2>2. IsPrefix(sync, sync')
    BY <1>1, <1>3, TakeAdvances DEF BlockAccepted, AcceptPendingSyncCheckpoint
  <2>. QED  BY <2>1, <2>2
<1>4. ASSUME NEW h \in Block, ProcessSyncCheckpoint(h)
      PROVE  index' = index /\ IsPrefix(sync, sync')
  BY <1>1, <1>4, TakeAdvances DEF ProcessSyncCheckpoint
<1>5. CASE ConnectBestBlock \/ Switch \/ SwitchFails \/ OrphansDone \/ EnforceCheckpoint
           \/ Restart \/ (\E b \in Block : OrphanBlock(b)) \/ UNCHANGED vars
  <2>1. index' = index /\ sync' = sync
    BY <1>5 DEF ConnectBestBlock, Switch, SwitchFails, OrphansDone, EnforceCheckpoint,
                Restart, OrphanBlock, vars
  <2>. QED  BY <2>1, <1>1
<1>. QED  BY <1>1, <1>2, <1>3, <1>4, <1>5 DEF Next, Proceed

(* The synchronized checkpoint never goes back nor sideways, whatever order  *)
(* blocks and messages come in; while it is enforced, only its descendants   *)
(* enter the index, from the network or from the orphans.                    *)
THEOREM CheckpointOnlyAdvances == Spec => CheckpointAdvances
<1>1. Inv /\ [Next]_vars =>
        [/\ IsPrefix(sync, sync')
         /\ enforced => \A b \in index' \ index : IsPrefix(sync, b)]_vars
  BY CheckpointStep
<1>. QED  BY <1>1, InvAlways, PTL DEF Spec, CheckpointAdvances

-----------------------------------------------------------------------------
(* The most work.  Open are the blocks that ConnectBestBlock would switch to *)
(* now: with more work, and nothing on their chain known to be bad.  Between *)
(* two messages there are none.  Until the switch to a new block is over it  *)
(* is the only one, so that a switch that fails, which ends the search,      *)
(* leaves none behind.                                                       *)
Open == {b \in index : Chain(b) \cap failed = {} /\ Work[b] > Work[best]}

Target(t) ==
    /\ t \in index
    /\ Chain(t) \cap failed = {}
    /\ vAttach = {a \in Chain(t) : Work[a] > Work[best]}
    /\ \A b \in Open : Work[b] <= Work[t]
    /\ block # None => t = block

OpenInv ==
    /\ pc \in {"idle", "accepted", "orphans"} => Open = {}
    /\ pc \in {"connect", "attach"} /\ block # None => Open \subseteq {block}
    /\ pc = "attach" => \E t : Target(t)

WorkInv == ~forced => OpenInv

LEMMA MostWorkFromInv == Inv /\ WorkInv => MostWork
<1>. SUFFICES ASSUME Inv, WorkInv, pc = "idle", ~forced, NEW b \in index, Sound(b)
              PROVE  Work[b] <= Work[best]
  BY DEF MostWork
<1>1. Chain(b) \cap failed = {} /\ b \in Node /\ best \in Node
  BY IndexFacts DEF Inv, ChainInv
<1>2. ~(Work[b] > Work[best])
  BY <1>1 DEF WorkInv, OpenInv, Open
<1>. QED  BY <1>1, <1>2, WorkType

LEMMA OpenUnchanged ==
    ASSUME UNCHANGED <<index, failed, best>>
    PROVE  Open' = Open
BY DEF Open, Chain

LEMMA WorkInit == Init => WorkInv
<1>. SUFFICES ASSUME Init PROVE OpenInv
  BY DEF WorkInv
<1>1. Genesis \in Node
  BY DEF Node
<1>2. ~(Work[Genesis] > Work[Genesis])
  BY <1>1, WorkType
<1>. QED  BY <1>2 DEF Init, OpenInv, Open

(* One switch: to the lowest of the blocks that are left, and these are the  *)
(* ones with more work than it.                                              *)
LEMMA SwitchTargets ==
    ASSUME Inv, Switch, NEW t \in index, vAttach = {a \in Chain(t) : Work[a] > Work[best]}
    PROVE  /\ best' \in Chain(t) /\ Work[best'] > Work[best]
           /\ vAttach' = {a \in Chain(t) : Work[a] > Work[best']}
<1>. DEFINE x == Lowest(vAttach)
<1>1. x \in vAttach /\ x \in index /\ \A c \in vAttach : Len(x) <= Len(c)
  BY LowestExists, IndexFacts DEF Switch, Inv, ControlInv
<1>2. vAttach' = vAttach \ {x} /\ best' = x
  BY DEF Switch, SetBestChain
<1>. HIDE DEF x
<1>. t \in Node /\ t \in Seq(STRING) /\ best \in Node /\ x \in Node
  BY <1>1, IndexFacts DEF Inv, ChainInv
<1>3. x \in Chain(t) /\ Work[x] > Work[best]
  BY <1>1
<1>4. Work[x] \in Nat /\ Work[best] \in Nat
  BY WorkType
<1>5. ASSUME NEW a \in Chain(t), Work[a] > Work[x] PROVE a \in vAttach \ {x}
  <2>1. Work[a] \in Nat
    BY AncestorsHaveLessWork, WorkType
  <2>. QED  BY <1>3, <1>4, <1>5, <2>1
<1>6. ASSUME NEW a \in vAttach, a # x PROVE a \in Chain(t) /\ Work[a] > Work[x]
  <2>1. a \in Chain(t) /\ Len(x) <= Len(a)
    BY <1>1
  <2>2. a \in Node /\ x \in Chain(a)
    BY <1>3, <2>1, ChainLinear, AncestorsHaveLessWork
  <2>3. Work[x] < Work[a]
    BY <1>6, <2>2, AncestorsHaveLessWork
  <2>. QED  BY <2>1, <2>2, <2>3, <1>4, WorkType
<1>. QED  BY <1>2, <1>3, <1>5, <1>6

(* One switch of a chain to its next block.                                  *)
LEMMA WorkSwitch ==
    ASSUME Inv, Switch, OpenInv
    PROVE  OpenInv'
<1>. DEFINE x == Lowest(vAttach)
<1>1. x \in vAttach /\ x \in index /\ \A c \in vAttach : Len(x) <= Len(c)
  BY LowestExists, IndexFacts DEF Switch, Inv, ControlInv
<1>2. /\ vAttach' = vAttach \ {x} /\ best' = x /\ failed' = failed /\ pc = "attach"
      /\ pc' = IF vAttach' # {} THEN "attach" ELSE IF block = None THEN "idle" ELSE "accepted"
      /\ UNCHANGED <<Bad, index, block>>
  BY DEF Switch, SetBestChain, config
<1>. HIDE DEF x
<1>3. PICK t : Target(t)
  BY <1>2 DEF OpenInv
<1>. t \in index /\ t \in Node /\ t \in Seq(STRING) /\ best \in Node /\ x \in Node
  BY <1>1, <1>3, IndexFacts DEF Target, Inv, ChainInv
<1>4. x \in Chain(t) /\ Work[x] > Work[best]
  BY <1>1, <1>3 DEF Target
<1>5. \A b \in index : Work[b] \in Nat
  BY IndexFacts, WorkType
<1>6. Work[x] \in Nat /\ Work[best] \in Nat /\ Work[t] \in Nat
  BY WorkType
<1>7. Open' \subseteq Open
  BY <1>2, <1>4, <1>5, <1>6 DEF Open, Chain
<1>8. vAttach' = {a \in Chain(t) : Work[a] > Work[x]}
  BY <1>2, <1>3, SwitchTargets DEF Target
<1>9. ASSUME vAttach' = {} PROVE Open' = {}
  <2>1. x = t
    <3>1. ~(Work[t] > Work[x])
      BY <1>8, <1>9, ChainEnds
    <3>2. x # t => Work[x] < Work[t]
      BY <1>4, AncestorsHaveLessWork
    <3>. QED  BY <3>1, <3>2, <1>6
  <2>2. ASSUME NEW b \in Open' PROVE FALSE
    <3>1. b \in Open /\ b \in index
      BY <2>2, <1>7 DEF Open
    <3>2. Work[b] <= Work[t]
      BY <3>1, <1>3 DEF Target
    <3>3. Work[b] > Work[t]
      BY <2>1, <2>2, <1>2 DEF Open
    <3>. QED  BY <3>1, <3>2, <3>3, <1>5, <1>6
  <2>. QED  BY <2>2
<1>10. Target(t)'
  <2>1. (vAttach = {a \in Chain(t) : Work[a] > Work[best]})'
    BY <1>2, <1>8 DEF Chain
  <2>2. (\A b \in Open : Work[b] <= Work[t])'
    BY <1>3, <1>7 DEF Target
  <2>3. (Chain(t) \cap failed = {})'
    BY <1>2, <1>3 DEF Target, Chain
  <2>. QED  BY <1>2, <1>3, <2>1, <2>2, <2>3 DEF Target
<1>11. block' # None => Open' \subseteq {block'}
  BY <1>2, <1>7 DEF OpenInv
<1>. QED  BY <1>2, <1>9, <1>10, <1>11 DEF OpenInv

(* The switch fails at a block of the target's chain, which is then failed.  *)
LEMMA WorkSwitchFails ==
    ASSUME Inv, SwitchFails, OpenInv
    PROVE  OpenInv'
<1>. DEFINE x == Lowest(vAttach)
<1>1. x \in vAttach /\ x \in index
  BY LowestExists, IndexFacts DEF SwitchFails, Inv, ControlInv
<1>2. /\ ~Connects(x) /\ SetBestChainFails(x) /\ pc = "attach"
      /\ pc' \in {"down", "idle", "orphans"}
      /\ block = None => pc' = "down"
      /\ UNCHANGED <<Bad, index, block>>
  BY DEF SwitchFails, config
<1>. HIDE DEF x
<1>3. PICK t : Target(t)
  BY <1>2 DEF OpenInv
<1>. t \in index /\ t \in Seq(STRING)
  BY <1>3, IndexFacts DEF Target
<1>4. best' = best
  BY <1>1, <1>2, ChainRefused
<1>5. PICK f \in Chain(x) : failed' = failed \cup {f}
  BY <1>1, <1>2, ChainRefused
<1>6. f \in Chain(t)
  <2>1. x \in Chain(t)
    BY <1>1, <1>3 DEF Target
  <2>. QED  BY <2>1, ChainTransitive
<1>7. Open' \subseteq Open \ {t}
  BY <1>2, <1>4, <1>5, <1>6 DEF Open, Chain
<1>8. block # None => Open' = {}
  BY <1>2, <1>3, <1>7 DEF OpenInv, Target
<1>. QED  BY <1>2, <1>8 DEF OpenInv

LEMMA WorkConnect ==
    ASSUME Inv, ConnectBestBlock, OpenInv
    PROVE  OpenInv'
<1>1. PICK b \in Candidates : NothingToDo(b) \/ FailedAncestor(b) \/ Attach(b)
  BY DEF ConnectBestBlock
<1>2. UNCHANGED <<Bad, index>> /\ pc = "connect"
  BY DEF ConnectBestBlock, config
<1>3. b \in index /\ best \in index /\ \A c \in index : Work[c] \in Nat
  BY IndexFacts, WorkType DEF Candidates, Inv, ChainInv
<1>4. \A c \in Open : c \in index /\ Work[c] <= Work[b]
  BY IndexFacts DEF Open, Inv, ChainInv, Candidates
<1>5. CASE NothingToDo(b)
  <2>1. Open = {}
    BY <1>3, <1>4, <1>5 DEF NothingToDo, Open
  <2>2. Open' = Open /\ pc' \in {"idle", "accepted"}
    BY <1>2, <1>5, OpenUnchanged DEF NothingToDo, chain
  <2>. QED  BY <2>1, <2>2 DEF OpenInv
<1>6. CASE FailedAncestor(b)
  <2>1. Open' \subseteq Open
    BY <1>2, <1>6 DEF FailedAncestor, Open, Chain
  <2>2. pc' = pc /\ block' = block
    BY <1>6 DEF FailedAncestor, control
  <2>. QED  BY <1>2, <2>1, <2>2 DEF OpenInv
<1>7. CASE Attach(b)
  <2>1. /\ vAttach' = {a \in Chain(b) : Work[a] > Work[best]}
        /\ Chain(b) \cap failed = {} /\ Work[b] > Work[best]
    BY <1>7, AttachTargets
  <2>2. Open' = Open
    BY <1>2, <1>7, OpenUnchanged DEF Attach, chain
  <2>3. UNCHANGED <<failed, best, block>> /\ pc' = "attach"
    BY <1>7 DEF Attach, chain
  <2>4. b \in Open
    BY <1>3, <2>1 DEF Open
  <2>5. block # None => b = block
    BY <1>2, <2>4 DEF OpenInv
  <2>6. Target(b)'
    <3>1. (vAttach = {a \in Chain(b) : Work[a] > Work[best]})' /\ (Chain(b) \cap failed = {})'
      BY <2>1, <2>3 DEF Chain
    <3>2. (\A c \in Open : Work[c] <= Work[b])'
      BY <1>4, <2>2
    <3>. QED  BY <1>2, <1>3, <2>3, <2>5, <3>1, <3>2 DEF Target
  <2>. QED  BY <1>2, <2>2, <2>3, <2>6 DEF OpenInv
<1>. QED  BY <1>1, <1>5, <1>6, <1>7

LEMMA WorkAccept ==
    ASSUME NEW b \in Block, AcceptBlock(b), Open = {}
    PROVE  OpenInv'
<1>1. index' = index \cup {b} /\ failed' = failed /\ best' = best /\ block' = b /\ pc' = "connect"
  BY DEF AcceptBlock
<1>2. Open' \subseteq {b}
  BY <1>1 DEF Open, Chain
<1>. QED  BY <1>1, <1>2 DEF OpenInv

LEMMA WorkNext == Inv /\ WorkInv /\ [Next]_vars => WorkInv'
<1>. SUFFICES ASSUME Inv, WorkInv, [Next]_vars, ~forced' PROVE OpenInv'
  BY DEF WorkInv
<1>. USE DEF config, checkpoint, control
<1>1. CASE Restart
  BY <1>1 DEF Restart, OpenInv
<1>2. ASSUME ~Restart PROVE ~forced /\ OpenInv
  <2>1. ~forced
    BY <1>2 DEF Next, Proceed, ConnectBestBlock, Switch, SwitchFails, BlockAccepted,
                ProcessOrphan, OrphansDone, ProcessBlock, OrphanBlock, EnforceCheckpoint,
                ProcessSyncCheckpoint, AcceptPendingSyncCheckpoint, TakeCheckpoint, vars
  <2>. QED  BY <2>1 DEF WorkInv
<1>3. CASE ~Restart /\ ConnectBestBlock
  BY <1>2, <1>3, WorkConnect
<1>4. CASE ~Restart /\ Switch
  BY <1>2, <1>4, WorkSwitch
<1>5. CASE ~Restart /\ SwitchFails
  BY <1>2, <1>5, WorkSwitchFails
<1>6. ASSUME ~Restart, NEW b \in Block, ProcessBlock(b) \/ ProcessOrphan(b) PROVE OpenInv'
  <2>1. OpenInv /\ Open = {}
    BY <1>2, <1>6 DEF ProcessBlock, ProcessOrphan, OpenInv
  <2>2. CASE AcceptBlock(b)
    BY <2>1, <2>2, WorkAccept
  <2>3. CASE UNCHANGED <<index, chain, pc, block, vAttach>>
    <3>1. Open' = Open /\ pc' \notin {"connect", "attach"}
      BY <1>6, <2>3, OpenUnchanged DEF chain, ProcessBlock, ProcessOrphan, AcceptBlock
    <3>. QED  BY <2>1, <3>1 DEF OpenInv
  <2>. QED  BY <1>6, <2>2, <2>3 DEF ProcessBlock, ProcessOrphan
<1>7. CASE ~Restart /\ (BlockAccepted \/ \E h \in Block : ProcessSyncCheckpoint(h))
  <2>1. UNCHANGED <<index, chain>>
    BY <1>2, <1>7 DEF BlockAccepted, AcceptPendingSyncCheckpoint, TakeCheckpoint,
                      ProcessSyncCheckpoint
  <2>2. Open' = Open
    BY <2>1, OpenUnchanged DEF chain
  <2>3. pc \in {"idle", "accepted"} /\ pc' \in {"idle", "orphans"}
    BY <1>7 DEF BlockAccepted, ProcessSyncCheckpoint
  <2>. QED  BY <1>2, <1>7, <2>2, <2>3 DEF OpenInv
<1>8. CASE ~Restart /\ (OrphansDone \/ EnforceCheckpoint \/ \E b \in Block : OrphanBlock(b))
  <2>1. UNCHANGED <<index, chain>> /\ pc \in {"idle", "orphans"} /\ pc' = "idle"
    BY <1>8 DEF OrphansDone, EnforceCheckpoint, OrphanBlock
  <2>2. Open' = Open
    BY <2>1, OpenUnchanged DEF chain
  <2>. QED  BY <1>2, <1>8, <2>1, <2>2 DEF OpenInv
<1>9. CASE ~Restart /\ UNCHANGED vars
  <2>1. UNCHANGED <<index, failed, best, pc, block, vAttach>>
    BY <1>9 DEF vars, chain
  <2>2. Open' = Open
    BY <2>1, OpenUnchanged
  <2>3. \A t : Target(t)' <=> Target(t)
    BY <2>1, <2>2 DEF Target, Chain
  <2>. QED  BY <1>2, <1>9, <2>1, <2>2, <2>3 DEF OpenInv
<1>. QED  BY <1>1, <1>3, <1>4, <1>5, <1>6, <1>7, <1>8, <1>9 DEF Next, Proceed

(* The work invariant holds in every state.                                  *)
THEOREM WorkAlways == Spec => []WorkInv
BY WorkInit, WorkNext, InvAlways, PTL DEF Spec

(* When the node waits, no block it knows whose chain is sound has more work *)
(* than the best block, whatever failed or crashed before.                   *)
THEOREM BestHasMostWork == Spec => []MostWork
BY WorkAlways, InvAlways, MostWorkFromInv, PTL

-----------------------------------------------------------------------------
(* How the best chain moves, also after a checkpoint has moved it.           *)
AttachInv ==
    pc = "attach" =>
        \E t \in index : vAttach = {a \in Chain(t) : Work[a] > Work[best]}

(* The block the works of the pool build on has a chain of good blocks, also *)
(* while a reorganisation is under way, and also the block that a restart    *)
(* comes back to; a block is never marked as failed while its chain is sound *)
(* (main.cpp:1176-1237, 1712-1815).                                          *)
BestSound == Sound(best) /\ Sound(saved) /\ \A b \in failed : ~Sound(b)

(* The best block is left for one with less work only if a checkpoint moves  *)
(* the chain, or if a restart finds coins that were flushed for an older     *)
(* block: each switch of ConnectBestBlock, and not only the last, goes to    *)
(* more work, though a reorganisation may end at any of them                 *)
(* (main.cpp:1221-1233).                                                     *)
WorkKept ==
    [][Work[best'] < Work[best] =>
          \/ best' = saved /\ pc' = "connect" /\ block' = None
          \/ best' = sync' /\ sync' # sync]_vars

LEMMA AttachInit == Init => AttachInv
BY DEF Init, AttachInv

LEMMA AttachNext ==
    Inv /\ AttachInv /\ [Next]_vars =>
        /\ AttachInv'
        /\ Work[best'] < Work[best] =>
              \/ best' = saved /\ pc' = "connect" /\ block' = None
              \/ best' = sync' /\ sync' # sync
<1>. DEFINE Good == \/ Work[best'] >= Work[best]
                    \/ best' = saved /\ pc' = "connect" /\ block' = None
                    \/ best' = sync' /\ sync' # sync
<1>. SUFFICES ASSUME Inv, AttachInv, [Next]_vars
              PROVE  AttachInv' /\ (best' \in index' => Good)
  <2>1. Inv' => best' \in index' /\ Work[best'] \in Nat
    <3>1. Inv' => best' \in index' /\ index' \subseteq Node
      BY DEF Inv, ChainInv, IndexInv
    <3>. QED  BY <3>1, WorkType
  <2>2. Inv => Work[best] \in Nat
    <3>1. Inv => best \in Node
      BY DEF Inv, ChainInv, IndexInv
    <3>. QED  BY <3>1, WorkType
  <2>. QED  BY <2>1, <2>2, InvNext
<1>. USE DEF config, checkpoint, control
<1>0. best \in Node /\ Work[best] \in Nat
  BY IndexFacts, WorkType DEF Inv, ChainInv
<1>1. CASE Switch
  <2>1. PICK t \in index : vAttach = {a \in Chain(t) : Work[a] > Work[best]}
    BY <1>1 DEF AttachInv, Switch
  <2>2. /\ best' \in Chain(t) /\ Work[best'] > Work[best]
        /\ vAttach' = {a \in Chain(t) : Work[a] > Work[best']}
    BY <1>1, <2>1, SwitchTargets
  <2>3. index' = index
    BY <1>1 DEF Switch
  <2>4. t \in Node /\ t \in Seq(STRING)
    BY IndexFacts
  <2>5. Work[best'] \in Nat
    BY <2>2, <2>4, AncestorsHaveLessWork, WorkType
  <2>. QED  BY <1>0, <2>2, <2>3, <2>5 DEF AttachInv, Chain
<1>2. CASE ConnectBestBlock
  <2>1. PICK b \in Candidates : NothingToDo(b) \/ FailedAncestor(b) \/ Attach(b)
    BY <1>2 DEF ConnectBestBlock
  <2>2. UNCHANGED <<index, best>> /\ pc = "connect"
    BY <1>2, <2>1 DEF ConnectBestBlock, NothingToDo, FailedAncestor, Attach, chain
  <2>3. CASE NothingToDo(b) \/ FailedAncestor(b)
    <3>1. pc' # "attach"
      BY <2>2, <2>3 DEF NothingToDo, FailedAncestor
    <3>. QED  BY <1>0, <2>2, <3>1 DEF AttachInv
  <2>4. CASE Attach(b)
    <3>1. b \in index /\ vAttach' = {a \in Chain(b) : Work[a] > Work[best]}
      BY <2>4, AttachTargets
    <3>. QED  BY <1>0, <2>2, <3>1 DEF AttachInv, Chain
  <2>. QED  BY <2>1, <2>3, <2>4
<1>3. CASE Restart
  <2>1. /\ pc' = "connect" /\ block' = None
        /\ best' = saved \/ best' = best
    BY <1>3 DEF Restart
  <2>. QED  BY <1>0, <2>1 DEF AttachInv
<1>4. ASSUME NEW h, TakeCheckpoint(h), ValidateSyncCheckpoint(h)
      PROVE  Good
  <2>1. best' = best \/ (best' = h /\ sync' = h)
    BY <1>4 DEF TakeCheckpoint, chain, SetBestChain, SetBestChainFails, InvalidBlockFound
  <2>2. h # sync
    <3>1. sync \in Seq(STRING)
      BY IndexFacts DEF Inv, IndexInv
    <3>2. Len(sync) \in Nat
      BY <3>1, LenProperties
    <3>. QED  BY <1>4, <3>2 DEF ValidateSyncCheckpoint
  <2>. QED  BY <1>0, <2>1, <2>2
<1>5. CASE BlockAccepted \/ \E h \in Block : ProcessSyncCheckpoint(h)
  <2>1. pc' # "attach"
    BY <1>5 DEF BlockAccepted, ProcessSyncCheckpoint
  <2>2. best' = best \/ \E h : TakeCheckpoint(h) /\ ValidateSyncCheckpoint(h)
    BY <1>5 DEF BlockAccepted, AcceptPendingSyncCheckpoint, ProcessSyncCheckpoint, chain
  <2>. QED  BY <1>0, <1>4, <2>1, <2>2 DEF AttachInv
<1>6. CASE SwitchFails
  <2>1. best' = best /\ pc' # "attach"
    BY <1>6 DEF SwitchFails, SetBestChainFails, InvalidBlockFound
  <2>. QED  BY <1>0, <2>1 DEF AttachInv
<1>7. CASE OrphansDone \/ \E b \in Block : ProcessBlock(b) \/ OrphanBlock(b) \/ ProcessOrphan(b)
  <2>1. best' = best /\ pc' # "attach"
    BY <1>7 DEF OrphansDone, ProcessBlock, OrphanBlock, ProcessOrphan, AcceptBlock, chain
  <2>. QED  BY <1>0, <2>1 DEF AttachInv
<1>8. CASE EnforceCheckpoint \/ UNCHANGED vars
  <2>1. UNCHANGED <<index, best, pc, vAttach>>
    BY <1>8 DEF EnforceCheckpoint, vars, chain
  <2>. QED  BY <1>0, <2>1 DEF AttachInv, Chain
<1>. QED  BY <1>1, <1>2, <1>3, <1>5, <1>6, <1>7, <1>8 DEF Next, Proceed

(* The best block is sound in every state, and no sound block is failed.     *)
THEOREM BestIsSound == Spec => []BestSound
<1>1. Inv => BestSound
  BY DEF Inv, ChainInv, BestSound
<1>. QED  BY <1>1, InvAlways, PTL

(* No step but a checkpoint's or a restart's loses work.                     *)
THEOREM WorkIsKept == Spec => WorkKept
<1>1. Inv /\ AttachInv /\ [Next]_vars => AttachInv'
  BY AttachNext
<1>2. Inv /\ AttachInv /\ [Next]_vars =>
        [Work[best'] < Work[best] =>
          \/ best' = saved /\ pc' = "connect" /\ block' = None
          \/ best' = sync' /\ sync' # sync]_vars
  BY AttachNext
<1>. QED  BY <1>1, <1>2, AttachInit, InvAlways, PTL DEF Spec, WorkKept

-----------------------------------------------------------------------------
(* Nothing left behind.  What waits for a known block waits for an unsound   *)
(* one, for one whose orphans are still to be processed, or for the one that *)
(* is in AcceptBlock.                                                        *)
InAcceptBlock(b) == pc \in {"connect", "attach", "accepted"} /\ block = b

Awaited(b) == ~Sound(b) \/ b \in vWorkQueue \/ InAcceptBlock(b)

LeftInv ==
    /\ \A o \in orphans : Parent(o) \in index => Awaited(Parent(o))
    /\ pending \in index => ~Sound(pending) \/ InAcceptBlock(pending)
    /\ pc = "idle" \/ (pc \in {"connect", "attach"} /\ block = None) => vWorkQueue = {}

WaitInv == ~forced /\ pc # "down" => LeftInv

LEMMA NothingLeftFromInv == WaitInv => NothingLeftBehind
BY DEF WaitInv, LeftInv, Awaited, InAcceptBlock, NothingLeftBehind

LEMMA NoneUnknown == Inv => None \notin index
BY NodeIsSeq DEF Inv, IndexInv

(* Leaving AcceptBlock with the block in hand lost: it is not sound.         *)
LEMMA FailedTargetUnsound ==
    ASSUME Inv, OpenInv, SwitchFails, block # None
    PROVE  ~Sound(block)
<1>. DEFINE x == Lowest(vAttach)
<1>1. x \in vAttach /\ x \in index
  BY LowestExists, IndexFacts DEF SwitchFails, Inv, ControlInv
<1>2. ~Connects(x) /\ pc = "attach"
  BY DEF SwitchFails
<1>. HIDE DEF x
<1>3. Target(block)
  BY <1>2 DEF OpenInv, Target
<1>4. x \in Chain(block) /\ block \in index
  BY <1>1, <1>3 DEF Target
<1>5. ~Sound(x)
  BY <1>1, <1>2, ConnectsIsSound
<1>. QED  BY <1>4, <1>5, IndexFacts

LEMMA WaitAccept ==
    ASSUME NEW b \in Block, AcceptBlock(b), LeftInv, pc \in {"idle", "orphans"},
           orphans' \subseteq orphans, b \in Node,
           UNCHANGED <<Bad, pending, vWorkQueue>>
    PROVE  LeftInv'
<1>1. index' = index \cup {b} /\ block' = b /\ pc' = "connect" /\ b # None
  BY NodeIsSeq DEF AcceptBlock
<1>2. \A c : Sound(c)' <=> Sound(c)
  BY DEF Sound
<1>3. InAcceptBlock(b)' /\ \A c : ~InAcceptBlock(c)
  BY <1>1 DEF InAcceptBlock
<1>4. ASSUME NEW o \in orphans', Parent(o) \in index' PROVE Awaited(Parent(o))'
  BY <1>1, <1>2, <1>3, <1>4 DEF LeftInv, Awaited
<1>5. pending' \in index' => (~Sound(pending) \/ InAcceptBlock(pending))'
  BY <1>1, <1>2, <1>3 DEF LeftInv
<1>6. (\A o \in orphans : Parent(o) \in index => Awaited(Parent(o)))'
  BY <1>4 DEF Parent
<1>. QED  BY <1>1, <1>5, <1>6 DEF LeftInv

LEMMA WaitNext == Inv /\ WorkInv /\ WaitInv /\ [Next]_vars => WaitInv'
<1>. SUFFICES ASSUME Inv, WorkInv, WaitInv, [Next]_vars, ~forced', pc' # "down"
              PROVE  LeftInv'
  BY DEF WaitInv
<1>. USE DEF config, checkpoint, control
<1>1. CASE Restart
  BY <1>1, NoneUnknown DEF Restart, LeftInv
<1>2. ASSUME ~Restart PROVE ~forced
  BY <1>2 DEF Next, Proceed, ConnectBestBlock, Switch, SwitchFails, BlockAccepted,
              ProcessOrphan, OrphansDone, ProcessBlock, OrphanBlock, EnforceCheckpoint,
              ProcessSyncCheckpoint, AcceptPendingSyncCheckpoint, TakeCheckpoint, vars
<1>3. ASSUME ~Restart PROVE pc # "down"
  BY <1>3 DEF Next, Proceed, ConnectBestBlock, Switch, SwitchFails, BlockAccepted,
              ProcessOrphan, OrphansDone, ProcessBlock, OrphanBlock, EnforceCheckpoint,
              ProcessSyncCheckpoint, vars
<1>4. ASSUME ~Restart PROVE LeftInv
  BY <1>2, <1>3, <1>4 DEF WaitInv
<1>5. \A b : Sound(b)' <=> Sound(b)
  BY DEF Next, Proceed, ConnectBestBlock, Switch, SwitchFails, BlockAccepted,
         ProcessOrphan, OrphansDone, ProcessBlock, OrphanBlock, EnforceCheckpoint,
         ProcessSyncCheckpoint, Restart, vars, Sound, Chain
<1>6. ASSUME ~Restart, UNCHANGED <<index, orphans, pending, vWorkQueue, block>>,
             pc \in {"connect", "attach"},
             pc' \in IF block = None THEN {"connect", "attach", "idle"}
                     ELSE {"connect", "attach", "accepted"}
      PROVE  LeftInv'
  <2>1. \A b \in index : InAcceptBlock(b) => InAcceptBlock(b)'
    BY <1>6, NoneUnknown DEF InAcceptBlock
  <2>2. ASSUME NEW o \in orphans', Parent(o) \in index' PROVE Awaited(Parent(o))'
    BY <1>4, <1>5, <1>6, <2>1, <2>2 DEF LeftInv, Awaited
  <2>3. (\A o \in orphans : Parent(o) \in index => Awaited(Parent(o)))'
    BY <2>2 DEF Parent
  <2>4. (pending \in index => ~Sound(pending) \/ InAcceptBlock(pending))'
    BY <1>4, <1>5, <1>6, <2>1 DEF LeftInv
  <2>. QED  BY <1>4, <1>6, <2>3, <2>4 DEF LeftInv
<1>7. CASE ~Restart /\ ConnectBestBlock
  BY <1>6, <1>7 DEF ConnectBestBlock, NothingToDo, FailedAncestor, Attach
<1>8. CASE ~Restart /\ Switch
  BY <1>6, <1>8 DEF Switch
<1>9. CASE ~Restart /\ SwitchFails
  <2>1. UNCHANGED <<index, orphans, pending, block, vWorkQueue>> /\ block # None
        /\ pc = "attach" /\ pc' \in {"idle", "orphans"} /\ (pc' = "idle" => vWorkQueue = {})
    BY <1>9 DEF SwitchFails
  <2>2. ~Sound(block)
    BY <1>2, <1>9, <2>1, FailedTargetUnsound DEF WorkInv
  <2>3. \A b : InAcceptBlock(b) => ~Sound(b)
    BY <2>2 DEF InAcceptBlock
  <2>4. ASSUME NEW o \in orphans', Parent(o) \in index' PROVE Awaited(Parent(o))'
    BY <1>4, <1>5, <1>9, <2>1, <2>3, <2>4 DEF LeftInv, Awaited
  <2>5. (\A o \in orphans : Parent(o) \in index => Awaited(Parent(o)))'
    BY <2>4 DEF Parent
  <2>6. (pending \in index => ~Sound(pending) \/ InAcceptBlock(pending))'
    BY <1>4, <1>5, <1>9, <2>1, <2>3 DEF LeftInv
  <2>. QED  BY <2>1, <2>5, <2>6 DEF LeftInv
<1>10. ASSUME ~Restart, NEW b \in Block, ProcessBlock(b) \/ ProcessOrphan(b) PROVE LeftInv'
  <2>1. LeftInv /\ pc \in {"idle", "orphans"} /\ orphans' \subseteq orphans
        /\ UNCHANGED <<Bad, pending, vWorkQueue>>
    BY <1>4, <1>10 DEF ProcessBlock, ProcessOrphan
  <2>2. CASE AcceptBlock(b)
    BY <2>1, <2>2, WaitAccept DEF Node
  <2>3. CASE UNCHANGED <<index, chain, pc, block, vAttach>>
    <3>1. \A c : InAcceptBlock(c)' <=> InAcceptBlock(c)
      BY <2>3 DEF InAcceptBlock
    <3>2. ASSUME NEW o \in orphans', Parent(o) \in index' PROVE Awaited(Parent(o))'
      BY <1>5, <2>1, <2>3, <3>1, <3>2 DEF LeftInv, Awaited
    <3>3. (\A o \in orphans : Parent(o) \in index => Awaited(Parent(o)))'
      BY <3>2 DEF Parent
    <3>4. (pending \in index => ~Sound(pending) \/ InAcceptBlock(pending))'
      BY <1>5, <2>1, <2>3, <3>1 DEF LeftInv
    <3>. QED  BY <2>1, <2>3, <3>3, <3>4 DEF LeftInv
  <2>. QED  BY <1>10, <2>2, <2>3 DEF ProcessBlock, ProcessOrphan
<1>11. CASE ~Restart /\ BlockAccepted
  <2>1. /\ vWorkQueue' = vWorkQueue \cup {block} /\ UNCHANGED <<index, orphans>>
        /\ pc = "accepted" /\ pc' = "orphans"
    BY <1>11 DEF BlockAccepted, Queued
  <2>2. pending' \notin index'
    BY <1>11, <2>1, NoneUnknown
       DEF BlockAccepted, AcceptPendingSyncCheckpoint, TakeCheckpoint
  <2>3. \A b : Awaited(b) => Awaited(b)'
    BY <1>5, <2>1 DEF Awaited, InAcceptBlock
  <2>4. ASSUME NEW o \in orphans', Parent(o) \in index' PROVE Awaited(Parent(o))'
    BY <1>4, <1>11, <2>1, <2>3, <2>4 DEF LeftInv
  <2>5. (\A o \in orphans : Parent(o) \in index => Awaited(Parent(o)))'
    BY <2>4 DEF Parent
  <2>. QED  BY <2>1, <2>2, <2>5 DEF LeftInv
<1>12. CASE ~Restart /\ OrphansDone
  <2>1. /\ UNCHANGED <<index, orphans, pending, block>> /\ Waiting = {}
        /\ vWorkQueue' = {} /\ pc = "orphans" /\ pc' = "idle"
    BY <1>12 DEF OrphansDone
  <2>2. \A b : ~InAcceptBlock(b)
    BY <2>1 DEF InAcceptBlock
  <2>3. ASSUME NEW o \in orphans', Parent(o) \in index' PROVE Awaited(Parent(o))'
    BY <1>4, <1>5, <1>12, <2>1, <2>2, <2>3 DEF LeftInv, Awaited, Waiting
  <2>4. (\A o \in orphans : Parent(o) \in index => Awaited(Parent(o)))'
    BY <2>3 DEF Parent
  <2>5. (pending \in index => ~Sound(pending) \/ InAcceptBlock(pending))'
    BY <1>4, <1>5, <1>12, <2>1, <2>2 DEF LeftInv
  <2>. QED  BY <2>1, <2>4, <2>5 DEF LeftInv
<1>13. ASSUME ~Restart, NEW b \in Block, OrphanBlock(b) \/ ProcessSyncCheckpoint(b) PROVE LeftInv'
  <2>1. /\ UNCHANGED <<index, block, vWorkQueue, pc>> /\ pc = "idle"
        /\ \A o \in orphans' : o \in orphans \/ Parent(o) \notin index
        /\ pending' = pending \/ pending' \notin index
    BY <1>13, NoneUnknown DEF OrphanBlock, ProcessSyncCheckpoint, TakeCheckpoint
  <2>2. \A c : InAcceptBlock(c)' <=> InAcceptBlock(c)
    BY <2>1 DEF InAcceptBlock
  <2>3. ASSUME NEW o \in orphans', Parent(o) \in index' PROVE Awaited(Parent(o))'
    BY <1>4, <1>5, <1>13, <2>1, <2>2, <2>3 DEF LeftInv, Awaited
  <2>4. (\A o \in orphans : Parent(o) \in index => Awaited(Parent(o)))'
    BY <2>3 DEF Parent
  <2>5. (pending \in index => ~Sound(pending) \/ InAcceptBlock(pending))'
    BY <1>4, <1>5, <1>13, <2>1, <2>2 DEF LeftInv
  <2>. QED  BY <1>4, <1>13, <2>1, <2>4, <2>5 DEF LeftInv
<1>14. CASE ~Restart /\ (EnforceCheckpoint \/ UNCHANGED vars)
  <2>1. UNCHANGED <<index, orphans, pending, block, vWorkQueue, pc>>
    BY <1>14 DEF EnforceCheckpoint, vars
  <2>2. \A c : InAcceptBlock(c)' <=> InAcceptBlock(c)
    BY <2>1 DEF InAcceptBlock
  <2>3. ASSUME NEW o \in orphans', Parent(o) \in index' PROVE Awaited(Parent(o))'
    BY <1>4, <1>5, <1>14, <2>1, <2>2, <2>3 DEF LeftInv, Awaited
  <2>4. (\A o \in orphans : Parent(o) \in index => Awaited(Parent(o)))'
    BY <2>3 DEF Parent
  <2>5. (pending \in index => ~Sound(pending) \/ InAcceptBlock(pending))'
    BY <1>4, <1>5, <1>14, <2>1, <2>2 DEF LeftInv
  <2>. QED  BY <1>4, <1>14, <2>1, <2>4, <2>5 DEF LeftInv
<1>. QED
  BY <1>1, <1>7, <1>8, <1>9, <1>10, <1>11, <1>12, <1>13, <1>14 DEF Next, Proceed

(* An orphan whose parent comes, and a checkpoint whose block comes, are     *)
(* taken up, on every path through ProcessBlock that leaves a sound block.   *)
THEOREM NothingLeft == Spec => []NothingLeftBehind
<1>1. Init => WaitInv
  BY InvInit, NoneUnknown DEF Init, WaitInv, LeftInv
<1>2. Spec => []WaitInv
  BY <1>1, WorkAlways, WaitNext, InvAlways, PTL DEF Spec
<1>. QED  BY <1>2, NothingLeftFromInv, PTL
=============================================================================
