--------------------------- MODULE LsaTopologyProofs ---------------------------
(***************************************************************************)
(* For every network, every order of the lines and every loss: the newest  *)
(* announcement of a node counts, in a steady network the links that are   *)
(* known depend only on the nodes that were heard, the table has an entry  *)
(* for exactly the nodes that are to have one, and what an entry gives is  *)
(* a nearest server in the graph that was read.  Reading the file and      *)
(* building the table end within a number of steps that is known before.   *)
(***************************************************************************)
EXTENDS LsaTopology, FiniteSetTheorems, WellFoundedInduction, TLAPS

LinksType ==
  /\ announced \in Topologies
  /\ heard \subseteq Nodes \X (0 .. MaxSeq)
  /\ seq_num \in [Nodes -> -1 .. MaxSeq]
  /\ neighbors \in [Nodes -> Seq(Nodes)]

\* What one announcement lists are other nodes.
LEMMA ListedAreNodes ==
  ASSUME announced \in Topologies, NEW n \in Nodes, NEW s \in 0 .. MaxSeq
  PROVE  /\ announced[n][s] \in Seq(Nodes)
         /\ n \notin Elements(announced[n][s])
         /\ Elements(announced[n][s]) \subseteq Nodes
<1>1. announced[n][s] \in Seq(Nodes \ {n})  BY TopologiesAssumption
<1>2. QED  BY <1>1 DEF Elements

\* Appending to a list adds one element.
LEMMA ElementsOfAppend ==
  ASSUME NEW S, NEW list \in Seq(S), NEW x \in S
  PROVE  /\ Append(list, x) \in Seq(S)
         /\ Elements(Append(list, x)) = Elements(list) \cup {x}
<1>1. Append(list, x) \in Seq(S) /\ Len(Append(list, x)) = Len(list) + 1  OBVIOUS
<1>2. \A i \in 1 .. Len(list) : Append(list, x)[i] = list[i]  OBVIOUS
<1>3. Append(list, x)[Len(list) + 1] = x  OBVIOUS
<1>4. DOMAIN list = 1 .. Len(list) /\ Len(list) \in Nat
      /\ DOMAIN Append(list, x) = 1 .. Len(list) + 1  BY <1>1
<1>5. Elements(list) \cup {x} \subseteq Elements(Append(list, x))
      BY <1>2, <1>3, <1>4 DEF Elements
<1>6. Elements(Append(list, x)) \subseteq Elements(list) \cup {x}
      BY <1>2, <1>3, <1>4 DEF Elements
<1>7. QED  BY <1>1, <1>5, <1>6

\* A new node is appended.
LEMMA NoRepeatsOfAppend ==
  ASSUME NEW S, NEW list \in Seq(S), NEW x \in S, NoRepeats(list), x \notin Elements(list)
  PROVE  NoRepeats(Append(list, x))
<1>1. /\ Len(Append(list, x)) = Len(list) + 1 /\ Len(list) \in Nat
      /\ DOMAIN list = 1 .. Len(list)
      /\ DOMAIN Append(list, x) = 1 .. Len(list) + 1
  OBVIOUS
<1>2. /\ \A i \in 1 .. Len(list) : Append(list, x)[i] = list[i]
      /\ Append(list, x)[Len(list) + 1] = x
  OBVIOUS
<1>3. \A i \in 1 .. Len(list) : list[i] # x
  BY <1>1 DEF Elements
<1>4. \A i, j \in 1 .. Len(list) : list[i] = list[j] => i = j
  BY <1>1 DEF NoRepeats
<1> DEFINE c == Append(list, x)
           n == Len(list)
<1>5. ASSUME NEW i \in 1 .. n + 1, NEW j \in 1 .. n + 1, c[i] = c[j] PROVE i = j
  <2> HIDE DEF c, n
  <2>1. \A k \in 1 .. n + 1 : k \in 1 .. n \/ k = n + 1
    BY <1>1 DEF n
  <2> QED BY <2>1, <1>2, <1>3, <1>4, <1>5 DEF c, n
<1> QED BY <1>1, <1>5 DEF NoRepeats

\* add_reverse_neighbor adds one neighbour, whether it was one or not.
LEMMA AddReverseAdds ==
  ASSUME neighbors \in [Nodes -> Seq(Nodes)], NEW n \in Nodes, NEW m \in Nodes
  PROVE  /\ AddReverse(n, m) \in Seq(Nodes)
         /\ Elements(AddReverse(n, m)) = Elements(neighbors[n]) \cup {m}
BY ElementsOfAppend DEF AddReverse

\* The neighbours of m after n announced what it lists under s.
After(n, s, m) == IF m = n THEN Elements(announced[n][s])
                  ELSE IF m \in Elements(announced[n][s]) THEN Elements(neighbors[m]) \cup {n}
                  ELSE Elements(neighbors[m])

\* The neighbours of every node after n announced what it lists under s.
LEMMA LinkedElements ==
  ASSUME LinksType, NEW n \in Nodes, NEW s \in 0 .. MaxSeq, NEW m \in Nodes
  PROVE  /\ Linked(n, announced[n][s]) \in [Nodes -> Seq(Nodes)]
         /\ Elements(Linked(n, announced[n][s])[m]) = After(n, s, m)
<1> DEFINE list == announced[n][s]
           after == Linked(n, list)
<1>1. list \in Seq(Nodes)  BY ListedAreNodes DEF LinksType
<1>2. ASSUME NEW p \in Nodes
      PROVE  /\ after[p] \in Seq(Nodes)
             /\ Elements(after[p]) = After(n, s, p)
  <2>1. CASE p = n
        <3>1. after[p] = list  BY <2>1 DEF Linked
        <3>2. QED  BY <1>1, <2>1, <3>1 DEF After
  <2>2. CASE p # n /\ p \in Elements(list)
        <3>1. after[p] = AddReverse(p, n)  BY <2>2 DEF Linked
        <3>2. QED  BY <2>2, <3>1, AddReverseAdds DEF LinksType, After
  <2>3. CASE p # n /\ p \notin Elements(list)
        <3>1. after[p] = neighbors[p]  BY <2>3 DEF Linked
        <3>2. QED  BY <2>3, <3>1 DEF LinksType, After
  <2>4. QED  BY <2>1, <2>2, <2>3
<1>3. after = [p \in Nodes |-> after[p]]  BY DEF Linked
<1>4. after \in [Nodes -> Seq(Nodes)]  BY <1>2, <1>3
<1>5. QED  BY <1>2, <1>4

\* A line that is not newer changes nothing but the lists of nodes and clients.
LEMMA ParseLineEffect ==
  ASSUME NEW n, NEW s, ParseLine(n, s)
  PROVE  /\ announced' = announced /\ heard' = heard \cup {<<n, s>>}
         /\ s > seq_num[n] => /\ seq_num' = [seq_num EXCEPT ![n] = s]
                              /\ neighbors' = Linked(n, announced[n][s])
         /\ ~(s > seq_num[n]) => seq_num' = seq_num /\ neighbors' = neighbors
BY Zenon DEF ParseLine, Newer

\* No other action touches the graph.
LEMMA OthersKeepLinks ==
  ASSUME \/ EndOfFile \/ NextClient \/ TableBuilt \/ BfsPop \/ BfsEmpty \/ Stopped
         \/ UNCHANGED vars
  PROVE  UNCHANGED <<announced, heard, seq_num, neighbors>>
BY DEF EndOfFile, NextClient, TableBuilt, BfsPop, BfsEmpty, Stopped, vars, parsed

\* Only the servers of the server file are known at first.
LEMMA InitLinks == Init => LinksType
<1> SUFFICES ASSUME Init PROVE LinksType  OBVIOUS
<1>1. -1 \in -1 .. MaxSeq  BY BoundsAssumption
<1>2. QED  BY <1>1 DEF Init, LinksType

\* Every line and every search keeps the types of what is known of links.
LEMMA NextLinks == LinksType /\ [Next]_vars => LinksType'
<1> SUFFICES ASSUME LinksType, [Next]_vars PROVE LinksType'  OBVIOUS
<1>1. CASE \E n \in Nodes, s \in 0 .. MaxSeq : ParseLine(n, s)
  <2>1. PICK n \in Nodes, s \in 0 .. MaxSeq : ParseLine(n, s)  BY <1>1
  <2>2. Linked(n, announced[n][s]) \in [Nodes -> Seq(Nodes)]  BY LinkedElements
  <2>3. s \in -1 .. MaxSeq  BY BoundsAssumption
  <2>4. announced' \in Topologies /\ heard' \subseteq Nodes \X (0 .. MaxSeq)
        BY <2>1, ParseLineEffect DEF LinksType
  <2>5. seq_num' \in [Nodes -> -1 .. MaxSeq] /\ neighbors' \in [Nodes -> Seq(Nodes)]
    <3>1. CASE s > seq_num[n]
      <4>1. seq_num' = [seq_num EXCEPT ![n] = s] /\ neighbors' = Linked(n, announced[n][s])
            BY <2>1, <3>1, ParseLineEffect
      <4>2. seq_num' \in [Nodes -> -1 .. MaxSeq]  BY <2>3, <4>1 DEF LinksType
      <4>3. QED  BY <2>2, <4>1, <4>2
    <3>2. CASE ~(s > seq_num[n])  BY <2>1, <3>2, ParseLineEffect DEF LinksType
    <3>3. QED  BY <3>1, <3>2
  <2>6. QED  BY <2>4, <2>5 DEF LinksType
<1>2. CASE ~\E n \in Nodes, s \in 0 .. MaxSeq : ParseLine(n, s)
      BY <1>2, OthersKeepLinks DEF Next, LinksType
<1>3. QED  BY <1>1, <1>2

-----------------------------------------------------------------------------
\* No node was heard at first.
LEMMA InitLinksRecovered == Init => LinksRecovered
<1> SUFFICES ASSUME Init, NEW n \in Nodes
             PROVE  Elements(neighbors[n]) = IF seq_num[n] >= 0 THEN Links(n)
                                             ELSE {m \in Links(n) : seq_num[m] >= 0}
    BY DEF LinksRecovered
<1>1. neighbors[n] = <<>> /\ seq_num[n] = -1  BY DEF Init
<1>2. Elements(neighbors[n]) = {}  BY <1>1 DEF Elements
<1>3. Links(n) \subseteq Nodes  BY BoundsAssumption, ListedAreNodes DEF Init, Links
<1>4. {m \in Links(n) : seq_num[m] >= 0} = {}  BY <1>3 DEF Init
<1>5. QED  BY <1>1, <1>2, <1>4

\* In a steady network, what a node lists under any number are its Links.
LEMMA SteadyLists ==
  ASSUME LinksType, Steady
  PROVE  /\ \A n \in Nodes, s \in 0 .. MaxSeq : Elements(announced[n][s]) = Links(n)
         /\ \A m, n \in Nodes : m \in Links(n) <=> n \in Links(m)
<1>1. 0 \in 0 .. MaxSeq  BY BoundsAssumption
<1>2. \A m, n \in Nodes : m \in Links(n) => n \in Links(m)  BY <1>1 DEF Steady, Links
<1>3. ASSUME NEW n \in Nodes, NEW s \in 0 .. MaxSeq
      PROVE  Elements(announced[n][s]) = Links(n)
  <2>1. Elements(announced[n][s]) \subseteq Nodes /\ Links(n) \subseteq Nodes
        BY <1>1, ListedAreNodes DEF LinksType, Links
  <2>2. ASSUME NEW m \in Nodes PROVE m \in Elements(announced[n][s]) <=> m \in Links(n)
        BY <1>1 DEF Steady, Links
  <2>3. QED  BY <2>1, <2>2
<1>4. QED  BY <1>2, <1>3

\* A line adds the links of its node and of nothing else.
LEMMA NextLinksRecovered == LinksType /\ LinksRecovered /\ [Next]_vars => LinksRecovered'
<1> SUFFICES ASSUME LinksType, LinksRecovered, [Next]_vars, Steady'
             PROVE  \A p \in Nodes : Elements(neighbors'[p]) =
                      IF seq_num'[p] >= 0 THEN Links(p)'
                      ELSE {q \in Links(p)' : seq_num'[q] >= 0}
    BY DEF LinksRecovered
<1>1. CASE \E n \in Nodes, s \in 0 .. MaxSeq : ParseLine(n, s)
  <2>1. PICK n \in Nodes, s \in 0 .. MaxSeq : ParseLine(n, s)  BY <1>1
  <2>2. announced' = announced  BY <2>1, ParseLineEffect
  <2>3. Steady /\ \A p : Links(p)' = Links(p)  BY <2>2 DEF Steady, Links
  <2>4. \A p \in Nodes : Elements(neighbors[p]) =
          IF seq_num[p] >= 0 THEN Links(p) ELSE {q \in Links(p) : seq_num[q] >= 0}
        BY <2>3 DEF LinksRecovered
  <2>5. CASE ~(s > seq_num[n])  BY <2>1, <2>3, <2>4, <2>5, ParseLineEffect
  <2>6. CASE s > seq_num[n]
    <3>1. seq_num' = [seq_num EXCEPT ![n] = s] /\ neighbors' = Linked(n, announced[n][s])
          BY <2>1, <2>6, ParseLineEffect
    <3>2. seq_num'[n] = s /\ s >= 0 /\ \A q \in Nodes \ {n} : seq_num'[q] = seq_num[q]
          BY <3>1 DEF LinksType
    <3>3. Elements(announced[n][s]) = Links(n)  BY <2>3, SteadyLists
    <3>4. SUFFICES ASSUME NEW p \in Nodes
                   PROVE  Elements(neighbors'[p]) =
                            IF seq_num'[p] >= 0 THEN Links(p)
                            ELSE {q \in Links(p) : seq_num'[q] >= 0}
          BY <2>3
    <3>5. /\ p = n => Elements(neighbors'[p]) = Links(n)
          /\ p # n /\ p \in Links(n) => Elements(neighbors'[p]) = Elements(neighbors[p]) \cup {n}
          /\ p # n /\ p \notin Links(n) => Elements(neighbors'[p]) = Elements(neighbors[p])
      <4>1. neighbors' = Linked(n, announced[n][s])  BY <3>1
      <4>2. Elements(Linked(n, announced[n][s])[p]) = After(n, s, p)  BY LinkedElements
      <4>3. QED  BY <3>3, <4>1, <4>2 DEF After
    <3>6. CASE p = n  BY <3>2, <3>5, <3>6
    <3>7. CASE p # n /\ seq_num[p] >= 0
          <4>1. p \in Links(n) => n \in Links(p)  BY <2>3, SteadyLists
          <4>2. Elements(neighbors[p]) = Links(p)  BY <2>4, <3>7
          <4>3. QED  BY <3>2, <3>5, <3>7, <4>1, <4>2
    <3>8. CASE p # n /\ ~(seq_num[p] >= 0)
          <4>1. p \in Links(n) <=> n \in Links(p)  BY <2>3, SteadyLists
          <4>2. Elements(neighbors[p]) = {q \in Links(p) : seq_num[q] >= 0}
                BY <2>4, <3>8
          <4>3. Links(p) \subseteq Nodes
                BY BoundsAssumption, ListedAreNodes DEF LinksType, Links
          <4>4. {q \in Links(p) : seq_num'[q] >= 0} =
                  {q \in Links(p) : seq_num[q] >= 0} \cup (IF n \in Links(p) THEN {n} ELSE {})
                BY <3>2, <4>3
          <4>5. ~(seq_num'[p] >= 0)  BY <3>2, <3>8
          <4>6. Elements(neighbors'[p]) = {q \in Links(p) : seq_num'[q] >= 0}
            <5>1. CASE p \in Links(n)  BY <3>5, <3>8, <4>1, <4>2, <4>4, <5>1
            <5>2. CASE p \notin Links(n)  BY <3>5, <3>8, <4>1, <4>2, <4>4, <5>2
            <5>3. QED  BY <5>1, <5>2
          <4>7. QED  BY <4>5, <4>6
    <3>9. QED  BY <3>6, <3>7, <3>8
  <2>7. QED  BY <2>5, <2>6
<1>2. CASE ~\E n \in Nodes, s \in 0 .. MaxSeq : ParseLine(n, s)
  <2>1. UNCHANGED <<announced, heard, seq_num, neighbors>>
        BY <1>2, OthersKeepLinks DEF Next
  <2>2. Steady /\ \A p : Links(p)' = Links(p)  BY <2>1 DEF Steady, Links
  <2>3. QED  BY <2>1, <2>2 DEF LinksRecovered
<1>3. QED  BY <1>1, <1>2

\* In a steady network the links that parse_LSA_file knows depend only on the
\* nodes that were heard, not on order, repetition or loss of announcements.
THEOREM LinksRecoveredCorrect == Spec => []LinksRecovered
<1>1. Init => LinksType /\ LinksRecovered  BY InitLinks, InitLinksRecovered
<1>2. LinksType /\ LinksRecovered /\ [Next]_vars => (LinksType /\ LinksRecovered)'
      BY NextLinks, NextLinksRecovered
<1>3. QED  BY <1>1, <1>2, PTL DEF Spec

-----------------------------------------------------------------------------
\* The newest number that was heard from n is its seq_num, and what n announced
\* under it is among its neighbours.
Newest(n) ==
  /\ \A s \in 0 .. MaxSeq : <<n, s>> \in heard => s <= seq_num[n]
  /\ seq_num[n] >= 0 => /\ <<n, seq_num[n]>> \in heard
                         /\ Elements(announced[n][seq_num[n]]) \subseteq Elements(neighbors[n])

NewestInv == \A n \in Nodes : Newest(n)

\* No node has a sequence number at first.
LEMMA InitNewest == Init => NewestInv
<1> SUFFICES ASSUME Init, NEW n \in Nodes PROVE Newest(n)  BY DEF NewestInv
<1>1. heard = {} /\ seq_num[n] = -1  BY DEF Init
<1>2. QED  BY <1>1 DEF Newest

\* A line counts if and only if it is newer than what its node has.
LEMMA NextNewest == LinksType /\ NewestInv /\ [Next]_vars => NewestInv'
<1> SUFFICES ASSUME LinksType, NewestInv, [Next]_vars, NEW p \in Nodes PROVE Newest(p)'
    BY DEF NewestInv
<1> USE DEF NewestInv
<1>1. CASE \E n \in Nodes, s \in 0 .. MaxSeq : ParseLine(n, s)
  <2>1. PICK n \in Nodes, s \in 0 .. MaxSeq : ParseLine(n, s)  BY <1>1
  <2>2. announced' = announced /\ heard' = heard \cup {<<n, s>>}
        BY <2>1, ParseLineEffect
  <2>a. \A t : <<p, t>> \in heard' => <<p, t>> \in heard \/ (p = n /\ t = s)  BY <2>2
  <2>b. \A t \in 0 .. MaxSeq : <<p, t>> \in heard => t <= seq_num[p]  BY DEF Newest
  <2>3. seq_num[n] \in -1 .. MaxSeq /\ seq_num[p] \in -1 .. MaxSeq  BY DEF LinksType
  <2>4. CASE ~(s > seq_num[n])
    <3>1. seq_num' = seq_num /\ neighbors' = neighbors  BY <2>1, <2>4, ParseLineEffect
    <3>2. \A t \in 0 .. MaxSeq : <<p, t>> \in heard' => t <= seq_num[p]
          BY <2>a, <2>b, <2>3, <2>4
    <3>3. QED  BY <2>2, <3>1, <3>2 DEF Newest
  <2>5. CASE s > seq_num[n]
    <3>1. seq_num' = [seq_num EXCEPT ![n] = s] /\ neighbors' = Linked(n, announced[n][s])
          BY <2>1, <2>5, ParseLineEffect
    <3>2. /\ p = n => Elements(neighbors'[p]) = Elements(announced[n][s])
          /\ p # n => Elements(neighbors[p]) \subseteq Elements(neighbors'[p])
      <4>1. neighbors' = Linked(n, announced[n][s])  BY <3>1
      <4>2. Elements(Linked(n, announced[n][s])[p]) = After(n, s, p)  BY LinkedElements
      <4>3. QED  BY <4>1, <4>2 DEF After
    <3>3. CASE p = n
      <4>1. seq_num'[p] = s  BY <3>1, <3>3 DEF LinksType
      <4>2. \A t \in 0 .. MaxSeq : <<p, t>> \in heard' => t <= s
            BY <2>a, <2>b, <2>3, <2>5, <3>3
      <4>3. Elements(announced'[p][s]) \subseteq Elements(neighbors'[p])
            BY <2>2, <3>2, <3>3
      <4>4. <<p, s>> \in heard'  BY <2>2, <3>3
      <4>5. QED  BY <4>1, <4>2, <4>3, <4>4 DEF Newest
    <3>4. CASE p # n
      <4>1. seq_num'[p] = seq_num[p]  BY <3>1, <3>4 DEF LinksType
      <4>2. \A t \in 0 .. MaxSeq : <<p, t>> \in heard' => t <= seq_num[p]
            BY <2>a, <2>b, <3>4
      <4>3. QED  BY <2>2, <3>2, <3>4, <4>1, <4>2 DEF Newest
    <3>5. QED  BY <3>3, <3>4
  <2>6. QED  BY <2>4, <2>5
<1>2. CASE ~\E n \in Nodes, s \in 0 .. MaxSeq : ParseLine(n, s)
  <2>1. UNCHANGED <<announced, heard, seq_num, neighbors>>
        BY <1>2, OthersKeepLinks DEF Next
  <2>2. QED  BY <2>1 DEF Newest
<1>3. QED  BY <1>1, <1>2

\* The inductive form gives the invariant the runs check.
LEMMA NewestInvImplies == LinksType /\ NewestInv => NewestCounts
<1> SUFFICES ASSUME LinksType, NewestInv, NEW n \in Nodes
             PROVE  LET seqs == {s \in 0 .. MaxSeq : <<n, s>> \in heard}
                    IN  IF seqs = {} THEN seq_num[n] = -1
                        ELSE /\ seq_num[n] \in seqs /\ \A s \in seqs : s <= seq_num[n]
                             /\ Elements(announced[n][seq_num[n]]) \subseteq Elements(neighbors[n])
    BY DEF NewestCounts
<1> DEFINE seqs == {s \in 0 .. MaxSeq : <<n, s>> \in heard}
<1>1. seq_num[n] \in -1 .. MaxSeq  BY DEF LinksType
<1>2. Newest(n)  BY DEF NewestInv
<1>3. CASE seq_num[n] >= 0
  <2>1. seq_num[n] \in seqs  BY <1>1, <1>2, <1>3 DEF Newest
  <2>2. QED  BY <1>2, <1>3, <2>1 DEF Newest
<1>4. CASE ~(seq_num[n] >= 0)
  <2>1. seqs = {}  BY <1>1, <1>2, <1>4 DEF Newest
  <2>2. QED  BY <1>1, <1>4, <2>1
<1>5. QED  BY <1>3, <1>4

\* However the lines are ordered, the newest announcement that was heard of a
\* node is the one that counts.
THEOREM NewestCountsCorrect == Spec => []NewestCounts
<1>1. Init => LinksType /\ NewestInv  BY InitLinks, InitNewest
<1>2. LinksType /\ NewestInv /\ [Next]_vars => (LinksType /\ NewestInv)'
      BY NextLinks, NextNewest
<1>3. LinksType /\ NewestInv => NewestCounts  BY NewestInvImplies
<1>4. QED  BY <1>1, <1>2, <1>3, PTL DEF Spec

-----------------------------------------------------------------------------
\* Every set of numbers has a least member.
LEMMA Least == ASSUME NEW T \in SUBSET Nat, T # {} PROVE \E m \in T : \A k \in T : m <= k
<1> DEFINE R == {ss \in Nat \X Nat : ss[1] < ss[2]}
<1>1. OpToRel(<, Nat) = R
  BY Zenon DEF OpToRel
<1>2. IsWellFoundedOn(R, Nat)
  BY <1>1, NatLessThanWellFounded, Zenon
<1>3. \E x \in T : \A y \in T : ~(<<y, x>> \in R)
  <2> HIDE DEF R
  <2> QED BY <1>2, WFMin, Zenon
<1>4. PICK x \in T : \A y \in T : ~(<<y, x>> \in R)
  BY <1>3
<1>5. ASSUME NEW y \in T PROVE x <= y
  <2>1. <<y, x>> \notin R
    BY <1>4
  <2>2. x \in Nat /\ y \in Nat
    OBVIOUS
  <2> QED BY <2>1, <2>2
<1> QED BY <1>5

\* Induction up to n, over the set of the numbers that something holds of.
LEMMA UpTo ==
  ASSUME NEW n \in Nat, NEW T, 0 \in T, \A i \in 0 .. n - 1 : i \in T => i + 1 \in T
  PROVE  0 .. n \subseteq T
<1> SUFFICES ASSUME ~(0 .. n \subseteq T) PROVE FALSE
  OBVIOUS
<1>1. {i \in 0 .. n : i \notin T} \in SUBSET Nat /\ {i \in 0 .. n : i \notin T} # {}
  OBVIOUS
<1>2. PICK m \in {i \in 0 .. n : i \notin T} : \A k \in {i \in 0 .. n : i \notin T} : m <= k
  BY <1>1, Least
<1>3. m - 1 \in 0 .. n - 1 /\ m - 1 \in T
  BY <1>2
<1> QED BY <1>2, <1>3

\* A function that is defined from one number to the next.
LEMMA KeptExists == ASSUME NEW list, Len(list) \in Nat, NEW set
  PROVE \E f : f = [i \in 0 .. Len(list) |-> IF i = 0 THEN <<>>
        ELSE IF list[i] \in set THEN Append(f[i - 1], list[i]) ELSE f[i - 1]]
<1> DEFINE Val(f, i) == IF i = 0 THEN <<>>
             ELSE IF list[i] \in set THEN Append(f[i - 1], list[i]) ELSE f[i - 1]
           T == {n \in Nat : \E f : f = [i \in 0 .. n |-> Val(f, i)]}
<1>1. 0 \in T
  <2>1. [i \in 0 .. 0 |-> <<>>] = [i \in 0 .. 0 |-> Val([j \in 0 .. 0 |-> <<>>], i)]
    OBVIOUS
  <2> QED BY <2>1
<1>2. ASSUME NEW n \in Nat, n \in T PROVE n + 1 \in T
  <2>1. PICK f : f = [i \in 0 .. n |-> Val(f, i)]
    BY <1>2
  <2> DEFINE g == [i \in 0 .. n + 1 |-> IF i <= n THEN f[i] ELSE Val(f, n + 1)]
  <2>2. \A i \in 0 .. n : f[i] = Val(f, i)
    BY <2>1
  <2>3. \A i \in 0 .. n + 1 : Val(g, i) = Val(f, i)
    OBVIOUS
  <2>4. ASSUME NEW i \in 0 .. n + 1 PROVE g[i] = Val(g, i)
    <3> HIDE DEF Val
    <3>1. CASE i <= n
      <4>1. i \in 0 .. n /\ g[i] = f[i]
        BY <3>1
      <4> QED BY <4>1, <2>2, <2>3
    <3>2. CASE i = n + 1
      <4>1. g[i] = Val(f, i)
        BY <3>2
      <4> QED BY <4>1, <2>3
    <3> QED BY <3>1, <3>2
  <2>5. g = [i \in 0 .. n + 1 |-> Val(g, i)]
    <3> HIDE DEF Val
    <3> QED BY <2>4
  <2>6. \E h : h = [i \in 0 .. n + 1 |-> Val(h, i)]
    <3> HIDE DEF Val, g
    <3> QED BY <2>5, Zenon
  <2>7. n + 1 \in Nat
    OBVIOUS
  <2> HIDE DEF Val
  <2> QED BY <2>6, <2>7
<1>3. Len(list) \in T
  <2> HIDE DEF T
  <2> QED BY <1>1, <1>2, UpTo
<1> QED BY <1>3

\* A loop that has come to the end of list keeps what it kept before the last
\* node, and that node if it is a member.
LEMMA KeptSteps ==
  ASSUME NEW list, Len(list) \in Nat, NEW set
  PROVE  \E kept : /\ Kept(list, set) = kept[Len(list)]
                   /\ kept[0] = <<>>
                   /\ \A i \in 1 .. Len(list) :
                        kept[i] = IF list[i] \in set THEN Append(kept[i - 1], list[i])
                                  ELSE kept[i - 1]
<1> DEFINE Is(f) == f = [i \in 0 .. Len(list) |-> IF i = 0 THEN <<>>
             ELSE IF list[i] \in set THEN Append(f[i - 1], list[i]) ELSE f[i - 1]]
           kept == CHOOSE f : Is(f)
<1>0. Is(kept)
  <2>1. \E f : Is(f)
    BY KeptExists
  <2> HIDE DEF Is
  <2> QED BY <2>1, Zenon
<1>1. kept = [i \in 0 .. Len(list) |-> IF i = 0 THEN <<>>
        ELSE IF list[i] \in set THEN Append(kept[i - 1], list[i]) ELSE kept[i - 1]]
  <2> HIDE DEF kept
  <2> QED BY <1>0
<1>2. Kept(list, set) = kept[Len(list)]
  BY DEF Kept
<1> HIDE DEF kept
<1>3. kept[0] = <<>>
  <2>1. 0 \in 0 .. Len(list)
    OBVIOUS
  <2> QED BY <1>1, <2>1
<1>4. ASSUME NEW i \in 1 .. Len(list)
      PROVE  kept[i] = IF list[i] \in set THEN Append(kept[i - 1], list[i]) ELSE kept[i - 1]
  <2>1. i \in 0 .. Len(list) /\ i # 0
    OBVIOUS
  <2> QED BY <1>1, <2>1
<1> QED BY <1>2, <1>3, <1>4

\* What the loop keeps: the members of set among the nodes of list, as often
\* as they are in it.
LEMMA KeptMembers ==
  ASSUME NEW T, NEW list \in Seq(T), NEW set
  PROVE  /\ Kept(list, set) \in Seq(T)
         /\ Elements(Kept(list, set)) = Elements(list) \cap set
         /\ NoRepeats(list) => NoRepeats(Kept(list, set))
<1>1. Len(list) \in Nat /\ DOMAIN list = 1 .. Len(list)
  OBVIOUS
<1>2. PICK kept : /\ Kept(list, set) = kept[Len(list)]
                  /\ kept[0] = <<>>
                  /\ \A i \in 1 .. Len(list) :
                        kept[i] = IF list[i] \in set THEN Append(kept[i - 1], list[i])
                                  ELSE kept[i - 1]
  BY <1>1, KeptSteps
<1> DEFINE Upto(i) == {list[j] : j \in 1 .. i} \cap set
           Good(i) == /\ kept[i] \in Seq(T)
                      /\ Elements(kept[i]) = Upto(i)
                      /\ NoRepeats(list) => NoRepeats(kept[i])
           Reach == {i \in Nat : i <= Len(list) => Good(i)}
           Loop(i) == kept[i] = IF list[i] \in set THEN Append(kept[i - 1], list[i])
                                ELSE kept[i - 1]
<1>10. \A i \in 1 .. Len(list) : Loop(i)
  BY <1>2
<1>3. Good(0)
  <2>1. <<>> \in Seq(T) /\ DOMAIN <<>> = {}
    OBVIOUS
  <2> QED BY <1>2, <2>1 DEF Elements, NoRepeats
<1>4. ASSUME NEW i \in 0 .. Len(list) - 1, Good(i) PROVE Good(i + 1)
  <2>1. i + 1 \in 1 .. Len(list) /\ i + 1 - 1 = i /\ list[i + 1] \in T
    BY <1>1
  <2>2. Upto(i + 1) = Upto(i) \cup ({list[i + 1]} \cap set)
    BY <2>1
  <2>11. Loop(i + 1)
    <3> HIDE DEF Loop
    <3> QED BY <1>10, <2>1
  <2>12. kept[i + 1] = IF list[i + 1] \in set THEN Append(kept[i], list[i + 1]) ELSE kept[i]
    BY <2>11, <2>1
  <2>3. CASE list[i + 1] \in set
    <3>1. kept[i + 1] = Append(kept[i], list[i + 1])
      BY <2>12, <2>3
    <3>2. kept[i] \in Seq(T) /\ Elements(kept[i]) = Upto(i)
      BY <1>4
    <3>3. kept[i + 1] \in Seq(T) /\ Elements(kept[i + 1]) = Elements(kept[i]) \cup {list[i + 1]}
      <4> HIDE DEF Upto
      <4> QED BY <3>1, <3>2, <2>1, ElementsOfAppend
    <3>6. ASSUME NoRepeats(list) PROVE NoRepeats(kept[i + 1])
      <4>1. list[i + 1] \notin Elements(kept[i])
        <5>1. \A j \in 1 .. i : list[j] # list[i + 1]
          BY <3>6, <1>1, <2>1 DEF NoRepeats
        <5> QED BY <5>1, <1>4
      <4>2. NoRepeats(kept[i])
        BY <3>6, <1>4
      <4> HIDE DEF Upto
      <4> QED BY <4>1, <4>2, <3>1, <3>2, <2>1, NoRepeatsOfAppend
    <3> HIDE DEF Upto
    <3> QED BY <3>3, <3>6, <2>2, <2>3, <1>4
  <2>4. CASE list[i + 1] \notin set
    <3>1. kept[i + 1] = kept[i]
      BY <2>12, <2>4
    <3>2. Upto(i + 1) = Upto(i)
      BY <2>2, <2>4
    <3> HIDE DEF Upto
    <3> QED BY <3>1, <3>2, <1>4
  <2> QED BY <2>3, <2>4
<1>5. 0 .. Len(list) \subseteq Reach
  <2> HIDE DEF Good
  <2>1. 0 \in Reach
    BY <1>3
  <2>2. \A i \in 0 .. Len(list) - 1 : i \in Reach => i + 1 \in Reach
    BY <1>1, <1>4
  <2> HIDE DEF Reach
  <2> QED BY <1>1, <2>1, <2>2, UpTo
<1>6. Good(Len(list))
  <2> HIDE DEF Good
  <2> QED BY <1>1, <1>5
<1>7. Upto(Len(list)) = Elements(list) \cap set
  BY <1>1 DEF Elements
<1> HIDE DEF Upto
<1> QED BY <1>2, <1>6, <1>7

\* Turning a list over changes neither its nodes nor how often they are in it.
LEMMA ReversedMembers ==
  ASSUME NEW T, NEW list \in Seq(T)
  PROVE  /\ Reversed(list) \in Seq(T) /\ Len(Reversed(list)) = Len(list)
         /\ Elements(Reversed(list)) = Elements(list)
         /\ NoRepeats(list) => NoRepeats(Reversed(list))
<1> DEFINE n == Len(list)
<1>1. n \in Nat /\ DOMAIN list = 1 .. n /\ \A i \in 1 .. n : list[i] \in T
  OBVIOUS
<1> HIDE DEF n
<1>2. Reversed(list) = [i \in 1 .. n |-> list[n + 1 - i]]
  BY DEF Reversed, n
<1>3. \A i \in 1 .. n : n + 1 - i \in 1 .. n /\ n + 1 - (n + 1 - i) = i
  BY <1>1
<1>4. Reversed(list) \in [1 .. n -> T]
  BY <1>1, <1>2, <1>3
<1>5. Reversed(list) \in Seq(T)
  BY <1>1, <1>4
<1>6. Len(Reversed(list)) = n /\ DOMAIN Reversed(list) = 1 .. n
  BY <1>1, <1>4, <1>5
<1>7. Elements(Reversed(list)) = Elements(list)
  <2>1. ASSUME NEW i \in 1 .. n PROVE Reversed(list)[i] \in Elements(list)
    BY <1>1, <1>2, <1>3 DEF Elements
  <2>2. ASSUME NEW i \in 1 .. n PROVE list[i] \in Elements(Reversed(list))
    <3>1. Reversed(list)[n + 1 - i] = list[i]
      BY <1>2, <1>3
    <3> QED BY <3>1, <1>3, <1>6 DEF Elements
  <2> QED BY <2>1, <2>2, <1>1, <1>6 DEF Elements
<1>8. NoRepeats(list) => NoRepeats(Reversed(list))
  <2>1. SUFFICES ASSUME NoRepeats(list), NEW i \in 1 .. n, NEW j \in 1 .. n,
                        Reversed(list)[i] = Reversed(list)[j]
                 PROVE  i = j
    BY <1>6 DEF NoRepeats
  <2>2. list[n + 1 - i] = list[n + 1 - j]
    BY <1>2, <2>1
  <2>3. n + 1 - i = n + 1 - j
    BY <2>1, <2>2, <1>1, <1>3 DEF NoRepeats
  <2> QED BY <2>3, <1>1
<1> QED BY <1>5, <1>6, <1>7, <1>8 DEF n

\* One list after another.
LEMMA JoinedMembers ==
  ASSUME NEW T, NEW a \in Seq(T), NEW b \in Seq(T)
  PROVE  /\ a \o b \in Seq(T)
         /\ Len(a \o b) = Len(a) + Len(b)
         /\ Elements(a \o b) = Elements(a) \cup Elements(b)
         /\ NoRepeats(a) /\ NoRepeats(b) /\ Elements(a) \cap Elements(b) = {}
              => NoRepeats(a \o b)
         /\ b # <<>> => a \o b # <<>> /\ (a \o b)[Len(a \o b)] = b[Len(b)]
<1> DEFINE m == Len(a)
           n == Len(b)
           c == a \o b
<1>1. m \in Nat /\ n \in Nat /\ DOMAIN a = 1 .. m /\ DOMAIN b = 1 .. n
  OBVIOUS
<1>2. c \in Seq(T) /\ Len(c) = m + n
  OBVIOUS
<1>3. /\ \A i \in 1 .. m : c[i] = a[i]
      /\ \A i \in 1 .. n : c[m + i] = b[i]
      /\ \A i \in m + 1 .. m + n : c[i] = b[i - m]
  OBVIOUS
<1>4. DOMAIN c = 1 .. m + n
  BY <1>2
<1> HIDE DEF m, n, c
<1>5. Elements(c) = Elements(a) \cup Elements(b)
  <2>1. ASSUME NEW i \in 1 .. m + n PROVE c[i] \in Elements(a) \cup Elements(b)
    <3>1. CASE i <= m
      <4>1. i \in 1 .. m
        BY <3>1, <1>1
      <4> QED BY <4>1, <1>1, <1>3 DEF Elements
    <3>2. CASE i > m
      <4>1. i \in m + 1 .. m + n /\ i - m \in 1 .. n
        BY <3>2, <1>1
      <4> QED BY <4>1, <1>1, <1>3 DEF Elements
    <3> QED BY <3>1, <3>2, <1>1
  <2>2. ASSUME NEW i \in 1 .. m PROVE a[i] \in Elements(c)
    <3>1. i \in 1 .. m + n /\ c[i] = a[i]
      BY <1>1, <1>3
    <3> QED BY <3>1, <1>4 DEF Elements
  <2>3. ASSUME NEW i \in 1 .. n PROVE b[i] \in Elements(c)
    <3>1. m + i \in 1 .. m + n /\ c[m + i] = b[i]
      BY <1>1, <1>3
    <3> QED BY <3>1, <1>4 DEF Elements
  <2> QED BY <2>1, <2>2, <2>3, <1>1, <1>4 DEF Elements
<1>6. ASSUME NoRepeats(a), NoRepeats(b), Elements(a) \cap Elements(b) = {} PROVE NoRepeats(c)
  <2>1. \A i \in 1 .. m, j \in 1 .. n : a[i] # b[j]
    BY <1>6, <1>1 DEF Elements
  <2>2. \A i, j \in 1 .. m : a[i] = a[j] => i = j
    BY <1>6, <1>1 DEF NoRepeats
  <2>3. \A i, j \in 1 .. n : b[i] = b[j] => i = j
    BY <1>6, <1>1 DEF NoRepeats
  <2>4. ASSUME NEW i \in 1 .. m + n, NEW j \in 1 .. m + n, c[i] = c[j] PROVE i = j
    <3>1. \A k \in 1 .. m + n : (k \in 1 .. m /\ c[k] = a[k])
                              \/ (k > m /\ k - m \in 1 .. n /\ c[k] = b[k - m])
      BY <1>1, <1>3
    <3>2. CASE i \in 1 .. m /\ j \in 1 .. m
      BY <3>2, <1>3, <2>2, <2>4
    <3>3. CASE i > m /\ j > m
      <4>1. i - m \in 1 .. n /\ j - m \in 1 .. n /\ b[i - m] = b[j - m]
        BY <3>3, <3>1, <2>4, <1>1
      <4>2. i - m = j - m
        BY <4>1, <2>3
      <4> QED BY <4>2, <1>1
    <3>4. CASE i \in 1 .. m /\ j > m
      BY <3>4, <3>1, <2>4, <2>1, <1>1
    <3>5. CASE i > m /\ j \in 1 .. m
      BY <3>5, <3>1, <2>4, <2>1, <1>1
    <3> QED BY <3>1, <3>2, <3>3, <3>4, <3>5
  <2> QED BY <2>4, <1>4 DEF NoRepeats
<1>7. ASSUME b # <<>> PROVE c # <<>> /\ c[Len(c)] = b[Len(b)]
  <2>1. n # 0
    BY <1>7 DEF n
  <2>2. Len(c) # 0 /\ Len(c) = m + n /\ n \in 1 .. n
    BY <2>1, <1>1, <1>2
  <2>3. c # <<>>
    BY <2>2
  <2> QED BY <2>2, <2>3, <1>3 DEF n
<1> QED BY <1>2, <1>5, <1>6, <1>7 DEF m, n, c

-----------------------------------------------------------------------------
\* The lists hold every node once, the servers are the oldest nodes, and
\* nothing of the table is there before the file is read.
ListsOK ==
  /\ pc \in {"lines", "build", "bfs", "done", "failed", "crashed"}
  /\ lines \in 0 .. MaxLines
  /\ nodes \in Seq(Nodes) /\ NoRepeats(nodes)
  /\ clients \in Seq(Nodes) /\ Elements(clients) \subseteq Elements(nodes) /\ NoRepeats(clients)
  /\ \A n \in Nodes : /\ NoRepeats(neighbors[n])
                      /\ Elements(neighbors[n]) \subseteq Elements(nodes) \ {n}
  /\ garbage \subseteq Elements(nodes)
  /\ \A n \in Nodes : seq_num[n] # -1 => n \in Elements(nodes)
  /\ Elements(servers) \subseteq Elements(nodes)
  /\ servers # <<>> => nodes # <<>> /\ nodes[Len(nodes)] \in Elements(servers)
  /\ pc \in {"build", "bfs"} => servers # <<>>
  /\ pc = "lines" => pt = 1 /\ routing_table = <<>> /\ queue = <<>> /\ visited = {}

\* A list is typed by its elements.
LEMMA SeqOfElements ==
  ASSUME NEW T, NEW list \in Seq(T), NEW S, Elements(list) \subseteq S
  PROVE  list \in Seq(S)
<1>1. \A i \in 1 .. Len(list) : list[i] \in S
  BY DEF Elements
<1> QED BY <1>1

\* Its elements are in the type of a list.
LEMMA ElementsOfSeq ==
  ASSUME NEW T, NEW list \in Seq(T)
  PROVE  /\ Elements(list) \subseteq T
         /\ Elements(list) = {list[i] : i \in 1 .. Len(list)}
         /\ Elements(list) = {} <=> list = <<>>
BY DEF Elements

\* One node is put in front of a list unless it is in it.
LEMMA AddedMembers ==
  ASSUME NEW list \in Seq(Nodes), NEW n \in Nodes
  PROVE  /\ Added(list, n) \in Seq(Nodes)
         /\ Elements(Added(list, n)) = Elements(list) \cup {n}
         /\ NoRepeats(list) => NoRepeats(Added(list, n))
         /\ list # <<>> => /\ Added(list, n) # <<>>
                           /\ Added(list, n)[Len(Added(list, n))] = list[Len(list)]
<1>1. CASE n \in Elements(list)
  <2>1. Added(list, n) = list
    BY <1>1 DEF Added
  <2> QED BY <2>1, <1>1
<1>2. CASE n \notin Elements(list)
  <2> DEFINE front == <<n>>
  <2>1. Added(list, n) = front \o list
    BY <1>2 DEF Added
  <2>2. front \in Seq(Nodes) /\ Elements(front) = {n} /\ NoRepeats(front)
    BY DEF Elements, NoRepeats
  <2> HIDE DEF front
  <2>3. Elements(front) \cap Elements(list) = {}
    BY <1>2, <2>2
  <2>4. Elements(front) \cup Elements(list) = Elements(list) \cup {n}
    BY <2>2
  <2>5. /\ front \o list \in Seq(Nodes)
        /\ Elements(front \o list) = Elements(front) \cup Elements(list)
        /\ NoRepeats(front) /\ NoRepeats(list) => NoRepeats(front \o list)
    BY <2>2, <2>3, JoinedMembers
  <2>6. list # <<>> => /\ front \o list # <<>>
                       /\ (front \o list)[Len(front \o list)] = list[Len(list)]
    BY <2>2, JoinedMembers
  <2> QED BY <2>1, <2>2, <2>4, <2>5, <2>6
<1> QED BY <1>1, <1>2

\* The new ones of the nodes ns are put in front of a list.
LEMMA AddedAllMembers ==
  ASSUME NEW list \in Seq(Nodes), NEW ns \in Seq(Nodes)
  PROVE  /\ AddedAll(list, ns) \in Seq(Nodes)
         /\ Elements(AddedAll(list, ns)) = Elements(list) \cup Elements(ns)
         /\ NoRepeats(list) /\ NoRepeats(ns) => NoRepeats(AddedAll(list, ns))
         /\ list # <<>> => /\ AddedAll(list, ns) # <<>>
                           /\ AddedAll(list, ns)[Len(AddedAll(list, ns))] = list[Len(list)]
<1> DEFINE kept == Kept(ns, Nodes \ Elements(list))
           front == Reversed(kept)
<1>1. /\ kept \in Seq(Nodes) /\ Elements(kept) = Elements(ns) \cap (Nodes \ Elements(list))
      /\ NoRepeats(ns) => NoRepeats(kept)
  BY KeptMembers
<1> HIDE DEF kept
<1>2. /\ front \in Seq(Nodes) /\ Elements(front) = Elements(kept)
      /\ NoRepeats(kept) => NoRepeats(front)
  BY <1>1, ReversedMembers
<1>3. AddedAll(list, ns) = front \o list
  BY DEF AddedAll, kept
<1> HIDE DEF front
<1>4. Elements(front) \cap Elements(list) = {}
  BY <1>1, <1>2
<1>5. Elements(ns) \subseteq Nodes
  BY ElementsOfSeq
<1>6. Elements(front) \cup Elements(list) = Elements(list) \cup Elements(ns)
  BY <1>1, <1>2, <1>5
<1>7. /\ front \o list \in Seq(Nodes)
      /\ Elements(front \o list) = Elements(front) \cup Elements(list)
      /\ NoRepeats(front) /\ NoRepeats(list) => NoRepeats(front \o list)
  BY <1>2, <1>4, JoinedMembers
<1>8. list # <<>> => /\ front \o list # <<>>
                     /\ (front \o list)[Len(front \o list)] = list[Len(list)]
  BY <1>2, JoinedMembers
<1> QED BY <1>1, <1>2, <1>3, <1>6, <1>7, <1>8

\* The server file makes the lists.
LEMMA InitLists == Init => ListsOK
<1> SUFFICES ASSUME Init PROVE ListsOK
  OBVIOUS
<1>1. /\ servers \in Seq(Nodes) /\ NoRepeats(servers)
  <2>1. servers \in Seq(Nodes \ Routers)
    BY FilesAssumption DEF servers
  <2> QED BY <2>1, FilesAssumption DEF servers
<1>2. nodes = Reversed(servers)
  BY DEF Init
<1>3. /\ nodes \in Seq(Nodes) /\ NoRepeats(nodes) /\ Elements(nodes) = Elements(servers)
      /\ Len(nodes) = Len(servers)
  BY <1>1, <1>2, ReversedMembers
<1>4. ASSUME servers # <<>> PROVE nodes # <<>> /\ nodes[Len(nodes)] \in Elements(servers)
  <2>1. Len(servers) \in Nat /\ Len(servers) # 0
    BY <1>1, <1>4
  <2>2. nodes # <<>> /\ Len(nodes) \in 1 .. Len(nodes)
    BY <1>3, <2>1
  <2>3. nodes[Len(nodes)] \in Elements(nodes)
    BY <2>2, <1>3, ElementsOfSeq
  <2> QED BY <2>2, <2>3, <1>3
<1>5. garbage \subseteq Elements(nodes)
  BY <1>3 DEF Init
<1>6. /\ clients = <<>> /\ Elements(clients) = {} /\ NoRepeats(clients)
      /\ clients \in Seq(Nodes)
  BY DEF Init, Elements, NoRepeats
<1>7. \A n \in Nodes : NoRepeats(neighbors[n]) /\ Elements(neighbors[n]) = {}
  BY DEF Init, Elements, NoRepeats
<1>8. pc = "lines" /\ lines = 0 /\ pt = 1 /\ routing_table = <<>> /\ queue = <<>> /\ visited = {}
  BY DEF Init
<1>9. lines \in 0 .. MaxLines /\ \A n \in Nodes : seq_num[n] = -1
  BY <1>8, BoundsAssumption DEF Init
<1> QED BY <1>3, <1>4, <1>5, <1>6, <1>7, <1>8, <1>9 DEF ListsOK

\* What one announcement lists is listed once.
LEMMA ListedOnce ==
  ASSUME announced \in Topologies, NEW n \in Nodes, NEW s \in 0 .. MaxSeq
  PROVE  NoRepeats(announced[n][s])
BY TopologiesAssumption

\* One line adds to the lists.
LEMMA LineLists ==
  ASSUME LinksType, ListsOK, NEW n \in Nodes, NEW s \in 0 .. MaxSeq, ParseLine(n, s)
  PROVE  ListsOK'
<1> DEFINE list == announced[n][s]
           known == Added(nodes, n)
<1>1. /\ list \in Seq(Nodes) /\ n \notin Elements(list) /\ Elements(list) \subseteq Nodes
      /\ NoRepeats(list)
  BY ListedAreNodes, ListedOnce DEF LinksType
<1>2. /\ pc = "lines" /\ lines < MaxLines /\ lines' = lines + 1
      /\ clients' = IF n \in Elements(servers) \cup Routers THEN clients ELSE Added(clients, n)
      /\ UNCHANGED <<pt, routing_table, queue, visited>>
  BY DEF ParseLine, search
<1>3. /\ Newer(n, s) =>
           /\ nodes' = AddedAll(known, list) /\ neighbors' = Linked(n, list)
           /\ \E junk \in SUBSET ((Elements(list) \cup {n}) \ Elements(nodes)) :
                garbage' = (garbage \cup junk) \ {n}
           /\ pc' \in {pc, "crashed"} /\ seq_num' = [seq_num EXCEPT ![n] = s]
      /\ ~Newer(n, s) => UNCHANGED <<pc, nodes, seq_num, neighbors, garbage>>
  BY Zenon DEF ParseLine
<1>4. /\ servers' = servers
  BY DEF servers
<1> HIDE DEF list
<1>5. lines' \in 0 .. MaxLines
  BY <1>2, BoundsAssumption DEF ListsOK
<1>6. pc' \in {"lines", "crashed"}
  BY <1>2, <1>3
<1>7. pc' = "lines" => pt' = 1 /\ routing_table' = <<>> /\ queue' = <<>> /\ visited' = {}
  BY <1>2 DEF ListsOK
<1>8. /\ known \in Seq(Nodes) /\ Elements(known) = Elements(nodes) \cup {n}
      /\ NoRepeats(known)
      /\ nodes # <<>> => known # <<>> /\ known[Len(known)] = nodes[Len(nodes)]
  BY AddedMembers DEF ListsOK
<1> HIDE DEF known
<1>12. /\ clients' \in Seq(Nodes) /\ Elements(clients') \subseteq Elements(nodes) \cup {n}
       /\ NoRepeats(clients')
  <2>1. /\ clients \in Seq(Nodes) /\ Elements(clients) \subseteq Elements(nodes)
        /\ NoRepeats(clients)
    BY DEF ListsOK
  <2>2. CASE clients' = clients
    BY <2>1, <2>2
  <2>3. CASE clients' = Added(clients, n)
    <3>1. /\ Added(clients, n) \in Seq(Nodes) /\ NoRepeats(Added(clients, n))
          /\ Elements(Added(clients, n)) = Elements(clients) \cup {n}
      BY <2>1, AddedMembers
    <3> QED BY <2>1, <2>3, <3>1
  <2> QED BY <1>2, <2>2, <2>3
<1>9. CASE Newer(n, s)
  <2>1. nodes' = AddedAll(known, list) /\ neighbors' = Linked(n, list)
    BY <1>3, <1>9
  <2>2. /\ nodes' \in Seq(Nodes) /\ Elements(nodes') = Elements(nodes) \cup {n} \cup Elements(list)
        /\ NoRepeats(nodes')
        /\ known # <<>> => nodes' # <<>> /\ nodes'[Len(nodes')] = known[Len(known)]
    BY <2>1, <1>1, <1>8, AddedAllMembers
  <2>4. garbage' \subseteq Elements(nodes')
    BY <1>3, <1>9, <2>2 DEF ListsOK
  <2>5. servers # <<>> => nodes' # <<>> /\ nodes'[Len(nodes')] \in Elements(servers)
    BY <2>2, <1>8 DEF ListsOK
  <2>6. Elements(servers) \subseteq Elements(nodes')
    BY <2>2 DEF ListsOK
  <2>7. ASSUME NEW m \in Nodes
        PROVE  NoRepeats(neighbors'[m]) /\ Elements(neighbors'[m]) \subseteq Elements(nodes') \ {m}
    <3>1. /\ neighbors[m] \in Seq(Nodes) /\ NoRepeats(neighbors[m])
          /\ Elements(neighbors[m]) \subseteq Elements(nodes) \ {m}
      BY DEF ListsOK, LinksType
    <3>2. CASE m = n
      <4>1. neighbors'[m] = list
        BY <2>1, <3>2 DEF Linked
      <4> QED BY <4>1, <1>1, <2>2, <3>2
    <3>3. CASE m # n /\ m \in Elements(list)
      <4>1. neighbors'[m] = AddReverse(m, n)
        BY <2>1, <3>3 DEF Linked
      <4>2. Elements(AddReverse(m, n)) = Elements(neighbors[m]) \cup {n}
        BY AddReverseAdds DEF LinksType
      <4>3. NoRepeats(AddReverse(m, n))
        <5>1. CASE n \in Elements(neighbors[m])
          BY <5>1, <3>1 DEF AddReverse
        <5>2. CASE n \notin Elements(neighbors[m])
          <6>1. AddReverse(m, n) = Append(neighbors[m], n)
            BY <5>2 DEF AddReverse
          <6> QED BY <6>1, <5>2, <3>1, NoRepeatsOfAppend
        <5> QED BY <5>1, <5>2
      <4> QED BY <4>1, <4>2, <4>3, <3>1, <3>3, <2>2
    <3>4. CASE m # n /\ m \notin Elements(list)
      <4>1. neighbors'[m] = neighbors[m]
        BY <2>1, <3>4 DEF Linked
      <4> QED BY <4>1, <3>1, <2>2
    <3> QED BY <3>2, <3>3, <3>4
  <2>8. Elements(clients') \subseteq Elements(nodes')
    BY <2>2, <1>12
  <2>9. ASSUME NEW m \in Nodes, seq_num'[m] # -1 PROVE m \in Elements(nodes')
    <3>1. m # n => seq_num'[m] = seq_num[m]
      BY <1>3, <1>9 DEF LinksType
    <3> QED BY <3>1, <2>2, <2>9 DEF ListsOK
  <2> QED BY <1>12, <2>2, <2>4, <2>5, <2>6, <2>7, <2>8, <2>9, <1>4, <1>5, <1>6, <1>7 DEF ListsOK
<1>10. CASE ~Newer(n, s)
  <2>1. nodes' = nodes /\ neighbors' = neighbors /\ garbage' = garbage
    BY <1>3, <1>10
  <2>2. n \in Elements(nodes) /\ seq_num' = seq_num
    <3>1. seq_num[n] \in -1 .. MaxSeq /\ ~(s > seq_num[n])
      BY <1>10 DEF Newer, LinksType
    <3>2. seq_num[n] # -1
      BY <3>1
    <3> QED BY <3>2, <1>3, <1>10 DEF ListsOK
  <2>3. Elements(clients') \subseteq Elements(nodes)
    BY <1>12, <2>2 DEF ListsOK
  <2> QED BY <2>1, <2>2, <2>3, <1>12, <1>4, <1>5, <1>6, <1>7 DEF ListsOK
<1> QED BY <1>9, <1>10

\* Building the table leaves the lists alone.
LEMMA BuildingKeepsLists ==
  ASSUME EndOfFile \/ NextClient \/ TableBuilt \/ BfsPop \/ BfsEmpty \/ Stopped
  PROVE  UNCHANGED <<announced, lines, parsed>>
BY DEF EndOfFile, NextClient, TableBuilt, BfsPop, BfsEmpty, Stopped, vars

\* Every step keeps the lists in shape.
LEMMA NextLists == LinksType /\ ListsOK /\ [Next]_vars => ListsOK'
<1> SUFFICES ASSUME LinksType, ListsOK, [Next]_vars PROVE ListsOK'
  OBVIOUS
<1>1. CASE \E n \in Nodes, s \in 0 .. MaxSeq : ParseLine(n, s)
  BY <1>1, LineLists
<1>2. CASE EndOfFile \/ NextClient \/ TableBuilt \/ BfsPop \/ BfsEmpty \/ Stopped
  <2>1. UNCHANGED <<announced, lines, parsed>>
    BY <1>2, BuildingKeepsLists
  <2>2. pc' \in {"build", "bfs", "done", "failed", "crashed"} \/ UNCHANGED vars
    BY <1>2 DEF EndOfFile, NextClient, TableBuilt, BfsPop, BfsEmpty, Found, Stopped, ListsOK
  <2>3. pc' \in {"build", "bfs"} => servers # <<>>
    BY <1>2 DEF EndOfFile, NextClient, TableBuilt, BfsPop, BfsEmpty, Found, Stopped, ListsOK,
                vars
  <2>4. servers' = servers
    BY DEF servers
  <2>5. nodes' = nodes /\ clients' = clients /\ seq_num' = seq_num /\ neighbors' = neighbors
        /\ garbage' = garbage /\ lines' = lines
    BY <2>1 DEF parsed
  <2>6. CASE UNCHANGED vars
    BY <2>6 DEF vars, parsed, search, ListsOK, servers
  <2> QED BY <2>2, <2>3, <2>4, <2>5, <2>6 DEF ListsOK
<1>3. CASE UNCHANGED vars
  BY <1>3 DEF vars, parsed, search, ListsOK, servers
<1> QED BY <1>1, <1>2, <1>3 DEF Next

-----------------------------------------------------------------------------
\* The first m entries are those that have a server: one for every node that
\* build_routing_table has done and not skipped.
Filled(m) ==
  /\ m \in Nat /\ m <= Len(routing_table) /\ Len(routing_table) <= m + 1
  /\ \A i \in 1 .. m : routing_table[i].server_ip # Unset
  /\ \A i \in m + 1 .. Len(routing_table) : routing_table[i].server_ip = Unset
  /\ \A i \in 1 .. m : \E j \in 1 .. pt - 1 :
       routing_table[i].client_ip = nodes[j] /\ ~Skipped(nodes[j])
  /\ \A j \in 1 .. pt - 1 : ~Skipped(nodes[j]) =>
       \E i \in 1 .. m : routing_table[i].client_ip = nodes[j]
  /\ \A i, j \in 1 .. m :
       routing_table[i].client_ip = routing_table[j].client_ip => i = j

\* An entry without a server behind them is a skipped node's.
Between(m) == /\ Len(routing_table) < pt
              /\ \A i \in m + 1 .. Len(routing_table) : Skipped(routing_table[i].client_ip)

\* While a client's search goes on, the last entry is the client's.  Its own
\* garbage ends the search at once.
Searching(m) ==
  /\ pt <= Len(nodes) /\ ~Skipped(nodes[pt])
  /\ Len(routing_table) = m + 1 /\ m + 1 <= pt
  /\ routing_table[m + 1].client_ip = nodes[pt]
  /\ nodes[pt] \in garbage => queue = <<nodes[pt]>>

Entry == [client_ip : Elements(nodes), server_ip : Elements(servers) \cup {Unset}]

Rows ==
  /\ pt \in 1 .. Len(nodes) + 1
  /\ routing_table \in Seq(Entry) /\ Len(routing_table) <= Len(nodes)
  /\ queue \in Seq(Nodes) /\ Elements(queue) \subseteq visited /\ visited \subseteq Elements(nodes)

TableOK ==
  /\ Rows
  /\ pc \in {"build", "bfs", "done"} =>
       \A j \in 1 .. pt - 1 : Skipped(nodes[j]) \/ nodes[j] \notin garbage
  /\ pc \in {"build", "done"} => \E m \in Nat : Filled(m) /\ Between(m)
  /\ pc = "bfs" => \E m \in Nat : Filled(m) /\ Searching(m)
  /\ pc = "done" => pt = Len(nodes) + 1

\* The beginning of a list.
LEMMA PrefixOf ==
  ASSUME NEW T, NEW list \in Seq(T), NEW m \in 0 .. Len(list)
  PROVE  /\ SubSeq(list, 1, m) \in Seq(T) /\ Len(SubSeq(list, 1, m)) = m
         /\ \A i \in 1 .. m : SubSeq(list, 1, m)[i] = list[i]
<1>1. SubSeq(list, 1, m) = [i \in 1 .. m |-> list[i]]
  <2>1. SubSeq(list, 1, m) = [i \in 1 .. 1 + m - 1 |-> list[i + 1 - 1]]
    OBVIOUS
  <2> QED BY <2>1
<1>2. \A i \in 1 .. m : list[i] \in T
  OBVIOUS
<1> QED BY <1>1, <1>2

\* cnt is the number of the entries with a server.
LEMMA Counted ==
  ASSUME ListsOK, Rows, NEW m \in Nat, Filled(m), NEW n \in Elements(nodes)
  PROVE  /\ Written(n) \in Seq(Entry) /\ Len(Written(n)) = m + 1
         /\ \A i \in 1 .. m : Written(n)[i] = routing_table[i]
         /\ Written(n)[m + 1] = [client_ip |-> n, server_ip |-> Unset]
<1> DEFINE cnt == Cardinality({i \in DOMAIN routing_table : routing_table[i].server_ip # Unset})
           new == [client_ip |-> n, server_ip |-> Unset]
<1>1. DOMAIN routing_table = 1 .. Len(routing_table) /\ Len(routing_table) \in Nat
  BY DEF Rows
<1>2. {i \in DOMAIN routing_table : routing_table[i].server_ip # Unset} = 1 .. m
  <2>1. ASSUME NEW i \in 1 .. Len(routing_table)
        PROVE  routing_table[i].server_ip # Unset <=> i \in 1 .. m
    <3>1. i \in 1 .. m \/ i \in m + 1 .. Len(routing_table)
      BY <1>1
    <3> QED BY <3>1 DEF Filled
  <2>2. 1 .. m \subseteq 1 .. Len(routing_table)
    BY <1>1 DEF Filled
  <2> QED BY <1>1, <2>1, <2>2
<1>3. cnt = m
  <2>1. Cardinality(1 .. m) = m
    BY FS_Interval
  <2> QED BY <1>2, <2>1
<1> HIDE DEF cnt
<1>4. Written(n) = Append(SubSeq(routing_table, 1, m), new)
  BY <1>3 DEF Written, cnt
<1>5. new \in Entry
  BY DEF Entry
<1>6. /\ SubSeq(routing_table, 1, m) \in Seq(Entry) /\ Len(SubSeq(routing_table, 1, m)) = m
      /\ \A i \in 1 .. m : SubSeq(routing_table, 1, m)[i] = routing_table[i]
  <2>1. routing_table \in Seq(Entry) /\ m \in 0 .. Len(routing_table)
    BY <1>1 DEF Rows, Filled
  <2> QED BY <1>1, <2>1, PrefixOf
<1> DEFINE sub == SubSeq(routing_table, 1, m)
<1> HIDE DEF new, sub
<1>7. sub \in Seq(Entry) /\ Len(sub) = m /\ \A i \in 1 .. m : sub[i] = routing_table[i]
  BY <1>6 DEF sub
<1>8. /\ Append(sub, new) \in Seq(Entry) /\ Len(Append(sub, new)) = m + 1
      /\ \A i \in 1 .. m : Append(sub, new)[i] = sub[i]
      /\ Append(sub, new)[m + 1] = new
  BY <1>5, <1>7
<1> QED BY <1>4, <1>7, <1>8 DEF sub, new

\* What the table is made of does not change while it is built.
LEMMA BuildingKeeps ==
  ASSUME UNCHANGED <<announced, lines, parsed>>
  PROVE  /\ nodes' = nodes /\ neighbors' = neighbors /\ garbage' = garbage
         /\ servers' = servers /\ Default' = Default
         /\ \A n : Skipped(n)' <=> Skipped(n)
         /\ Entry' = Entry
BY DEF parsed, Skipped, servers, Entry, Default

\* The step from one node of the list to the next, without a search.
LEMMA NextClientTable == ListsOK /\ TableOK /\ NextClient => TableOK'
<1> SUFFICES ASSUME ListsOK, TableOK, NextClient PROVE TableOK'
  OBVIOUS
<1> DEFINE n == nodes[pt]
<1>1. /\ pc = "build" /\ pt <= Len(nodes) /\ routing_table' = Written(n)
      /\ UNCHANGED <<announced, lines, parsed>>
      /\ Skipped(n) => pt' = pt + 1 /\ pc' = pc /\ UNCHANGED <<queue, visited>>
      /\ ~Skipped(n) => pc' = "bfs" /\ pt' = pt /\ queue' = <<n>> /\ visited' = {n}
  BY DEF NextClient, search
<1>2. /\ nodes' = nodes /\ garbage' = garbage /\ servers' = servers
      /\ \A x : Skipped(x)' <=> Skipped(x)
      /\ Entry' = Entry
  BY <1>1, BuildingKeeps
<1>3. PICK m \in Nat : Filled(m) /\ Between(m)
  BY <1>1 DEF TableOK
<1>4. /\ Len(nodes) \in Nat /\ pt \in 1 .. Len(nodes) /\ n \in Elements(nodes) /\ n \in Nodes
  <2>1. Len(nodes) \in Nat /\ nodes \in Seq(Nodes)
    BY DEF ListsOK
  <2>2. pt \in 1 .. Len(nodes)
    BY <1>1, <2>1 DEF TableOK, Rows
  <2> QED BY <2>1, <2>2, ElementsOfSeq
<1> HIDE DEF n
<1>5. /\ routing_table' \in Seq(Entry) /\ Len(routing_table') = m + 1
      /\ \A i \in 1 .. m : routing_table'[i] = routing_table[i]
      /\ routing_table'[m + 1] = [client_ip |-> n, server_ip |-> Unset]
  BY <1>1, <1>3, <1>4, Counted DEF TableOK
<1>6. /\ routing_table'[m + 1].client_ip = n
      /\ routing_table'[m + 1].server_ip = Unset
  BY <1>5
<1>7. m + 1 <= pt
  BY <1>3, <1>4 DEF Filled, Between, TableOK, Rows
<1>8. CASE Skipped(n)
  <2>1. pt' = pt + 1 /\ pc' = "build" /\ UNCHANGED <<queue, visited>>
    BY <1>1, <1>8
  <2>2. Rows'
    BY <1>2, <1>4, <1>5, <1>7, <2>1 DEF Rows, TableOK
  <2>3. \A j \in 1 .. pt : Skipped(nodes[j]) \/ nodes[j] \notin garbage
    <3>1. \A j \in 1 .. pt : j \in 1 .. pt - 1 \/ j = pt
      BY <1>4
    <3>2. \A j \in 1 .. pt - 1 : Skipped(nodes[j]) \/ nodes[j] \notin garbage
      BY <1>1 DEF TableOK
    <3> QED BY <1>8, <3>1, <3>2 DEF n
  <2>4. pt' - 1 = pt
    BY <1>4, <2>1
  <2>5. Filled(m)'
    <3>1. m \in Nat /\ m <= Len(routing_table') /\ Len(routing_table') <= m + 1
      BY <1>5
    <3>2. \A i \in 1 .. m : routing_table'[i].server_ip # Unset
      BY <1>3, <1>5 DEF Filled
    <3>3. \A i \in m + 1 .. Len(routing_table') : routing_table'[i].server_ip = Unset
      BY <1>5, <1>6
    <3>4. \A i \in 1 .. m : \E j \in 1 .. pt :
            routing_table'[i].client_ip = nodes[j] /\ ~Skipped(nodes[j])
      <4>1. 1 .. pt - 1 \subseteq 1 .. pt
        BY <1>4
      <4> QED BY <1>3, <1>5, <4>1 DEF Filled
    <3>5. \A j \in 1 .. pt : ~Skipped(nodes[j]) =>
            \E i \in 1 .. m : routing_table'[i].client_ip = nodes[j]
      <4>1. \A j \in 1 .. pt : j \in 1 .. pt - 1 \/ j = pt
        BY <1>4
      <4>2. \A j \in 1 .. pt - 1 : ~Skipped(nodes[j]) =>
              \E i \in 1 .. m : routing_table[i].client_ip = nodes[j]
        BY <1>3 DEF Filled
      <4> QED BY <1>5, <1>8, <4>1, <4>2 DEF n
    <3>6. \A i, j \in 1 .. m :
            routing_table'[i].client_ip = routing_table'[j].client_ip => i = j
      BY <1>3, <1>5 DEF Filled
    <3> QED BY <1>2, <2>4, <3>1, <3>2, <3>3, <3>4, <3>5, <3>6 DEF Filled
  <2>6. Between(m)'
    BY <1>2, <1>4, <1>5, <1>6, <1>7, <1>8, <2>1 DEF Between
  <2> QED BY <1>2, <2>1, <2>2, <2>3, <2>4, <2>5, <2>6 DEF TableOK
<1>9. CASE ~Skipped(n)
  <2>1. pc' = "bfs" /\ pt' = pt /\ queue' = <<n>> /\ visited' = {n}
    BY <1>1, <1>9
  <2>2. Rows'
    <3>1. Elements(<<n>>) = {n} /\ <<n>> \in Seq(Nodes)
      BY <1>4 DEF Elements
    <3> QED BY <1>2, <1>4, <1>5, <1>7, <2>1, <3>1 DEF Rows, TableOK
  <2>3. \A j \in 1 .. pt - 1 : Skipped(nodes[j]) \/ nodes[j] \notin garbage
    BY <1>1 DEF TableOK
  <2>4. Filled(m)'
    <3>1. m \in Nat /\ m <= Len(routing_table') /\ Len(routing_table') <= m + 1
      BY <1>5
    <3>2. \A i \in 1 .. m : routing_table'[i].server_ip # Unset
      BY <1>3, <1>5 DEF Filled
    <3>3. \A i \in m + 1 .. Len(routing_table') : routing_table'[i].server_ip = Unset
      BY <1>5, <1>6
    <3>4. \A i \in 1 .. m : \E j \in 1 .. pt - 1 :
            routing_table'[i].client_ip = nodes[j] /\ ~Skipped(nodes[j])
      BY <1>3, <1>5 DEF Filled
    <3>5. \A j \in 1 .. pt - 1 : ~Skipped(nodes[j]) =>
            \E i \in 1 .. m : routing_table'[i].client_ip = nodes[j]
      BY <1>3, <1>5 DEF Filled
    <3>6. \A i, j \in 1 .. m :
            routing_table'[i].client_ip = routing_table'[j].client_ip => i = j
      BY <1>3, <1>5 DEF Filled
    <3> QED BY <1>2, <2>1, <3>1, <3>2, <3>3, <3>4, <3>5, <3>6 DEF Filled
  <2>5. Searching(m)'
    BY <1>2, <1>4, <1>5, <1>6, <1>7, <1>9, <2>1 DEF Searching, n
  <2> QED BY <1>2, <2>1, <2>2, <2>3, <2>4, <2>5 DEF TableOK
<1> QED BY <1>8, <1>9

\* The search ends with a server: the entry is finished.
LEMMA FoundTable ==
  ASSUME ListsOK, TableOK, pc = "bfs", NEW s \in Elements(servers), Found(s),
         UNCHANGED <<announced, lines, parsed>>, nodes[pt] \notin garbage
  PROVE  TableOK'
<1>1. /\ nodes' = nodes /\ garbage' = garbage /\ servers' = servers
      /\ \A x : Skipped(x)' <=> Skipped(x)
      /\ Entry' = Entry
  BY BuildingKeeps
<1>2. PICK m \in Nat : Filled(m) /\ Searching(m)
  BY DEF TableOK
<1>3. /\ Len(nodes) \in Nat /\ pt \in 1 .. Len(nodes) /\ Len(routing_table) = m + 1
      /\ routing_table \in Seq(Entry) /\ m + 1 <= pt
      /\ routing_table[m + 1].client_ip = nodes[pt]
  BY <1>2 DEF ListsOK, TableOK, Rows, Searching
<1>4. /\ pc' = "build" /\ pt' = pt + 1 /\ UNCHANGED <<queue, visited>>
      /\ routing_table' = [routing_table EXCEPT ![m + 1].server_ip = s]
  BY <1>3 DEF Found, search
<1>5. s # Unset
  <2>1. servers \in Seq(Nodes \ Routers)
    BY FilesAssumption DEF servers
  <2>2. s \in Nodes
    BY <2>1, ElementsOfSeq
  <2> QED BY <2>2, UnsetAssumption
<1> DEFINE new == [routing_table[m + 1] EXCEPT !.server_ip = s]
<1>6. routing_table' = [routing_table EXCEPT ![m + 1] = new]
  BY <1>4
<1>7. m + 1 \in 1 .. Len(routing_table) /\ routing_table[m + 1] \in Entry
  BY <1>3
<1>8. /\ new \in Entry /\ new.client_ip = nodes[pt] /\ new.server_ip = s
  BY <1>3, <1>7 DEF Entry
<1> HIDE DEF new
<1>9. /\ routing_table' \in Seq(Entry) /\ Len(routing_table') = m + 1
      /\ routing_table'[m + 1] = new
      /\ \A i \in 1 .. m : routing_table'[i] = routing_table[i]
  BY <1>3, <1>6, <1>7, <1>8
<1>10. Rows'
  BY <1>1, <1>3, <1>4, <1>9 DEF Rows, TableOK
<1>11. \A j \in 1 .. pt : j \in 1 .. pt - 1 \/ j = pt
  BY <1>3
<1>12. \A j \in 1 .. pt : Skipped(nodes[j]) \/ nodes[j] \notin garbage
  BY <1>11 DEF TableOK
<1>13. pt' - 1 = pt
  BY <1>3, <1>4
<1>14. \A i \in 1 .. m + 1 : i \in 1 .. m \/ i = m + 1
  BY <1>2
<1>15. ~Skipped(nodes[pt])
  BY <1>2 DEF Searching
<1>16. Filled(m + 1)'
  <2>1. m + 1 \in Nat /\ m + 1 <= Len(routing_table') /\ Len(routing_table') <= m + 1 + 1
    BY <1>9
  <2>2. \A i \in 1 .. m + 1 : routing_table'[i].server_ip # Unset
    <3>1. \A i \in 1 .. m : routing_table[i].server_ip # Unset
      BY <1>2 DEF Filled
    <3> QED BY <3>1, <1>5, <1>8, <1>9, <1>14
  <2>3. \A i \in m + 1 + 1 .. Len(routing_table') : routing_table'[i].server_ip = Unset
    BY <1>9
  <2>4. ASSUME NEW i \in 1 .. m + 1
        PROVE  \E j \in 1 .. pt : routing_table'[i].client_ip = nodes[j] /\ ~Skipped(nodes[j])
    <3>1. CASE i \in 1 .. m
      <4>1. PICK j \in 1 .. pt - 1 : routing_table[i].client_ip = nodes[j] /\ ~Skipped(nodes[j])
        BY <1>2, <3>1 DEF Filled
      <4>2. j \in 1 .. pt
        BY <1>3
      <4> QED BY <3>1, <4>1, <4>2, <1>9
    <3>2. CASE i = m + 1
      <4>1. pt \in 1 .. pt
        BY <1>3
      <4> QED BY <3>2, <4>1, <1>8, <1>9, <1>15
    <3> QED BY <3>1, <3>2, <1>14
  <2>5. ASSUME NEW j \in 1 .. pt, ~Skipped(nodes[j])
        PROVE  \E i \in 1 .. m + 1 : routing_table'[i].client_ip = nodes[j]
    <3>1. CASE j \in 1 .. pt - 1
      <4>1. PICK i \in 1 .. m : routing_table[i].client_ip = nodes[j]
        BY <1>2, <2>5, <3>1 DEF Filled
      <4>2. i \in 1 .. m + 1
        OBVIOUS
      <4> QED BY <4>1, <4>2, <1>9
    <3>2. CASE j = pt
      <4>1. m + 1 \in 1 .. m + 1
        OBVIOUS
      <4> QED BY <3>2, <4>1, <1>8, <1>9
    <3> QED BY <3>1, <3>2, <1>11
  <2>6. \A i \in 1 .. m : routing_table[i].client_ip # nodes[pt]
    <3>1. SUFFICES ASSUME NEW i \in 1 .. m, routing_table[i].client_ip = nodes[pt]
                   PROVE  FALSE
      OBVIOUS
    <3>2. PICK j \in 1 .. pt - 1 : nodes[pt] = nodes[j]
      BY <1>2, <3>1 DEF Filled
    <3>3. j \in DOMAIN nodes /\ pt \in DOMAIN nodes /\ j # pt
      BY <1>3 DEF ListsOK
    <3> QED BY <3>2, <3>3 DEF ListsOK, NoRepeats
  <2>7. \A i, j \in 1 .. m :
          routing_table[i].client_ip = routing_table[j].client_ip => i = j
    BY <1>2 DEF Filled
  <2>8. ASSUME NEW i \in 1 .. m + 1, NEW j \in 1 .. m + 1,
               routing_table'[i].client_ip = routing_table'[j].client_ip
        PROVE  i = j
    BY <2>6, <2>7, <2>8, <1>8, <1>9, <1>14
  <2> QED BY <1>1, <1>13, <2>1, <2>2, <2>3, <2>4, <2>5, <2>8 DEF Filled
<1>17. Between(m + 1)'
  BY <1>3, <1>4, <1>9 DEF Between
<1> QED BY <1>1, <1>4, <1>10, <1>12, <1>13, <1>16, <1>17 DEF TableOK

\* What the first node of the queue makes of the search.
LEMMA PopEffect ==
  ASSUME LinksType, ListsOK, TableOK, BfsPop
  PROVE  /\ pc = "bfs" /\ queue # <<>> /\ UNCHANGED <<announced, lines, parsed>>
         /\ Head(queue) \in Nodes /\ Head(queue) \in visited
         /\ Unvisited(Head(queue)) \in Seq(Nodes)
         /\ Elements(Unvisited(Head(queue))) = Elements(neighbors[Head(queue)]) \ visited
         /\ \/ pc' = "crashed" /\ UNCHANGED <<pt, routing_table, search>>
            \/ /\ Head(queue) \notin garbage
               /\ \E s \in (Elements(neighbors[Head(queue)]) \ visited) \cap Elements(servers) :
                    Found(s)
            \/ /\ Head(queue) \notin garbage
               /\ Elements(Unvisited(Head(queue))) \cap Elements(servers) = {}
               /\ queue' = Tail(queue) \o Unvisited(Head(queue))
               /\ visited' = visited \cup Elements(Unvisited(Head(queue)))
               /\ UNCHANGED <<pc, pt, routing_table>>
<1> DEFINE h == Head(queue)
           next == Unvisited(h)
           near == Kept(next, Elements(servers))
<1>1. pc = "bfs" /\ queue # <<>> /\ UNCHANGED <<announced, lines, parsed>>
  BY DEF BfsPop
<1>2. queue \in Seq(Nodes) /\ Elements(queue) \subseteq visited
  BY DEF TableOK, Rows
<1>3. h \in Nodes /\ h \in visited
  <2>1. Len(queue) \in Nat /\ Len(queue) # 0
    BY <1>1, <1>2
  <2>2. h = queue[1] /\ 1 \in 1 .. Len(queue)
    BY <2>1, <1>1, <1>2
  <2> QED BY <2>2, <1>2, ElementsOfSeq
<1>4. \/ pc' = "crashed" /\ UNCHANGED <<pt, routing_table, search>>
      \/ h \notin garbage /\ near # <<>> /\ Found(near[1])
      \/ /\ h \notin garbage /\ near = <<>>
         /\ queue' = Pushed(next) /\ visited' = visited \cup Elements(next)
         /\ UNCHANGED <<pc, pt, routing_table>>
  BY DEF BfsPop
<1>5. neighbors[h] \in Seq(Nodes)
  BY <1>3 DEF LinksType
<1> HIDE DEF h
<1>6. next \in Seq(Nodes) /\ Elements(next) = Elements(neighbors[h]) \ visited
  <2>1. Reversed(neighbors[h]) \in Seq(Nodes)
        /\ Elements(Reversed(neighbors[h])) = Elements(neighbors[h])
    BY <1>5, ReversedMembers
  <2>2. /\ Kept(Reversed(neighbors[h]), Nodes \ visited) \in Seq(Nodes)
        /\ Elements(Kept(Reversed(neighbors[h]), Nodes \ visited))
             = Elements(Reversed(neighbors[h])) \cap (Nodes \ visited)
    BY <2>1, KeptMembers
  <2>3. Elements(neighbors[h]) \subseteq Nodes
    BY <1>5, ElementsOfSeq
  <2> QED BY <2>1, <2>2, <2>3 DEF Unvisited
<1> HIDE DEF next
<1>7. near \in Seq(Nodes) /\ Elements(near) = Elements(next) \cap Elements(servers)
  BY <1>6, KeptMembers
<1> HIDE DEF near
<1>8. near = <<>> => Elements(next) \cap Elements(servers) = {}
  BY <1>7, ElementsOfSeq
<1>9. ASSUME near # <<>> PROVE near[1] \in Elements(next) \cap Elements(servers)
  <2>1. Len(near) \in Nat /\ Len(near) # 0
    BY <1>7, <1>9
  <2>2. 1 \in 1 .. Len(near)
    BY <2>1
  <2> QED BY <2>2, <1>7, ElementsOfSeq
<1>10. Pushed(next) = Tail(queue) \o next
  BY DEF Pushed
<1>11. (h \notin garbage /\ near # <<>> /\ Found(near[1])) =>
         \E s \in (Elements(neighbors[h]) \ visited) \cap Elements(servers) : Found(s)
  <2>1. near # <<>> => near[1] \in (Elements(neighbors[h]) \ visited) \cap Elements(servers)
    BY <1>6, <1>9
  <2> QED BY <2>1, Zenon
<1> QED BY <1>1, <1>3, <1>4, <1>6, <1>8, <1>10, <1>11 DEF h, next

\* The rest of the queue.
LEMMA TailMembers ==
  ASSUME NEW T, NEW list \in Seq(T), list # <<>>
  PROVE  /\ Len(list) \in Nat \ {0} /\ Tail(list) \in Seq(T) /\ Len(Tail(list)) = Len(list) - 1
         /\ \A i \in 1 .. Len(list) - 1 : Tail(list)[i] = list[i + 1]
         /\ Elements(list) = {Head(list)} \cup Elements(Tail(list))
         /\ Head(list) = list[1]
<1>1. Len(list) \in Nat /\ Len(list) # 0
  OBVIOUS
<1>2. /\ Tail(list) \in Seq(T) /\ Len(Tail(list)) = Len(list) - 1
      /\ \A i \in 1 .. Len(list) - 1 : Tail(list)[i] = list[i + 1]
      /\ Head(list) = list[1]
  BY <1>1
<1> DEFINE n == Len(list)
           rest == Tail(list)
<1>3. DOMAIN list = 1 .. n /\ DOMAIN rest = 1 .. n - 1
  BY <1>1, <1>2
<1>4. ASSUME NEW i \in 1 .. n PROVE list[i] \in {Head(list)} \cup Elements(rest)
  <2>1. CASE i = 1
    BY <2>1, <1>2
  <2>2. CASE i # 1
    <3>1. i - 1 \in 1 .. n - 1 /\ i - 1 + 1 = i
      BY <2>2, <1>1
    <3>2. rest[i - 1] = list[i]
      BY <3>1, <1>2
    <3>3. rest[i - 1] \in Elements(rest)
      <4> HIDE DEF rest, n
      <4> QED BY <3>1, <1>3 DEF Elements
    <3> QED BY <3>2, <3>3
  <2> QED BY <2>1, <2>2
<1>5. ASSUME NEW i \in 1 .. n - 1 PROVE rest[i] \in Elements(list)
  <2>1. i + 1 \in 1 .. n /\ rest[i] = list[i + 1]
    BY <1>1, <1>2
  <2> QED BY <2>1, <1>3 DEF Elements
<1>6. Head(list) \in Elements(list)
  <2>1. 1 \in 1 .. n
    BY <1>1
  <2> QED BY <2>1, <1>2, <1>3 DEF Elements
<1>7. Elements(list) \subseteq {Head(list)} \cup Elements(rest)
  <2> HIDE DEF rest
  <2> QED BY <1>3, <1>4 DEF Elements
<1>8. Elements(rest) \subseteq Elements(list)
  <2>1. \A i \in 1 .. n - 1 : rest[i] \in Elements(list)
    BY <1>5
  <2> HIDE DEF rest
  <2> DEFINE E == Elements(list)
  <2> HIDE DEF E
  <2>2. \A i \in DOMAIN rest : rest[i] \in E
    BY <2>1, <1>3 DEF E
  <2>3. Elements(rest) \subseteq E
    BY <2>2 DEF Elements
  <2> QED BY <2>3 DEF E
<1> QED BY <1>1, <1>2, <1>6, <1>7, <1>8

\* A step of the search keeps the table.
LEMMA PopTable == LinksType /\ ListsOK /\ TableOK /\ BfsPop => TableOK'
<1> SUFFICES ASSUME LinksType, ListsOK, TableOK, BfsPop PROVE TableOK'
  OBVIOUS
<1> DEFINE h == Head(queue)
           next == Unvisited(h)
<1>1. /\ pc = "bfs" /\ queue # <<>> /\ UNCHANGED <<announced, lines, parsed>>
      /\ h \in Nodes /\ h \in visited
      /\ next \in Seq(Nodes) /\ Elements(next) = Elements(neighbors[h]) \ visited
  BY PopEffect
<1>2. /\ nodes' = nodes /\ garbage' = garbage /\ servers' = servers
      /\ \A x : Skipped(x)' <=> Skipped(x)
      /\ Entry' = Entry
  BY <1>1, BuildingKeeps
<1>3. PICK m \in Nat : Filled(m) /\ Searching(m)
  BY <1>1 DEF TableOK
<1>4. nodes[pt] \in garbage => h = nodes[pt]
  <2>1. nodes[pt] \in garbage => queue = <<nodes[pt]>>
    BY <1>3 DEF Searching
  <2>2. Head(<<nodes[pt]>>) = nodes[pt]
    OBVIOUS
  <2> QED BY <2>1, <2>2
<1>5. CASE pc' = "crashed" /\ UNCHANGED <<pt, routing_table, search>>
  <2>1. Rows'
    BY <1>2, <1>5 DEF TableOK, Rows, search
  <2> QED BY <1>5, <2>1 DEF TableOK
<1>6. CASE h \notin garbage /\ \E s \in (Elements(neighbors[h]) \ visited) \cap Elements(servers) :
                                 Found(s)
  BY <1>1, <1>4, <1>6, FoundTable
<1>7. CASE /\ h \notin garbage
           /\ queue' = Tail(queue) \o next
           /\ visited' = visited \cup Elements(next)
           /\ UNCHANGED <<pc, pt, routing_table>>
  <2>1. nodes[pt] \notin garbage
    BY <1>4, <1>7
  <2> HIDE DEF next, h
  <2>2. queue \in Seq(Nodes) /\ Elements(queue) \subseteq visited /\ visited \subseteq Elements(nodes)
    BY DEF TableOK, Rows
  <2>3. Tail(queue) \in Seq(Nodes) /\ Elements(Tail(queue)) \subseteq Elements(queue)
    BY <1>1, <2>2, TailMembers
  <2> DEFINE rest == Tail(queue)
  <2>0. rest \in Seq(Nodes)
    BY <2>3
  <2> HIDE DEF rest
  <2>4. /\ rest \o next \in Seq(Nodes)
        /\ Elements(rest \o next) = Elements(rest) \cup Elements(next)
    BY <2>0, <1>1, JoinedMembers
  <2>5. queue' = rest \o next
    BY <1>7 DEF rest
  <2>6. Elements(next) \subseteq Elements(nodes)
    BY <1>1 DEF ListsOK
  <2>7. /\ queue' \in Seq(Nodes) /\ Elements(queue') \subseteq visited'
        /\ visited' \subseteq Elements(nodes)
    BY <1>7, <2>2, <2>3, <2>4, <2>5, <2>6 DEF rest
  <2>8. Rows'
    BY <1>2, <1>7, <2>7 DEF Rows, TableOK
  <2>9. Filled(m)'
    BY <1>2, <1>3, <1>7 DEF Filled
  <2>10. Searching(m)'
    BY <1>2, <1>3, <1>7, <2>1 DEF Searching
  <2>11. pc' = "bfs" /\ pt' = pt
    BY <1>1, <1>7
  <2>12. \A j \in 1 .. pt - 1 : Skipped(nodes[j]) \/ nodes[j] \notin garbage
    BY <1>1 DEF TableOK
  <2> QED BY <1>2, <2>8, <2>9, <2>10, <2>11, <2>12 DEF TableOK
<1> HIDE DEF h, next
<1>8. \/ pc' = "crashed" /\ UNCHANGED <<pt, routing_table, search>>
      \/ /\ h \notin garbage
         /\ \E s \in (Elements(neighbors[h]) \ visited) \cap Elements(servers) : Found(s)
      \/ /\ h \notin garbage
         /\ queue' = Tail(queue) \o next
         /\ visited' = visited \cup Elements(next)
         /\ UNCHANGED <<pc, pt, routing_table>>
  BY PopEffect DEF h, next
<1> QED BY <1>5, <1>6, <1>7, <1>8

\* The search that finds no server ends with the first one.
LEMMA EmptyTable == ListsOK /\ TableOK /\ BfsEmpty => TableOK'
<1> SUFFICES ASSUME ListsOK, TableOK, BfsEmpty PROVE TableOK'
  OBVIOUS
<1>1. pc = "bfs" /\ queue = <<>> /\ Found(Default) /\ UNCHANGED <<announced, lines, parsed>>
  BY DEF BfsEmpty
<1>2. Default \in Elements(servers)
  <2>1. servers # <<>> /\ servers \in Seq(Nodes \ Routers)
    BY <1>1, FilesAssumption DEF ListsOK, servers
  <2>2. Len(servers) \in Nat /\ Len(servers) # 0
    BY <2>1
  <2>3. 1 \in 1 .. Len(servers)
    BY <2>2
  <2> QED BY <2>1, <2>3, ElementsOfSeq DEF Default
<1>3. nodes[pt] \notin garbage
  <2>1. nodes[pt] \in garbage => queue = <<nodes[pt]>>
    BY <1>1 DEF TableOK, Searching
  <2> QED BY <2>1, <1>1
<1> QED BY <1>1, <1>2, <1>3, FoundTable

\* Before the table there is none.
LEMMA InitTable == Init /\ ListsOK => TableOK
<1> SUFFICES ASSUME Init, ListsOK PROVE TableOK
  OBVIOUS
<1>1. /\ pc = "lines" /\ pt = 1 /\ routing_table = <<>> /\ queue = <<>> /\ visited = {}
  BY DEF Init
<1>2. Len(nodes) \in Nat
  BY DEF ListsOK
<1>3. Elements(<<>>) = {}
  BY DEF Elements
<1>4. Rows
  BY <1>1, <1>2, <1>3 DEF Rows
<1> QED BY <1>1, <1>4 DEF TableOK

\* Every step keeps the table in shape.
LEMMA NextTable == LinksType /\ ListsOK /\ ListsOK' /\ TableOK /\ [Next]_vars => TableOK'
<1> SUFFICES ASSUME LinksType, ListsOK, ListsOK', TableOK, [Next]_vars PROVE TableOK'
  OBVIOUS
<1>1. ASSUME pc' \in {"lines", "crashed", "failed", "build"}, pt' = 1, routing_table' = <<>>,
             queue' = <<>>, visited' = {}
      PROVE  TableOK'
  <2>1. Len(nodes') \in Nat
    BY DEF ListsOK
  <2>2. Elements(<<>>) = {}
    BY DEF Elements
  <2>3. Rows'
    BY <1>1, <2>1, <2>2 DEF Rows
  <2>4. Filled(0)' /\ Between(0)'
    BY <1>1 DEF Filled, Between
  <2>5. \A j \in 1 .. pt' - 1 : FALSE
    BY <1>1
  <2> QED BY <1>1, <2>3, <2>4, <2>5 DEF TableOK
<1>2. CASE \E n \in Nodes, s \in 0 .. MaxSeq : ParseLine(n, s)
  <2>1. PICK n \in Nodes, s \in 0 .. MaxSeq : ParseLine(n, s)
    BY <1>2
  <2>2. pc = "lines" /\ pc' \in {pc, "crashed"} /\ UNCHANGED <<pt, routing_table, search>>
    BY <2>1 DEF ParseLine
  <2> QED BY <2>2, <1>1 DEF ListsOK, search
<1>3. CASE EndOfFile
  <2>1. pc = "lines" /\ pc' \in {"failed", "build"} /\ UNCHANGED <<pt, routing_table, search>>
    BY <1>3 DEF EndOfFile
  <2> QED BY <2>1, <1>1 DEF ListsOK, search
<1>4. CASE NextClient
  BY <1>4, NextClientTable
<1>5. CASE TableBuilt
  <2>1. /\ pc = "build" /\ pt > Len(nodes) /\ pc' = "done"
        /\ UNCHANGED <<announced, lines, parsed, pt, routing_table, search>>
    BY <1>5 DEF TableBuilt
  <2>2. /\ nodes' = nodes /\ garbage' = garbage /\ servers' = servers
        /\ \A x : Skipped(x)' <=> Skipped(x)
        /\ Entry' = Entry
    BY <2>1, BuildingKeeps
  <2>3. Rows'
    BY <2>1, <2>2 DEF TableOK, Rows, search
  <2>4. PICK m \in Nat : Filled(m) /\ Between(m)
    BY <2>1 DEF TableOK
  <2>5. Filled(m)' /\ Between(m)'
    BY <2>1, <2>2, <2>4 DEF Filled, Between
  <2>6. pt' = Len(nodes') + 1
    BY <2>1, <2>2 DEF TableOK, Rows, ListsOK
  <2>7. \A j \in 1 .. pt - 1 : Skipped(nodes[j]) \/ nodes[j] \notin garbage
    BY <2>1 DEF TableOK
  <2> QED BY <2>1, <2>2, <2>3, <2>5, <2>6, <2>7 DEF TableOK
<1>6. CASE BfsPop
  BY <1>6, PopTable
<1>7. CASE BfsEmpty
  BY <1>7, EmptyTable
<1>8. CASE UNCHANGED vars
  BY <1>8 DEF vars, parsed, search, TableOK, Rows, Filled, Between, Searching, Entry, Skipped,
              servers
<1> QED BY <1>2, <1>3, <1>4, <1>5, <1>6, <1>7, <1>8 DEF Next, Stopped

\* A written entry and a client still without a server are within the lists.
LEMMA BoundsKept == LinksType /\ ListsOK /\ TableOK => TypeOK /\ InBounds
<1> SUFFICES ASSUME LinksType, ListsOK, TableOK PROVE TypeOK /\ InBounds
  OBVIOUS
<1>1. clients \in Seq(Elements(nodes))
  BY SeqOfElements DEF ListsOK
<1>2. ASSUME NEW n \in Nodes
      PROVE  neighbors[n] \in Seq(Elements(nodes) \ {n}) /\ NoRepeats(neighbors[n])
  <2>1. neighbors[n] \in Seq(Nodes)
    BY DEF LinksType
  <2> QED BY <2>1, SeqOfElements DEF ListsOK
<1>3. ASSUME NEW e \in Elements(routing_table)
      PROVE  e.client_ip \in Elements(nodes) /\ e.server_ip \in Elements(servers) \cup {Unset}
  <2>1. e \in Entry
    BY ElementsOfSeq DEF TableOK, Rows
  <2> QED BY <2>1 DEF Entry
<1>4. TypeOK
  BY <1>1, <1>2, <1>3 DEF TypeOK, ListsOK, TableOK, Rows, LinksType
<1>5. ASSUME pc = "bfs" PROVE pt < Len(nodes)
  <2>1. pt \in 1 .. Len(nodes) + 1 /\ pt <= Len(nodes) /\ ~Skipped(nodes[pt]) /\ Len(nodes) \in Nat
    BY <1>5 DEF TableOK, Searching, Rows, ListsOK
  <2>2. Skipped(nodes[Len(nodes)])
    BY <1>5 DEF ListsOK, Skipped
  <2>3. pt # Len(nodes)
    BY <2>1, <2>2
  <2> QED BY <2>1, <2>3
<1>6. InBounds
  BY <1>5 DEF InBounds, TableOK, Rows
<1> QED BY <1>4, <1>6

\* When the table is done, the node of an entry with a server has that entry
\* alone, and it has one exactly if it was not skipped.
LEMMA TableDone == LinksType /\ ListsOK /\ TableOK => TableComplete
<1> SUFFICES ASSUME LinksType, ListsOK, TableOK PROVE TableComplete
  OBVIOUS
<1> DEFINE own(n) == {i \in DOMAIN routing_table : routing_table[i].client_ip = n}
           served(n) == {i \in own(n) : routing_table[i].server_ip # Unset}
<1>1. SUFFICES ASSUME pc = "done", NEW n \in Nodes
               PROVE  IF n \in Elements(nodes) \ (Elements(servers) \cup Routers)
                         /\ neighbors[n] # <<>>
                      THEN Cardinality(own(n)) = 1 /\ served(n) = own(n)
                      ELSE served(n) = {}
  BY BoundsKept DEF TableComplete
<1>2. PICK m \in Nat : Filled(m) /\ Between(m)
  BY <1>1 DEF TableOK
<1>3. /\ pt = Len(nodes) + 1 /\ Len(nodes) \in Nat /\ nodes \in Seq(Nodes)
      /\ pt - 1 = Len(nodes) /\ m \in 0 .. Len(routing_table)
      /\ Len(routing_table) \in Nat /\ DOMAIN routing_table = 1 .. Len(routing_table)
  BY <1>1, <1>2 DEF TableOK, ListsOK, Rows, Filled
<1>4. \A i \in DOMAIN routing_table : i \in 1 .. m \/ i \in m + 1 .. Len(routing_table)
  BY <1>3
<1>5. \A i \in 1 .. m : i \in DOMAIN routing_table
  BY <1>3
<1>6. Elements(nodes) = {nodes[j] : j \in 1 .. pt - 1}
  BY <1>3, ElementsOfSeq
<1>7. CASE n \in Elements(nodes) \ (Elements(servers) \cup Routers) /\ neighbors[n] # <<>>
  <2>1. ~Skipped(n)
    BY <1>7 DEF Skipped
  <2>2. PICK i \in 1 .. m : routing_table[i].client_ip = n
    <3>1. PICK j \in 1 .. pt - 1 : nodes[j] = n
      BY <1>6, <1>7
    <3> QED BY <1>2, <2>1, <3>1 DEF Filled
  <2>3. ASSUME NEW k \in DOMAIN routing_table, routing_table[k].client_ip = n PROVE k = i
    <3>1. k \notin m + 1 .. Len(routing_table)
      BY <1>2, <2>1, <2>3 DEF Between
    <3>2. k \in 1 .. m
      BY <3>1, <1>4
    <3> QED BY <3>2, <2>2, <2>3, <1>2 DEF Filled
  <2>4. own(n) = {i}
    BY <1>5, <2>2, <2>3
  <2>5. routing_table[i].server_ip # Unset
    BY <1>2 DEF Filled
  <2>6. served(n) = own(n)
    BY <2>4, <2>5
  <2>7. Cardinality({i}) = 1
    BY FS_Singleton
  <2> QED BY <1>7, <2>4, <2>6, <2>7
<1>8. CASE ~(n \in Elements(nodes) \ (Elements(servers) \cup Routers) /\ neighbors[n] # <<>>)
  <2>1. SUFFICES ASSUME NEW i \in served(n) PROVE FALSE
    BY <1>8
  <2>2. i \in DOMAIN routing_table /\ routing_table[i].client_ip = n
        /\ routing_table[i].server_ip # Unset
    BY <2>1
  <2>3. i \in 1 .. m
    BY <2>2, <1>2, <1>4 DEF Filled
  <2>4. PICK j \in 1 .. pt - 1 : n = nodes[j] /\ ~Skipped(nodes[j])
    BY <1>2, <2>2, <2>3 DEF Filled
  <2>5. n \in Elements(nodes)
    BY <1>6, <2>4
  <2>6. n \notin garbage
    BY <1>1, <2>4 DEF TableOK
  <2> QED BY <1>8, <2>4, <2>5, <2>6 DEF Skipped
<1> QED BY <1>7, <1>8

\* build_routing_table stays within what it allocated, the lists keep their
\* shape, and in the end exactly the nodes that are neither servers nor routers
\* and have neighbours have a server.
THEOREM TableCompleteCorrect == Spec => []TableComplete
<1>1. Init => LinksType /\ ListsOK /\ TableOK
  BY InitLinks, InitLists, InitTable
<1>2. LinksType /\ ListsOK /\ TableOK /\ [Next]_vars => (LinksType /\ ListsOK /\ TableOK)'
  BY NextLinks, NextLists, NextTable
<1>3. LinksType /\ ListsOK /\ TableOK => TableComplete
  BY TableDone
<1> QED BY <1>1, <1>2, <1>3, PTL DEF Spec

-----------------------------------------------------------------------------
\* The links that are known, and a set of nodes with all their neighbours.
Graph == [n \in Nodes |-> Elements(neighbors[n])]
Around(graph, w) == w \cup UNION {graph[n] : n \in w}

\* Within(graph, c)[k]: the nodes at a distance of at most k from c.
Within(graph, c) ==
  LET within[k \in 0 .. Cardinality(Nodes)] ==
        IF k = 0 THEN {c} ELSE Around(graph, within[k - 1])
  IN  within

\* The function that Within makes.
Distances(graph, c, N) ==
  CHOOSE f : f = [k \in 0 .. N |-> IF k = 0 THEN {c} ELSE Around(graph, f[k - 1])]

\* The distances at which c has a server.
Reached(graph, c) ==
  {k \in 0 .. Cardinality(Nodes) : Within(graph, c)[k] \cap Elements(servers) # {}}

\* A function on the numbers up to N that is defined from one to the next.
LEMMA DistancesDefined ==
  ASSUME NEW graph, NEW c, NEW N \in Nat
  PROVE  Distances(graph, c, N) =
           [k \in 0 .. N |-> IF k = 0 THEN {c} ELSE Around(graph, Distances(graph, c, N)[k - 1])]
<1> DEFINE Val(f, i) == IF i = 0 THEN {c} ELSE Around(graph, f[i - 1])
           T == {n \in Nat : \E f : f = [i \in 0 .. n |-> Val(f, i)]}
<1>1. 0 \in T
  <2>1. [i \in 0 .. 0 |-> {c}] = [i \in 0 .. 0 |-> Val([j \in 0 .. 0 |-> {c}], i)]
    OBVIOUS
  <2> QED BY <2>1
<1>2. ASSUME NEW n \in Nat, n \in T PROVE n + 1 \in T
  <2>1. PICK f : f = [i \in 0 .. n |-> Val(f, i)]
    BY <1>2
  <2> DEFINE g == [i \in 0 .. n + 1 |-> IF i <= n THEN f[i] ELSE Val(f, n + 1)]
  <2>2. \A i \in 0 .. n : f[i] = Val(f, i)
    BY <2>1
  <2>3. ASSUME NEW i \in 0 .. n + 1 PROVE Val(g, i) = Val(f, i)
    <3>1. CASE i = 0
      BY <3>1
    <3>2. CASE i # 0
      <4>1. i - 1 \in 0 .. n + 1 /\ i - 1 <= n
        BY <3>2
      <4>2. g[i - 1] = f[i - 1]
        BY <4>1
      <4> HIDE DEF g
      <4> QED BY <3>2, <4>2
    <3> QED BY <3>1, <3>2
  <2>4. ASSUME NEW i \in 0 .. n + 1 PROVE g[i] = Val(g, i)
    <3> HIDE DEF Val
    <3>1. CASE i <= n
      <4>1. i \in 0 .. n /\ g[i] = f[i]
        BY <3>1
      <4> QED BY <4>1, <2>2, <2>3
    <3>2. CASE i = n + 1
      <4>1. g[i] = Val(f, i)
        BY <3>2
      <4> QED BY <4>1, <2>3
    <3> QED BY <3>1, <3>2
  <2>5. g = [i \in 0 .. n + 1 |-> Val(g, i)]
    <3> HIDE DEF Val
    <3> QED BY <2>4
  <2>6. \E f1 : f1 = [i \in 0 .. n + 1 |-> Val(f1, i)]
    <3> HIDE DEF Val, g
    <3> QED BY <2>5, Zenon
  <2>7. n + 1 \in Nat
    OBVIOUS
  <2> HIDE DEF Val
  <2> QED BY <2>6, <2>7
<1>3. N \in T
  <2> HIDE DEF T
  <2>1. 0 .. N \subseteq T
    BY <1>1, <1>2, UpTo
  <2> QED BY <2>1
<1> DEFINE Is(f) == f = [k \in 0 .. N |-> IF k = 0 THEN {c} ELSE Around(graph, f[k - 1])]
           ball == CHOOSE f : Is(f)
<1>4. \E f : Is(f)
  BY <1>3
<1>5. Is(ball)
  <2> HIDE DEF Is
  <2> QED BY <1>4, Zenon
<1>6. Distances(graph, c, N) = ball
  BY DEF Distances
<1> HIDE DEF ball
<1> QED BY <1>5, <1>6

\* The nodes within one step more are those around the nodes within one less.
LEMMA WithinSteps ==
  ASSUME NEW graph, NEW c
  PROVE  /\ Cardinality(Nodes) \in Nat
         /\ Within(graph, c)[0] = {c}
         /\ \A k \in 1 .. Cardinality(Nodes) :
              Within(graph, c)[k] = Around(graph, Within(graph, c)[k - 1])
<1> DEFINE N == Cardinality(Nodes)
           within == Within(graph, c)
<1>1. N \in Nat
  BY FilesAssumption, FS_CardinalityType
<1>3. within = Distances(graph, c, N)
  BY DEF Within, Distances
<1> HIDE DEF N, within
<1>4. within = [k \in 0 .. N |-> IF k = 0 THEN {c} ELSE Around(graph, within[k - 1])]
  BY <1>1, <1>3, DistancesDefined
<1>5. within[0] = {c}
  <2>1. 0 \in 0 .. N
    BY <1>1
  <2> QED BY <1>4, <2>1
<1>6. ASSUME NEW k \in 1 .. N PROVE within[k] = Around(graph, within[k - 1])
  <2>1. k \in 0 .. N /\ k # 0
    BY <1>1
  <2> QED BY <1>4, <2>1
<1> QED BY <1>1, <1>5, <1>6 DEF N, within

\* IsNearest, in terms of Within.
LEMMA NearestDef ==
  ASSUME NEW graph, NEW c, NEW s
  PROVE  IsNearest(graph, c, s) <=>
           IF Reached(graph, c) = {} THEN s = servers[1]
           ELSE \E k \in Reached(graph, c) :
                  (\A j \in Reached(graph, c) : k <= j) /\ s \in Within(graph, c)[k]
<1> DEFINE N == Cardinality(Nodes)
           W == Within(graph, c)
           S == Elements(servers)
<1>1. DOMAIN W = 0 .. N
  <2>1. N \in Nat /\ W = Distances(graph, c, N)
    BY FilesAssumption, FS_CardinalityType DEF Within, Distances
  <2> HIDE DEF W, N
  <2>2. W = [k \in 0 .. N |-> IF k = 0 THEN {c} ELSE Around(graph, W[k - 1])]
    BY <2>1, DistancesDefined
  <2> QED BY <2>2
<1>2. IsNearest(graph, c, s) <=>
        LET reached == {k \in DOMAIN W : W[k] \cap S # {}}
        IN  IF reached = {} THEN s = servers[1]
            ELSE \E k \in reached : (\A j \in reached : k <= j) /\ s \in W[k]
  BY DEF IsNearest, Within, Around
<1>3. {k \in DOMAIN W : W[k] \cap S # {}} = Reached(graph, c)
  <2> HIDE DEF W
  <2>1. {k \in DOMAIN W : W[k] \cap S # {}} = {k \in 0 .. N : W[k] \cap S # {}}
    BY <1>1
  <2> QED BY <2>1 DEF Reached, W
<1> HIDE DEF W, S
<1>4. IsNearest(graph, c, s) <=>
        IF Reached(graph, c) = {} THEN s = servers[1]
        ELSE \E k \in Reached(graph, c) :
               (\A j \in Reached(graph, c) : k <= j) /\ s \in W[k]
  BY <1>2, <1>3
<1> QED BY <1>4 DEF W

\* What is within a distance is within every longer one, and a set that has all
\* its neighbours has all that is within any distance.
LEMMA WithinGrows ==
  ASSUME NEW graph, NEW c, NEW k \in 0 .. Cardinality(Nodes)
  PROVE  /\ \A j \in 0 .. k : Within(graph, c)[j] \subseteq Within(graph, c)[k]
         /\ \A V : c \in V /\ (\A n \in V : graph[n] \subseteq V)
              => Within(graph, c)[k] \subseteq V
<1> DEFINE W == Within(graph, c)
           N == Cardinality(Nodes)
           Good(i) == /\ \A j \in 0 .. i : W[j] \subseteq W[i]
                      /\ \A V : c \in V /\ (\A n \in V : graph[n] \subseteq V) => W[i] \subseteq V
           T == {i \in Nat : i <= N => Good(i)}
<1>1. /\ N \in Nat /\ W[0] = {c}
      /\ \A i \in 1 .. N : W[i] = Around(graph, W[i - 1])
  BY WithinSteps
<1> HIDE DEF W, N
<1>2. Good(0)
  <2>1. \A j \in 0 .. 0 : j = 0
    OBVIOUS
  <2> QED BY <1>1, <2>1
<1>3. ASSUME NEW i \in 0 .. N - 1, Good(i) PROVE Good(i + 1)
  <2>1. i + 1 \in 1 .. N /\ i + 1 - 1 = i
    BY <1>1
  <2>2. W[i + 1] = Around(graph, W[i])
    <3> DEFINE Further(k1) == W[k1] = Around(graph, W[k1 - 1])
    <3>1. \A k1 \in 1 .. N : Further(k1)
      BY <1>1
    <3>2. Further(i + 1)
      <4> HIDE DEF Further
      <4> QED BY <3>1, <2>1
    <3> QED BY <3>2, <2>1
  <2>3. \A j \in 0 .. i + 1 : j \in 0 .. i \/ j = i + 1
    OBVIOUS
  <2>4. ASSUME NEW j \in 0 .. i + 1 PROVE W[j] \subseteq W[i + 1]
    <3>1. CASE j \in 0 .. i
      BY <3>1, <2>2, <1>3 DEF Around
    <3>2. CASE j = i + 1
      BY <3>2
    <3> QED BY <2>3, <3>1, <3>2
  <2>5. ASSUME NEW V, c \in V, \A n \in V : graph[n] \subseteq V PROVE W[i + 1] \subseteq V
    <3>1. W[i] \subseteq V
      BY <1>3, <2>5
    <3> QED BY <3>1, <2>2, <2>5 DEF Around
  <2> QED BY <2>4, <2>5
<1>4. 0 .. N \subseteq T
  <2> HIDE DEF Good
  <2>1. 0 \in T
    BY <1>2
  <2>2. \A i \in 0 .. N - 1 : i \in T => i + 1 \in T
    BY <1>1, <1>3
  <2> HIDE DEF T
  <2> QED BY <1>1, <2>1, <2>2, UpTo
<1>5. Good(k)
  <2>1. k \in 0 .. N /\ k <= N
    BY <1>1 DEF N
  <2> HIDE DEF Good
  <2> QED BY <1>4, <2>1
<1> QED BY <1>5 DEF W

\* A server at distance k + 1, and none at k, is nearest.
LEMMA NearestAt ==
  ASSUME NEW graph, NEW c, NEW k \in Nat, k + 1 <= Cardinality(Nodes),
         Within(graph, c)[k] \cap Elements(servers) = {},
         NEW s \in Elements(servers), s \in Within(graph, c)[k + 1]
  PROVE  IsNearest(graph, c, s)
<1> DEFINE N == Cardinality(Nodes)
           R == Reached(graph, c)
<1>1. N \in Nat
  BY WithinSteps
<1>2. k + 1 \in R
  BY <1>1 DEF Reached
<1>3. ASSUME NEW j \in R PROVE k + 1 <= j
  <2>1. j \in 0 .. N /\ Within(graph, c)[j] \cap Elements(servers) # {}
    BY DEF Reached
  <2>2. SUFFICES ASSUME j <= k PROVE FALSE
    BY <1>1, <2>1
  <2>3. j \in 0 .. k /\ k \in 0 .. N
    BY <1>1, <2>1, <2>2
  <2>4. Within(graph, c)[j] \subseteq Within(graph, c)[k]
    BY <2>3, WithinGrows
  <2> QED BY <2>1, <2>4
<1> HIDE DEF R
<1>4. R # {} /\ \E i \in R : (\A j \in R : i <= j) /\ s \in Within(graph, c)[i]
  BY <1>2, <1>3
<1> QED BY <1>4, NearestDef DEF R

\* If all that c reaches is without servers, the first one is as near as any.
LEMMA NearestNone ==
  ASSUME NEW graph, NEW c, NEW V, c \in V, \A n \in V : graph[n] \subseteq V,
         V \cap Elements(servers) = {}
  PROVE  IsNearest(graph, c, servers[1])
<1>1. \A k \in 0 .. Cardinality(Nodes) : Within(graph, c)[k] \subseteq V
  BY WithinGrows
<1>2. Reached(graph, c) = {}
  BY <1>1 DEF Reached
<1> QED BY <1>2, NearestDef

\* Level(graph, c, q, v, k, a): v is visited and q is the queue when the first
\* a nodes of q are the last ones at distance k from c that the search has not
\* seen through: the others of q are one step further.
Level(graph, c, q, v, k, a) ==
  LET w == Within(graph, c)[k]
  IN  /\ k \in 0 .. Cardinality(Nodes) /\ a \in 0 .. Len(q)
      /\ Cardinality(w) > k
      /\ w \subseteq v /\ v \subseteq Around(graph, w)
      /\ \A i \in 1 .. Len(q) : q[i] \in w <=> i <= a
      /\ \A n \in w : (\E i \in 1 .. a : q[i] = n) \/ graph[n] \subseteq v
      /\ \A n \in v \ Elements(q) : graph[n] \subseteq v

\* A set of more than k nodes with one node more has more than k + 1, and there
\* are at least as many nodes.
LEMMA OneMore ==
  ASSUME NEW w \in SUBSET Nodes, NEW u \in SUBSET Nodes, NEW x \in u \ w, w \subseteq u,
         NEW k \in Nat, Cardinality(w) > k
  PROVE  Cardinality(u) > k + 1 /\ k + 1 <= Cardinality(Nodes)
<1>1. IsFiniteSet(Nodes) /\ IsFiniteSet(u) /\ IsFiniteSet(w)
  BY FilesAssumption, FS_Subset
<1>2. /\ Cardinality(w) \in Nat /\ Cardinality(u) \in Nat /\ Cardinality(Nodes) \in Nat
  BY <1>1, FS_CardinalityType
<1>3. Cardinality(w) <= Cardinality(u) /\ Cardinality(w) # Cardinality(u)
  <2>1. Cardinality(w) <= Cardinality(u) /\ (Cardinality(w) = Cardinality(u) => w = u)
    BY <1>1, FS_Subset
  <2> QED BY <2>1
<1>4. Cardinality(u) <= Cardinality(Nodes)
  BY <1>1, FS_Subset
<1> QED BY <1>2, <1>3, <1>4

\* Only nodes are within any distance.
LEMMA WithinNodes ==
  ASSUME NEW graph \in [Nodes -> SUBSET Nodes], NEW c \in Nodes,
         NEW k \in 0 .. Cardinality(Nodes)
  PROVE  Within(graph, c)[k] \subseteq Nodes
<1>1. \A n \in Nodes : graph[n] \subseteq Nodes
  OBVIOUS
<1> QED BY <1>1, WithinGrows

\* One step further.
LEMMA WithinNext ==
  ASSUME NEW graph, NEW c, NEW k \in Nat, k + 1 <= Cardinality(Nodes)
  PROVE  Within(graph, c)[k + 1] = Around(graph, Within(graph, c)[k])
<1> DEFINE N == Cardinality(Nodes)
           W == Within(graph, c)
           Further(k1) == W[k1] = Around(graph, W[k1 - 1])
<1>1. N \in Nat /\ \A k1 \in 1 .. N : Further(k1)
  BY WithinSteps
<1>2. k + 1 \in 1 .. N /\ k + 1 - 1 = k
  BY <1>1
<1>3. Further(k + 1)
  <2> HIDE DEF Further, N
  <2> QED BY <1>1, <1>2
<1> QED BY <1>2, <1>3

\* At first there is c alone.
LEMMA LevelFirst ==
  ASSUME NEW graph, NEW c \in Nodes
  PROVE  Level(graph, c, <<c>>, {c}, 0, 1)
<1> DEFINE W == Within(graph, c)
           q == <<c>>
<1>1. W[0] = {c} /\ Cardinality(Nodes) \in Nat
  BY WithinSteps
<1>2. Cardinality({c}) = 1
  BY FS_Singleton
<1>3. Len(q) = 1 /\ Elements(q) = {c} /\ q[1] = c
  BY DEF Elements
<1> HIDE DEF q, W
<1>4. {c} \subseteq Around(graph, {c})
  BY DEF Around
<1>5. \A i \in 1 .. Len(q) : i = 1
  BY <1>3
<1>6. \A i \in 1 .. Len(q) : q[i] \in {c} <=> i <= 1
  BY <1>3, <1>5
<1>7. 1 \in 1 .. 1
  OBVIOUS
<1>8. Level(graph, c, q, {c}, 0, 1)
  BY <1>1, <1>2, <1>3, <1>4, <1>6, <1>7 DEF Level, W
<1> QED BY <1>8 DEF q

\* The search goes on with the nodes one step further when it has seen through
\* all the nodes at a distance.
LEMMA LevelShift ==
  ASSUME NEW graph \in [Nodes -> SUBSET Nodes], NEW c \in Nodes, NEW q \in Seq(Nodes),
         q # <<>>, NEW v, Elements(q) \subseteq v,
         NEW k, NEW a, Level(graph, c, q, v, k, a)
  PROVE  \E k1, a1 : Level(graph, c, q, v, k1, a1) /\ a1 >= 1
<1> DEFINE W == Within(graph, c)
           N == Cardinality(Nodes)
<1>1. /\ k \in 0 .. N /\ a \in 0 .. Len(q) /\ Cardinality(W[k]) > k
      /\ W[k] \subseteq v /\ v \subseteq Around(graph, W[k])
      /\ \A i \in 1 .. Len(q) : q[i] \in W[k] <=> i <= a
      /\ \A n \in W[k] : (\E i \in 1 .. a : q[i] = n) \/ graph[n] \subseteq v
      /\ \A n \in v \ Elements(q) : graph[n] \subseteq v
  BY DEF Level
<1>2. CASE a >= 1
  BY <1>2
<1>3. CASE ~(a >= 1)
  <2>1. a = 0 /\ Len(q) \in Nat /\ Len(q) # 0
    BY <1>1, <1>3
  <2>2. 1 \in 1 .. Len(q)
    BY <2>1
  <2>3. q[1] \in v /\ q[1] \notin W[k]
    <3>1. q[1] \in Elements(q)
      BY <2>2, ElementsOfSeq
    <3>2. q[1] \in W[k] <=> 1 <= a
      BY <1>1, <2>2
    <3> QED BY <3>1, <3>2, <2>1
  <2>4. \A n \in W[k] : graph[n] \subseteq v
    <3>1. \A i \in 1 .. a : FALSE
      BY <2>1
    <3> QED BY <1>1, <3>1
  <2>5. v = Around(graph, W[k])
    BY <1>1, <2>4 DEF Around
  <2>6. W[k] \subseteq Nodes /\ N \in Nat
    BY <1>1, WithinNodes, WithinSteps
  <2>7. v \subseteq Nodes
    BY <2>5, <2>6 DEF Around
  <2>8. Cardinality(v) > k + 1 /\ k + 1 <= N
    BY <1>1, <2>3, <2>6, <2>7, OneMore
  <2>9. W[k + 1] = v
    BY <1>1, <2>5, <2>6, <2>8, WithinNext
  <2>10. v \subseteq Around(graph, v)
    BY DEF Around
  <2>11. \A i \in 1 .. Len(q) : q[i] \in v <=> i <= Len(q)
    <3>1. \A i \in 1 .. Len(q) : q[i] \in Elements(q)
      BY ElementsOfSeq
    <3> QED BY <3>1, <2>1
  <2>12. \A n \in v : (\E i \in 1 .. Len(q) : q[i] = n) \/ graph[n] \subseteq v
    BY <1>1, ElementsOfSeq
  <2>13. k + 1 \in 0 .. N /\ Len(q) \in 0 .. Len(q) /\ Len(q) >= 1
    BY <1>1, <2>1, <2>6, <2>8
  <2> HIDE DEF W, N
  <2>14. Level(graph, c, q, v, k + 1, Len(q))
    BY <1>1, <2>8, <2>9, <2>10, <2>11, <2>12, <2>13 DEF Level, W, N
  <2> QED BY <2>13, <2>14
<1> QED BY <1>2, <1>3

\* Seen through: the first node of the queue has no server beside it.
LEMMA LevelPush ==
  ASSUME NEW graph \in [Nodes -> SUBSET Nodes], NEW c \in Nodes, NEW q \in Seq(Nodes),
         q # <<>>, NEW v, Elements(q) \subseteq v, NEW next \in Seq(Nodes),
         Elements(next) = graph[Head(q)] \ v,
         NEW k, NEW a, Level(graph, c, q, v, k, a), a >= 1
  PROVE  Level(graph, c, Tail(q) \o next, v \cup Elements(next), k, a - 1)
<1> DEFINE w == Within(graph, c)[k]
           rest == Tail(q)
           h == Head(q)
           u == v \cup Elements(next)
           q1 == rest \o next
           m == Len(q) - 1
<1>1. /\ k \in 0 .. Cardinality(Nodes) /\ a \in 0 .. Len(q) /\ Cardinality(w) > k
      /\ w \subseteq v /\ v \subseteq Around(graph, w)
      /\ \A i \in 1 .. Len(q) : q[i] \in w <=> i <= a
      /\ \A n \in w : (\E i \in 1 .. a : q[i] = n) \/ graph[n] \subseteq v
      /\ \A n \in v \ Elements(q) : graph[n] \subseteq v
  BY DEF Level
<1>2. /\ Len(q) \in Nat \ {0} /\ rest \in Seq(Nodes) /\ Len(rest) = m
      /\ \A i \in 1 .. m : rest[i] = q[i + 1]
      /\ Elements(q) = {h} \cup Elements(rest)
      /\ h = q[1]
  BY TailMembers
<1>3. Elements(next) = graph[h] \ v
  OBVIOUS
<1>4. m \in Nat /\ Len(q) = m + 1 /\ Len(next) \in Nat
  BY <1>2
<1> HIDE DEF w, rest, h, m
<1>5. /\ q1 \in Seq(Nodes) /\ Len(q1) = m + Len(next)
      /\ Elements(q1) = Elements(rest) \cup Elements(next)
  BY <1>2, JoinedMembers
<1>6. /\ \A i \in 1 .. m : q1[i] = q[i + 1]
      /\ \A i \in m + 1 .. m + Len(next) : q1[i] = next[i - m]
  BY <1>2, <1>4
<1> HIDE DEF q1
<1>7. h \in w
  <2>1. 1 \in 1 .. Len(q) /\ 1 <= a
    BY <1>2
  <2> QED BY <1>1, <1>2, <2>1
<1>8. a - 1 \in 0 .. Len(q1)
  BY <1>1, <1>4, <1>5
<1>9. w \subseteq u
  BY <1>1
<1>10. u \subseteq Around(graph, w)
  BY <1>1, <1>3, <1>7 DEF Around
<1>11. ASSUME NEW i \in 1 .. Len(q1) PROVE q1[i] \in w <=> i <= a - 1
  <2>1. CASE i <= m
    <3>1. i \in 1 .. m /\ i + 1 \in 1 .. Len(q)
      BY <2>1, <1>4
    <3>2. q1[i] = q[i + 1] /\ (q[i + 1] \in w <=> i + 1 <= a)
      BY <3>1, <1>1, <1>6
    <3>3. i + 1 <= a <=> i <= a - 1
      BY <1>1, <1>4
    <3> QED BY <3>2, <3>3
  <2>2. CASE ~(i <= m)
    <3>1. i \in m + 1 .. m + Len(next) /\ i - m \in 1 .. Len(next)
      BY <2>2, <1>4, <1>5
    <3>2. q1[i] = next[i - m]
      BY <3>1, <1>6
    <3>3. next[i - m] \in Elements(next)
      BY <3>1, ElementsOfSeq
    <3>4. q1[i] \notin w
      BY <3>2, <3>3, <1>1, <1>3
    <3>5. ~(i <= a - 1)
      BY <3>1, <1>1, <1>4
    <3> QED BY <3>4, <3>5
  <2> QED BY <2>1, <2>2
<1>12. ASSUME NEW n \in w PROVE (\E i \in 1 .. a - 1 : q1[i] = n) \/ graph[n] \subseteq u
  <2>1. CASE graph[n] \subseteq v
    BY <2>1
  <2>2. CASE n = h
    BY <2>2, <1>3
  <2>3. CASE n # h /\ ~(graph[n] \subseteq v)
    <3>1. PICK i \in 1 .. a : q[i] = n
      BY <1>1, <2>3
    <3>2. i # 1
      BY <3>1, <2>3, <1>2
    <3>3. i - 1 \in 1 .. a - 1 /\ i - 1 \in 1 .. m /\ i - 1 + 1 = i
      BY <3>1, <3>2, <1>1, <1>4
    <3>4. q1[i - 1] = q[i]
      BY <3>3, <1>6
    <3> QED BY <3>1, <3>3, <3>4
  <2> QED BY <2>1, <2>2, <2>3
<1>13. ASSUME NEW n \in u \ Elements(q1) PROVE graph[n] \subseteq u
  <2>1. n \in v /\ n \notin Elements(rest)
    BY <1>5
  <2>2. CASE n = h
    BY <2>2, <1>3
  <2>3. CASE n # h
    BY <2>1, <2>3, <1>1, <1>2
  <2> QED BY <2>2, <2>3
<1> HIDE DEF u
<1>14. Level(graph, c, q1, u, k, a - 1)
  BY <1>1, <1>8, <1>9, <1>10, <1>11, <1>12, <1>13 DEF Level, w
<1> QED BY <1>14 DEF q1, u, rest

\* A server beside the first node of the queue is nearest to c.
LEMMA LevelFound ==
  ASSUME NEW graph \in [Nodes -> SUBSET Nodes], NEW c \in Nodes, NEW q \in Seq(Nodes),
         q # <<>>, NEW v, v \cap Elements(servers) = {},
         NEW k, NEW a, Level(graph, c, q, v, k, a), a >= 1,
         NEW s \in Elements(servers), s \in graph[Head(q)] \ v
  PROVE  IsNearest(graph, c, s)
<1> DEFINE w == Within(graph, c)[k]
           N == Cardinality(Nodes)
<1>1. /\ k \in 0 .. N /\ Cardinality(w) > k
      /\ w \subseteq v
      /\ \A i \in 1 .. Len(q) : q[i] \in w <=> i <= a
  BY DEF Level
<1>2. Len(q) \in Nat \ {0} /\ Head(q) = q[1]
  BY TailMembers
<1>3. Head(q) \in w
  <2>1. 1 \in 1 .. Len(q) /\ 1 <= a
    BY <1>2
  <2> QED BY <1>1, <1>2, <2>1
<1>4. s \in Around(graph, w) /\ s \notin w
  BY <1>1, <1>3 DEF Around
<1>5. w \subseteq Nodes /\ N \in Nat
  BY <1>1, WithinNodes, WithinSteps
<1>6. s \in Nodes
  BY <1>4, <1>5 DEF Around
<1>7. k + 1 <= N
  BY <1>1, <1>4, <1>5, <1>6, OneMore
<1>8. s \in Within(graph, c)[k + 1]
  BY <1>1, <1>4, <1>5, <1>7, WithinNext
<1>9. Within(graph, c)[k] \cap Elements(servers) = {}
  BY <1>1
<1>10. k \in Nat
  BY <1>1, <1>5
<1> HIDE DEF w, N
<1>11. k + 1 <= Cardinality(Nodes)
  BY <1>7 DEF N
<1> QED BY <1>8, <1>9, <1>10, <1>11, NearestAt

\* Without a queue, all that c reaches was visited.
LEMMA LevelEmpty ==
  ASSUME NEW graph, NEW c, NEW v, v \cap Elements(servers) = {},
         NEW k, NEW a, Level(graph, c, <<>>, v, k, a)
  PROVE  IsNearest(graph, c, servers[1])
<1>1. /\ k \in 0 .. Cardinality(Nodes) /\ Within(graph, c)[k] \subseteq v
      /\ \A n \in v \ Elements(<<>>) : graph[n] \subseteq v
  BY DEF Level
<1>2. Elements(<<>>) = {}
  BY DEF Elements
<1>3. c \in v
  <2>1. Cardinality(Nodes) \in Nat /\ Within(graph, c)[0] = {c}
    BY WithinSteps
  <2>2. 0 \in 0 .. k
    BY <1>1, <2>1
  <2>3. Within(graph, c)[0] \subseteq Within(graph, c)[k]
    BY <1>1, <2>2, WithinGrows
  <2> QED BY <1>1, <2>1, <2>3
<1> QED BY <1>1, <1>2, <1>3, NearestNone

-----------------------------------------------------------------------------
\* While the search goes on it has seen no server and comes from one distance
\* to the next.
SearchOK ==
  pc = "bfs" =>
    /\ visited \cap Elements(servers) = {}
    /\ \E k, a : Level(Graph, nodes[pt], queue, visited, k, a)

\* Every server in the table is nearest.
ServedOK ==
  pc \in {"build", "bfs", "done"} =>
    \A i \in 1 .. Len(routing_table) : routing_table[i].server_ip # Unset =>
      IsNearest(Graph, routing_table[i].client_ip, routing_table[i].server_ip)

NearOK == SearchOK /\ ServedOK

\* The graph of the links that are known.
LEMMA GraphType ==
  ASSUME LinksType
  PROVE  /\ Graph \in [Nodes -> SUBSET Nodes]
         /\ \A n \in Nodes : Graph[n] = Elements(neighbors[n])
<1>1. \A n \in Nodes : Elements(neighbors[n]) \subseteq Nodes
  BY ElementsOfSeq DEF LinksType
<1> QED BY <1>1 DEF Graph

\* What is nearest does not change while the table is built.
LEMMA BuildingKeepsNearest ==
  ASSUME UNCHANGED <<announced, lines, parsed>>
  PROVE  Graph' = Graph /\ nodes' = nodes /\ servers' = servers
         /\ \A c, s : IsNearest(Graph, c, s)' <=> IsNearest(Graph, c, s)
<1>1. Graph' = Graph /\ nodes' = nodes /\ servers' = servers
  BY DEF parsed, Graph, servers
<1> QED BY <1>1 DEF IsNearest, servers

\* Found(s) writes a nearest server if s is one.
LEMMA FoundNear ==
  ASSUME ListsOK, TableOK, NearOK, pc = "bfs", NEW s, Found(s),
         UNCHANGED <<announced, lines, parsed>>, IsNearest(Graph, nodes[pt], s)
  PROVE  NearOK'
<1>1. PICK m \in Nat : Filled(m) /\ Searching(m)
  BY DEF TableOK
<1>2. /\ Len(routing_table) = m + 1 /\ routing_table \in Seq(Entry)
      /\ routing_table[m + 1].client_ip = nodes[pt]
  BY <1>1 DEF TableOK, Rows, Searching
<1>3. pc' = "build" /\ routing_table' = [routing_table EXCEPT ![m + 1].server_ip = s]
  BY <1>2 DEF Found
<1> DEFINE new == [routing_table[m + 1] EXCEPT !.server_ip = s]
<1>4. routing_table' = [routing_table EXCEPT ![m + 1] = new]
  BY <1>3
<1>5. m + 1 \in 1 .. Len(routing_table) /\ routing_table[m + 1] \in Entry
      /\ DOMAIN routing_table = 1 .. m + 1
  BY <1>2
<1>6. new.client_ip = nodes[pt] /\ new.server_ip = s
  BY <1>2, <1>5 DEF Entry
<1> HIDE DEF new
<1>7. /\ Len(routing_table') = m + 1
      /\ routing_table'[m + 1] = new
      /\ \A i \in 1 .. m : routing_table'[i] = routing_table[i]
  BY <1>2, <1>4, <1>5
<1>8. ASSUME NEW i \in 1 .. m + 1, routing_table'[i].server_ip # Unset
      PROVE  IsNearest(Graph, routing_table'[i].client_ip, routing_table'[i].server_ip)
  <2>1. CASE i \in 1 .. m
    <3>1. routing_table'[i] = routing_table[i] /\ i \in 1 .. Len(routing_table)
      BY <1>2, <1>7, <2>1
    <3> QED BY <3>1, <1>8 DEF NearOK, ServedOK
  <2>2. CASE i = m + 1
    BY <2>2, <1>6, <1>7
  <2> QED BY <2>1, <2>2
<1>9. \A c, s1 : IsNearest(Graph, c, s1)' <=> IsNearest(Graph, c, s1)
  BY BuildingKeepsNearest
<1>11. ServedOK'
  BY <1>3, <1>7, <1>8, <1>9 DEF ServedOK
<1>12. SearchOK'
  BY <1>3 DEF SearchOK
<1> QED BY <1>11, <1>12 DEF NearOK


\* Servers stay where they are in the table when nothing is written to it.
LEMMA ServedKept ==
  ASSUME ServedOK, UNCHANGED <<announced, lines, parsed>>, UNCHANGED routing_table,
         pc \in {"build", "bfs"}
  PROVE  ServedOK'
<1>1. \A c, s : IsNearest(Graph, c, s)' <=> IsNearest(Graph, c, s)
  BY BuildingKeepsNearest
<1> QED BY <1>1 DEF ServedOK

\* A search starts at its client.
LEMMA NextClientNear ==
  ASSUME LinksType, ListsOK, TableOK, NearOK, NextClient
  PROVE  NearOK'
<1> DEFINE n == nodes[pt]
<1>1. /\ pc = "build" /\ pt <= Len(nodes) /\ routing_table' = Written(n)
      /\ UNCHANGED <<announced, lines, parsed>>
      /\ Skipped(n) => pc' = pc
      /\ ~Skipped(n) => pc' = "bfs" /\ pt' = pt /\ queue' = <<n>> /\ visited' = {n}
  BY DEF NextClient
<1>2. PICK m \in Nat : Filled(m) /\ Between(m)
  BY <1>1 DEF TableOK
<1>3. n \in Elements(nodes) /\ n \in Nodes
  <2>1. Len(nodes) \in Nat /\ nodes \in Seq(Nodes)
    BY DEF ListsOK
  <2>2. pt \in 1 .. Len(nodes)
    BY <1>1, <2>1 DEF TableOK, Rows
  <2> QED BY <2>1, <2>2, ElementsOfSeq
<1>4. /\ Graph' = Graph /\ nodes' = nodes /\ servers' = servers
      /\ \A c, s : IsNearest(Graph, c, s)' <=> IsNearest(Graph, c, s)
  BY <1>1, BuildingKeepsNearest
<1> HIDE DEF n
<1>5. /\ Len(routing_table') = m + 1
      /\ \A i \in 1 .. m : routing_table'[i] = routing_table[i]
      /\ routing_table'[m + 1] = [client_ip |-> n, server_ip |-> Unset]
  BY <1>1, <1>2, <1>3, Counted DEF TableOK
<1>6. ASSUME NEW i \in 1 .. m + 1, routing_table'[i].server_ip # Unset
      PROVE  IsNearest(Graph, routing_table'[i].client_ip, routing_table'[i].server_ip)
  <2>1. routing_table'[m + 1].server_ip = Unset
    BY <1>5
  <2>2. i \in 1 .. m
    BY <1>6, <2>1
  <2>3. i \in 1 .. Len(routing_table)
    BY <1>2, <2>2 DEF Filled, TableOK, Rows
  <2> QED BY <1>1, <1>5, <1>6, <2>2, <2>3 DEF NearOK, ServedOK
<1>7. ServedOK'
  BY <1>4, <1>5, <1>6 DEF ServedOK
<1>8. SearchOK'
  <2>1. SUFFICES ASSUME pc' = "bfs"
                 PROVE  /\ visited' \cap Elements(servers) = {}
                        /\ \E k, a : Level(Graph, n, queue', visited', k, a)
    <3>1. pc' = "bfs" => nodes'[pt'] = n
      BY <1>1, <1>4 DEF n
    <3>2. \A k, a : Level(Graph, nodes[pt], queue, visited, k, a)'
                      <=> Level(Graph', nodes'[pt'], queue', visited', k, a)
      BY DEF Level, Within, Around
    <3> QED BY <1>4, <3>1, <3>2 DEF SearchOK
  <2>2. ~Skipped(n)
    BY <1>1, <2>1
  <2>3. n \notin Elements(servers)
    BY <2>2 DEF Skipped
  <2>4. Level(Graph, n, <<n>>, {n}, 0, 1)
    BY <1>3, LevelFirst
  <2> QED BY <1>1, <2>2, <2>3, <2>4
<1> QED BY <1>7, <1>8 DEF NearOK

\* A step of the search comes from one distance to the next, or finds a nearest
\* server.
LEMMA PopNear ==
  ASSUME LinksType, ListsOK, TableOK, NearOK, BfsPop
  PROVE  NearOK'
<1> DEFINE h == Head(queue)
           next == Unvisited(h)
           c == nodes[pt]
<1>1. /\ pc = "bfs" /\ queue # <<>> /\ UNCHANGED <<announced, lines, parsed>>
      /\ h \in Nodes
      /\ next \in Seq(Nodes) /\ Elements(next) = Elements(neighbors[h]) \ visited
      /\ \/ pc' = "crashed" /\ UNCHANGED <<pt, routing_table, search>>
         \/ \E s \in (Elements(neighbors[h]) \ visited) \cap Elements(servers) : Found(s)
         \/ /\ Elements(next) \cap Elements(servers) = {}
            /\ queue' = Tail(queue) \o next
            /\ visited' = visited \cup Elements(next)
            /\ UNCHANGED <<pc, pt, routing_table>>
  BY PopEffect
<1>2. Graph \in [Nodes -> SUBSET Nodes] /\ Graph[h] = Elements(neighbors[h])
  BY <1>1, GraphType
<1>3. /\ Graph' = Graph /\ nodes' = nodes /\ servers' = servers
  BY <1>1, BuildingKeepsNearest
<1>4. /\ queue \in Seq(Nodes) /\ Elements(queue) \subseteq visited
  BY DEF TableOK, Rows
<1>5. c \in Nodes
  <2>1. Len(nodes) \in Nat /\ nodes \in Seq(Nodes)
    BY DEF ListsOK
  <2>2. pt \in 1 .. Len(nodes)
    BY <1>1, <2>1 DEF TableOK, Rows, Searching
  <2> QED BY <2>1, <2>2
<1> HIDE DEF h, c, next
<1>6. visited \cap Elements(servers) = {} /\ \E k, a : Level(Graph, c, queue, visited, k, a)
  BY <1>1 DEF NearOK, SearchOK, c
<1>7. PICK k, a : Level(Graph, c, queue, visited, k, a)
  BY <1>6
<1>8. PICK k1, a1 : Level(Graph, c, queue, visited, k1, a1) /\ a1 >= 1
  BY <1>1, <1>2, <1>4, <1>5, <1>7, LevelShift
<1>9. CASE pc' = "crashed" /\ UNCHANGED <<pt, routing_table, search>>
  BY <1>9 DEF NearOK, SearchOK, ServedOK
<1>10. CASE \E s \in (Elements(neighbors[h]) \ visited) \cap Elements(servers) : Found(s)
  <2>1. PICK s \in (Elements(neighbors[h]) \ visited) \cap Elements(servers) : Found(s)
    BY <1>10
  <2>2. s \in Elements(servers) /\ s \in Graph[Head(queue)] \ visited
    BY <1>2, <2>1 DEF h
  <2>3. IsNearest(Graph, c, s)
    BY <1>1, <1>2, <1>4, <1>5, <1>6, <1>8, <2>2, LevelFound
  <2> QED BY <1>1, <2>1, <2>3, FoundNear DEF c
<1>11. CASE /\ Elements(next) \cap Elements(servers) = {}
            /\ queue' = Tail(queue) \o next
            /\ visited' = visited \cup Elements(next)
            /\ UNCHANGED <<pc, pt, routing_table>>
  <2>1. visited' \cap Elements(servers) = {}
    BY <1>6, <1>11
  <2>2. Elements(next) = Graph[Head(queue)] \ visited
    BY <1>1, <1>2 DEF h
  <2>3. Level(Graph, c, Tail(queue) \o next, visited \cup Elements(next), k1, a1 - 1)
    BY <1>1, <1>2, <1>4, <1>5, <1>8, <2>2, LevelPush
  <2>4. Level(Graph, nodes[pt], queue, visited, k1, a1 - 1)'
    <3>1. Level(Graph', nodes'[pt'], queue', visited', k1, a1 - 1)
      BY <1>3, <1>11, <2>3 DEF c
    <3> QED BY <3>1 DEF Level, Within, Around
  <2>5. SearchOK'
    BY <1>3, <2>1, <2>4 DEF SearchOK
  <2>6. ServedOK'
    BY <1>1, <1>11, ServedKept DEF NearOK
  <2> QED BY <2>5, <2>6 DEF NearOK
<1> QED BY <1>1, <1>9, <1>10, <1>11

\* A search that ends without a server leaves its client the first one.
LEMMA EmptyNear ==
  ASSUME LinksType, ListsOK, TableOK, NearOK, BfsEmpty
  PROVE  NearOK'
<1>1. pc = "bfs" /\ queue = <<>> /\ Found(Default) /\ UNCHANGED <<announced, lines, parsed>>
  BY DEF BfsEmpty
<1>2. visited \cap Elements(servers) = {}
      /\ \E k, a : Level(Graph, nodes[pt], <<>>, visited, k, a)
  BY <1>1 DEF NearOK, SearchOK
<1> DEFINE c == nodes[pt]
           g == Graph
<1> HIDE DEF c, g
<1>3. PICK k, a : Level(g, c, <<>>, visited, k, a)
  BY <1>2 DEF c, g
<1>4. IsNearest(g, c, servers[1])
  BY <1>2, <1>3, LevelEmpty
<1> QED BY <1>1, <1>4, FoundNear DEF Default, c, g

\* Every step keeps what the search has seen and what the table gives.
LEMMA NextNear ==
  LinksType /\ ListsOK /\ TableOK /\ NearOK /\ [Next]_vars => NearOK'
<1> SUFFICES ASSUME LinksType, ListsOK, TableOK, NearOK, [Next]_vars PROVE NearOK'
  OBVIOUS
<1>1. ASSUME pc' \in {"lines", "crashed", "failed", "build"}, routing_table' = <<>> PROVE NearOK'
  BY <1>1 DEF NearOK, SearchOK, ServedOK
<1>2. CASE \E n \in Nodes, s \in 0 .. MaxSeq : ParseLine(n, s)
  <2>1. PICK n \in Nodes, s \in 0 .. MaxSeq : ParseLine(n, s)
    BY <1>2
  <2>2. pc = "lines" /\ pc' \in {pc, "crashed"} /\ UNCHANGED <<pt, routing_table, search>>
    BY <2>1 DEF ParseLine
  <2> QED BY <2>2, <1>1 DEF ListsOK
<1>3. CASE EndOfFile
  <2>1. pc = "lines" /\ pc' \in {"failed", "build"} /\ UNCHANGED <<pt, routing_table, search>>
    BY <1>3 DEF EndOfFile
  <2> QED BY <2>1, <1>1 DEF ListsOK
<1>4. CASE NextClient
  BY <1>4, NextClientNear
<1>5. CASE TableBuilt
  <2>1. /\ pc = "build" /\ pc' = "done"
        /\ UNCHANGED <<announced, lines, parsed>> /\ UNCHANGED routing_table
    BY <1>5 DEF TableBuilt
  <2>2. ServedOK'
    BY <2>1, ServedKept DEF NearOK
  <2> QED BY <2>1, <2>2 DEF NearOK, SearchOK
<1>6. CASE BfsPop
  BY <1>6, PopNear
<1>7. CASE BfsEmpty
  BY <1>7, EmptyNear
<1>8. CASE UNCHANGED vars
  <2>1. /\ UNCHANGED <<announced, lines, parsed>>
        /\ UNCHANGED <<pc, pt, routing_table, queue, visited>>
    BY <1>8 DEF vars, search
  <2>2. /\ Graph' = Graph /\ nodes' = nodes /\ servers' = servers
        /\ \A c, s : IsNearest(Graph, c, s)' <=> IsNearest(Graph, c, s)
    BY <2>1, BuildingKeepsNearest
  <2>3. SearchOK'
    <3>1. \A k, a : Level(Graph, nodes[pt], queue, visited, k, a)'
                      <=> Level(Graph', nodes'[pt'], queue', visited', k, a)
      BY DEF Level, Within, Around
    <3> QED BY <2>1, <2>2, <3>1 DEF NearOK, SearchOK
  <2>4. ServedOK'
    BY <2>1, <2>2 DEF NearOK, ServedOK
  <2> QED BY <2>3, <2>4 DEF NearOK
<1> QED BY <1>2, <1>3, <1>4, <1>5, <1>6, <1>7, <1>8 DEF Next, Stopped

\* There is no table at first.
LEMMA InitNear == Init => NearOK
BY DEF Init, NearOK, SearchOK, ServedOK

\* The inductive form gives the invariant the runs check.
LEMMA NearDone == TableOK /\ NearOK => NearestServer
<1> SUFFICES ASSUME TableOK, NearOK, pc = "done", NEW e \in Elements(routing_table),
                    e.server_ip # Unset
             PROVE  IsNearest(Graph, e.client_ip, e.server_ip)
  BY DEF NearestServer, Graph
<1>1. PICK i \in 1 .. Len(routing_table) : e = routing_table[i]
  BY ElementsOfSeq DEF TableOK, Rows
<1> QED BY <1>1 DEF NearOK, ServedOK

\* Whatever was announced and in whatever order, the server that the search
\* finds first is nearest, or there is none that the client reaches.
THEOREM NearestServerCorrect == Spec => []NearestServer
<1>1. Init => LinksType /\ ListsOK /\ TableOK /\ NearOK
  BY InitLinks, InitLists, InitTable, InitNear
<1>2. LinksType /\ ListsOK /\ TableOK /\ NearOK /\ [Next]_vars
        => (LinksType /\ ListsOK /\ TableOK /\ NearOK)'
  BY NextLinks, NextLists, NextTable, NextNear
<1>3. TableOK /\ NearOK => NearestServer
  BY NearDone
<1> QED BY <1>1, <1>2, <1>3, PTL DEF Spec

-----------------------------------------------------------------------------
\* How many steps are left: lines to read, then for every node of the list an
\* entry and a search, which takes each node once, and its end.
Unseen == Cardinality(Nodes \ visited) + Len(queue)

StepsLeft ==
  LET perNode == Cardinality(Nodes) + 2
  IN  CASE pc = "lines" -> (MaxLines - lines) + Cardinality(Nodes) * perNode + 2
        [] pc = "build" -> (Len(nodes) + 1 - pt) * perNode + 1
        [] pc = "bfs"   -> (Len(nodes) - pt) * perNode + 2 + Unseen
        [] OTHER        -> 0

\* A list that holds every node once is as long as the set of them.
LEMMA LengthOf ==
  ASSUME NEW T, NEW list \in Seq(T), NoRepeats(list)
  PROVE  IsFiniteSet(Elements(list)) /\ Cardinality(Elements(list)) = Len(list)
<1> DEFINE n == Len(list)
           E == Elements(list)
<1>1. n \in Nat /\ list \in [1 .. n -> E] /\ \A x \in E : \E i \in 1 .. n : list[i] = x
  BY DEF Elements
<1>2. \A i, j \in 1 .. n : list[i] = list[j] => i = j
  BY DEF NoRepeats
<1> HIDE DEF n, E
<1>3. list \in Bijection(1 .. n, E)
  <2>1. DOMAIN list = 1 .. n
    BY <1>1
  <2>2. list \in Injection(1 .. n, E)
    BY <1>1, <1>2, <2>1 DEF Injection, IsInjective
  <2>3. list \in Surjection(1 .. n, E)
    BY <1>1 DEF Surjection
  <2> QED BY <2>2, <2>3 DEF Bijection
<1>4. IsFiniteSet(1 .. n) /\ Cardinality(1 .. n) = n
  BY <1>1, FS_Interval
<1>5. IsFiniteSet(E) /\ Cardinality(E) = n
  BY <1>3, <1>4, FS_Bijection DEF ExistsBijection
<1> QED BY <1>5 DEF n, E

LEMMA Sizes ==
  ASSUME ListsOK, TableOK
  PROVE  /\ Cardinality(Nodes) \in Nat /\ Len(nodes) \in 0 .. Cardinality(Nodes)
         /\ IsFiniteSet(Nodes \ visited) /\ Cardinality(Nodes \ visited) \in Nat
         /\ Len(queue) \in Nat /\ Unseen \in Nat /\ pt \in 1 .. Len(nodes) + 1
         /\ pc = "bfs" => pt <= Len(nodes)
<1>1. IsFiniteSet(Nodes) /\ Cardinality(Nodes) \in Nat
  BY FilesAssumption, FS_CardinalityType
<1>2. Len(nodes) = Cardinality(Elements(nodes)) /\ Elements(nodes) \in SUBSET Nodes /\ Len(nodes) \in Nat
  <2>1. nodes \in Seq(Nodes) /\ NoRepeats(nodes)
    BY DEF ListsOK
  <2> QED BY <2>1, LengthOf, ElementsOfSeq
<1>3. Len(nodes) <= Cardinality(Nodes)
  BY <1>1, <1>2, FS_Subset
<1>4. IsFiniteSet(Nodes \ visited) /\ Cardinality(Nodes \ visited) \in Nat
  <2>1. Nodes \ visited \in SUBSET Nodes
    OBVIOUS
  <2>2. IsFiniteSet(Nodes \ visited)
    BY <1>1, <2>1, FS_Subset
  <2> QED BY <2>2, FS_CardinalityType
<1>5. Len(queue) \in Nat /\ pt \in 1 .. Len(nodes) + 1 /\ (pc = "bfs" => pt <= Len(nodes))
  BY DEF TableOK, Rows, Searching
<1> QED BY <1>1, <1>2, <1>3, <1>4, <1>5 DEF Unseen

\* More nodes take more steps.
LEMMA Times ==
  ASSUME NEW a \in Nat, NEW b \in Nat, a <= b, NEW c \in Nat
  PROVE  /\ a * c \in Nat /\ b * c \in Nat /\ a * c <= b * c
         /\ (a + 1) * c = a * c + c
OBVIOUS

LEMMA StepsAreANumber == ListsOK /\ TableOK => StepsLeft \in Nat
<1> SUFFICES ASSUME ListsOK, TableOK PROVE StepsLeft \in Nat
  OBVIOUS
<1> DEFINE N == Cardinality(Nodes)
           m == Len(nodes)
           perNode == N + 2
<1>1. N \in Nat /\ m \in Nat /\ pt \in 1 .. m + 1 /\ Unseen \in Nat /\ (pc = "bfs" => pt <= m)
  BY Sizes
<1>2. MaxLines - lines \in Nat
  BY BoundsAssumption DEF ListsOK
<1>3. StepsLeft = CASE pc = "lines" -> (MaxLines - lines) + N * perNode + 2
                    [] pc = "build" -> (m + 1 - pt) * perNode + 1
                    [] pc = "bfs"   -> (m - pt) * perNode + 2 + Unseen
                    [] OTHER        -> 0
  BY DEF StepsLeft
<1>4. perNode \in Nat
  BY <1>1
<1> HIDE DEF N, m, perNode
<1>5. CASE pc = "lines"
  <2>1. N * perNode \in Nat
    BY <1>1, <1>4, Times
  <2> QED BY <1>2, <1>3, <1>5, <2>1
<1>6. CASE pc = "build"
  <2>1. (m + 1 - pt) \in Nat
    BY <1>1
  <2>2. (m + 1 - pt) * perNode \in Nat
    BY <1>4, <2>1, Times
  <2> QED BY <1>3, <1>6, <2>2
<1>7. CASE pc = "bfs"
  <2>1. (m - pt) \in Nat
    BY <1>1, <1>7
  <2>2. (m - pt) * perNode \in Nat
    BY <1>4, <2>1, Times
  <2> QED BY <1>1, <1>3, <1>7, <2>2
<1>8. CASE pc \notin {"lines", "build", "bfs"}
  BY <1>3, <1>8
<1> QED BY <1>5, <1>6, <1>7, <1>8

\* A line that was read is one less to read, and nothing is left after a crash.
LEMMA LineCounts ==
  ASSUME ListsOK, TableOK, StepsLeft \in Nat, NEW n \in Nodes, NEW s \in 0 .. MaxSeq, ParseLine(n, s)
  PROVE  StepsLeft' < StepsLeft
<1> DEFINE more == Cardinality(Nodes) * (Cardinality(Nodes) + 2)
<1>1. pc = "lines" /\ lines' = lines + 1 /\ lines < MaxLines /\ (pc' = pc \/ pc' = "crashed")
  BY DEF ParseLine
<1>2. StepsLeft = (MaxLines - lines) + more + 2
  BY <1>1 DEF StepsLeft
<1>3. more \in Nat
  <2>1. Cardinality(Nodes) \in Nat /\ Cardinality(Nodes) + 2 \in Nat
    BY Sizes
  <2> QED BY <2>1, Times
<1>4. lines \in Nat /\ MaxLines \in Nat
  BY BoundsAssumption DEF ListsOK
<1>5. CASE pc' = pc
  <2>1. StepsLeft' = (MaxLines - lines') + more + 2
    BY <1>1, <1>5 DEF StepsLeft
  <2> HIDE DEF more
  <2> QED BY <1>1, <1>2, <1>3, <1>4, <2>1
<1>6. CASE pc' = "crashed"
  <2>1. StepsLeft' = 0
    BY <1>6 DEF StepsLeft
  <2> HIDE DEF more
  <2> QED BY <1>1, <1>2, <1>3, <1>4, <2>1
<1> QED BY <1>1, <1>5, <1>6

LEMMA EndCounts ==
  ASSUME ListsOK, TableOK, EndOfFile PROVE StepsLeft' < StepsLeft
<1> DEFINE N == Cardinality(Nodes)
           m == Len(nodes)
           perNode == N + 2
<1>1. pc = "lines" /\ pt = 1 /\ (pc' = "build" \/ pc' = "failed") /\ UNCHANGED <<lines, nodes, pt>>
  BY DEF EndOfFile, parsed, ListsOK
<1>2. N \in Nat /\ m \in Nat /\ m <= N /\ perNode \in Nat
  BY Sizes
<1>3. MaxLines - lines \in Nat
  BY BoundsAssumption DEF ListsOK
<1>4. StepsLeft = (MaxLines - lines) + N * perNode + 2
  BY <1>1 DEF StepsLeft
<1>5. pc' = "build" => StepsLeft' = (m + 1 - 1) * perNode + 1
  BY <1>1 DEF StepsLeft
<1>6. pc' = "failed" => StepsLeft' = 0
  BY <1>1 DEF StepsLeft
<1>7. m + 1 - 1 = m
  BY <1>2
<1> HIDE DEF N, m, perNode
<1>8. m * perNode \in Nat /\ N * perNode \in Nat /\ m * perNode <= N * perNode
  BY <1>2, Times
<1> QED BY <1>1, <1>3, <1>4, <1>5, <1>6, <1>7, <1>8

\* A node that is skipped, or a search that is over, leaves the rest of the list.
LEMMA RestCounts ==
  ASSUME ListsOK, TableOK, NEW p, p = pt, pt <= Len(nodes), pc' = "build", pt' = p + 1, UNCHANGED nodes
  PROVE  /\ pc = "build" => StepsLeft' < StepsLeft
         /\ pc = "bfs" => StepsLeft' < StepsLeft
<1> DEFINE perNode == Cardinality(Nodes) + 2
           m == Len(nodes)
           k == m - pt
<1>1. perNode \in Nat /\ perNode > 0 /\ m \in Nat /\ k \in Nat /\ Unseen \in Nat
      /\ m + 1 - pt = k + 1 /\ m + 1 - (pt + 1) = k
  BY Sizes
<1>2. pc = "build" => StepsLeft = (m + 1 - pt) * perNode + 1
  BY DEF StepsLeft
<1>3. pc = "bfs" => StepsLeft = k * perNode + 2 + Unseen
  BY DEF StepsLeft
<1>4. StepsLeft' = (m + 1 - (pt + 1)) * perNode + 1
  BY DEF StepsLeft
<1> HIDE DEF perNode, m, k
<1>5. k * perNode \in Nat /\ (k + 1) * perNode = k * perNode + perNode
  BY <1>1, Times
<1> QED BY <1>1, <1>2, <1>3, <1>4, <1>5

LEMMA NextClientCounts ==
  ASSUME ListsOK, TableOK, NextClient PROVE StepsLeft' < StepsLeft
<1>1. pc = "build" /\ pt <= Len(nodes) /\ UNCHANGED nodes
  BY DEF NextClient, parsed
<1>2. CASE Skipped(nodes[pt])
  <2>1. pt' = pt + 1 /\ pc' = "build"
    BY <1>1, <1>2 DEF NextClient
  <2> QED BY <1>1, <2>1, RestCounts
<1>3. CASE ~Skipped(nodes[pt])
  <2> DEFINE N == Cardinality(Nodes)
             perNode == N + 2
             m == Len(nodes)
             k == m - pt
             c == nodes[pt]
  <2>1. pc' = "bfs" /\ pt' = pt /\ queue' = <<c>> /\ visited' = {c}
    BY <1>3 DEF NextClient
  <2>2. N \in Nat /\ m \in Nat /\ k \in Nat /\ m + 1 - pt = k + 1 /\ perNode \in Nat
    BY <1>1, Sizes
  <2>3. c \in Nodes
    BY <1>1, Sizes DEF ListsOK
  <2>4. Cardinality(Nodes \ {c}) = N - 1
    BY <2>3, FilesAssumption, FS_RemoveElement
  <2>5. Unseen' = N
    <3>1. Len(queue') = 1
      BY <2>1
    <3> HIDE DEF N, c
    <3> QED BY <2>1, <2>2, <2>4, <3>1 DEF Unseen
  <2>6. StepsLeft = (m + 1 - pt) * perNode + 1
    BY <1>1 DEF StepsLeft
  <2>7. StepsLeft' = (m - pt) * perNode + 2 + Unseen'
    BY <1>1, <2>1 DEF StepsLeft
  <2>8. perNode = N + 2
    OBVIOUS
  <2> HIDE DEF N, perNode, m
  <2>9. k * perNode \in Nat /\ (k + 1) * perNode = k * perNode + perNode
    BY <2>2, Times
  <2> HIDE DEF k
  <2>10. m - pt = k
    BY DEF k
  <2> QED BY <2>2, <2>5, <2>6, <2>7, <2>8, <2>9, <2>10
<1> QED BY <1>2, <1>3

\* A node that is taken from the queue, and those it puts there, were seen.
LEMMA PopCounts ==
  ASSUME LinksType, ListsOK, TableOK, BfsPop PROVE StepsLeft' < StepsLeft
<1> DEFINE h == Head(queue)
           next == Unvisited(h)
<1>1. /\ pc = "bfs" /\ queue # <<>> /\ UNCHANGED <<nodes, lines>> /\ h \in Nodes
      /\ next \in Seq(Nodes) /\ Elements(next) \cap visited = {}
  BY PopEffect DEF parsed
<1>2. \/ pc' = "crashed"
      \/ pt' = pt + 1 /\ pc' = "build"
      \/ queue' = Tail(queue) \o next /\ visited' = visited \cup Elements(next) /\ UNCHANGED <<pc, pt>>
  BY PopEffect DEF Found
<1>3. pt <= Len(nodes)
  BY <1>1, Sizes
<1>4. CASE pc' = "crashed"
  <2>1. StepsLeft' = 0 /\ StepsLeft = (Len(nodes) - pt) * (Cardinality(Nodes) + 2) + 2 + Unseen
    BY <1>1, <1>4 DEF StepsLeft
  <2>2. Len(nodes) - pt \in Nat /\ Cardinality(Nodes) + 2 \in Nat /\ Unseen \in Nat
    BY <1>3, Sizes
  <2>3. (Len(nodes) - pt) * (Cardinality(Nodes) + 2) \in Nat
    BY <2>2, Times
  <2> QED BY <2>1, <2>2, <2>3
<1>5. CASE pt' = pt + 1 /\ pc' = "build"
  BY <1>1, <1>3, <1>5, RestCounts
<1>6. CASE queue' = Tail(queue) \o next /\ visited' = visited \cup Elements(next) /\ UNCHANGED <<pc, pt>>
  <2>1. NoRepeats(next)
    <3>1. neighbors[h] \in Seq(Nodes) /\ NoRepeats(neighbors[h])
      BY <1>1 DEF LinksType, ListsOK
    <3> HIDE DEF h
    <3>2. Reversed(neighbors[h]) \in Seq(Nodes) /\ NoRepeats(Reversed(neighbors[h]))
      BY <3>1, ReversedMembers
    <3> QED BY <3>2, KeptMembers DEF Unvisited
  <2> DEFINE E == Elements(next)
             R == Nodes \ visited'
  <2> HIDE DEF next, h
  <2>2. IsFiniteSet(E) /\ Cardinality(E) = Len(next) /\ E \in SUBSET Nodes /\ Len(next) \in Nat
    BY <1>1, <2>1, LengthOf, ElementsOfSeq
  <2>3. E \cup R = Nodes \ visited /\ E \cap R = {} /\ R \in SUBSET Nodes
    BY <1>1, <1>6, <2>2
  <2> HIDE DEF E, R
  <2>4. IsFiniteSet(R) /\ Cardinality(R) \in Nat
    BY <2>3, FilesAssumption, FS_Subset, FS_CardinalityType
  <2>5. Cardinality(Nodes \ visited) = Cardinality(E) + Cardinality(R)
    <3>1. Cardinality(E \cup R) = Cardinality(E) + Cardinality(R) - Cardinality(E \cap R)
      BY <2>2, <2>4, FS_Union
    <3>2. Cardinality(E \cap R) = 0
      BY <2>3, FS_EmptySet
    <3>3. Cardinality(E \cup R) = Cardinality(E) + Cardinality(R)
      BY <2>2, <2>4, <3>1, <3>2
    <3> QED BY <2>3, <3>3
  <2>6. Len(queue') = Len(queue) - 1 + Len(next) /\ Len(queue) \in Nat
    <3>1. queue \in Seq(Nodes)
      BY DEF TableOK, Rows
    <3>2. Tail(queue) \in Seq(Nodes) /\ Len(Tail(queue)) = Len(queue) - 1 /\ Len(queue) \in Nat
      BY <1>1, <3>1, TailMembers
    <3> QED BY <1>1, <1>6, <3>2
  <2>7. Unseen' = Unseen - 1 /\ Unseen \in Nat /\ Unseen' \in Nat
    <3>1. Unseen' = Cardinality(R) + Len(queue')
      BY DEF Unseen, R
    <3>2. Unseen = Cardinality(Nodes \ visited) + Len(queue) /\ Unseen \in Nat
      BY Sizes DEF Unseen
    <3>3. Len(queue) >= 1
      BY <1>1 DEF TableOK, Rows
    <3> QED BY <2>2, <2>4, <2>5, <2>6, <3>1, <3>2, <3>3
  <2>8. StepsLeft = (Len(nodes) - pt) * (Cardinality(Nodes) + 2) + 2 + Unseen
        /\ StepsLeft' = (Len(nodes) - pt) * (Cardinality(Nodes) + 2) + 2 + Unseen'
    BY <1>1, <1>6 DEF StepsLeft
  <2>9. (Len(nodes) - pt) * (Cardinality(Nodes) + 2) \in Nat
    <3>1. Len(nodes) - pt \in Nat /\ Cardinality(Nodes) + 2 \in Nat
      BY <1>3, Sizes
    <3> QED BY <3>1, Times
  <2> QED BY <2>7, <2>8, <2>9
<1> QED BY <1>2, <1>4, <1>5, <1>6

LEMMA BuiltCounts == ASSUME ListsOK, TableOK, TableBuilt PROVE StepsLeft' < StepsLeft
<1>1. pc = "build" /\ pc' = "done"
  BY DEF TableBuilt
<1>2. StepsLeft' = 0 /\ StepsLeft = (Len(nodes) + 1 - pt) * (Cardinality(Nodes) + 2) + 1
  BY <1>1 DEF StepsLeft
<1>3. Len(nodes) + 1 - pt \in Nat /\ Cardinality(Nodes) + 2 \in Nat
  BY Sizes
<1>4. (Len(nodes) + 1 - pt) * (Cardinality(Nodes) + 2) \in Nat
  BY <1>3, Times
<1> QED BY <1>2, <1>4

\* However the lists were announced and whatever their links, reading them and
\* building the table ends, if only with a crash, after at most
\* MaxLines + N * (N + 2) + 2 steps for N nodes: every step leaves fewer.  No search
\* queues a node twice.
THEOREM EveryStepCounts ==
  Spec => /\ StepsLeft <= MaxLines + Cardinality(Nodes) * (Cardinality(Nodes) + 2) + 2
          /\ [](StepsLeft \in Nat)
          /\ [][StepsLeft' < StepsLeft]_vars
<1>1. Init => LinksType /\ ListsOK /\ TableOK
  BY InitLinks, InitLists, InitTable
<1>2. LinksType /\ ListsOK /\ TableOK /\ [Next]_vars => (LinksType /\ ListsOK /\ TableOK)'
  BY NextLinks, NextLists, NextTable
<1>3. Init => StepsLeft <= MaxLines + Cardinality(Nodes) * (Cardinality(Nodes) + 2) + 2
  <2> SUFFICES ASSUME Init PROVE StepsLeft <= MaxLines + Cardinality(Nodes) * (Cardinality(Nodes) + 2) + 2
    OBVIOUS
  <2> DEFINE more == Cardinality(Nodes) * (Cardinality(Nodes) + 2)
  <2>1. StepsLeft = (MaxLines - 0) + more + 2
    BY DEF Init, StepsLeft
  <2>2. more \in Nat /\ MaxLines \in Nat
    <3>1. Cardinality(Nodes) \in Nat /\ Cardinality(Nodes) + 2 \in Nat
      BY FilesAssumption, FS_CardinalityType
    <3> QED BY <3>1, Times, BoundsAssumption
  <2> HIDE DEF more
  <2>3. StepsLeft <= MaxLines + more + 2
    BY <2>1, <2>2
  <2> QED BY <2>3 DEF more
<1>4. LinksType /\ ListsOK /\ TableOK => StepsLeft \in Nat
  BY StepsAreANumber
<1>5. LinksType /\ ListsOK /\ TableOK /\ [Next]_vars => [StepsLeft' < StepsLeft]_vars
  <2> SUFFICES ASSUME LinksType, ListsOK, TableOK, Next, ~UNCHANGED vars PROVE StepsLeft' < StepsLeft
    OBVIOUS
  <2>1. ASSUME NEW n \in Nodes, NEW s \in 0 .. MaxSeq, ParseLine(n, s) PROVE StepsLeft' < StepsLeft
    BY <2>1, StepsAreANumber, LineCounts
  <2>2. CASE BfsEmpty
    <3>1. pc = "bfs" /\ pt' = pt + 1 /\ pc' = "build" /\ UNCHANGED nodes
      BY <2>2 DEF BfsEmpty, Found, parsed
    <3>2. pt <= Len(nodes)
      BY <3>1, Sizes
    <3> QED BY <3>1, <3>2, RestCounts
  <2>3. ~Stopped
    BY DEF Stopped
  <2> QED BY <2>1, <2>2, <2>3, EndCounts, NextClientCounts, BuiltCounts, PopCounts DEF Next
<1> QED BY <1>1, <1>2, <1>3, <1>4, <1>5, PTL DEF Spec
=============================================================================
