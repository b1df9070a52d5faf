--------------------------- MODULE AdaptationProofs ---------------------------
(***************************************************************************)
(* The throughput estimates of Adaptation for any addresses, rates and      *)
(* alpha, the list parse_xml_to_list makes of any manifest, and the choice   *)
(* of select_bitrate for any list and throughput.                          *)
(***************************************************************************)
EXTENDS Adaptation, FiniteSetTheorems, SequenceTheorems, WellFoundedInduction, TLAPS

-----------------------------------------------------------------------------
(* The average *)

\* A smoothed rate is the truncated average, or one less if it was whole.
LEMMA SmoothedCases ==
  ASSUME NEW num, NEW den, NEW T, NEW X, NEW q \in Smoothed(num, den, T, X)
  PROVE  LET sum == num * T + (den - num) * X
         IN  \/ q = sum \div den
             \/ /\ q = sum \div den - 1 /\ sum > 0 /\ sum % den = 0
                /\ 0 < num /\ num < den
BY Zenon DEF Smoothed

\* A weighted average lies below what both of its terms lie below.
LEMMA SmoothedBounded ==
  ASSUME NEW num \in Nat, NEW den \in Nat \ {0}, num <= den,
         NEW T \in Nat, NEW X \in Nat, NEW B \in Nat, T <= B, X <= B
  PROVE  \A q \in Smoothed(num, den, T, X) : q \in Nat /\ q <= B
<1> DEFINE rest == den - num
<1>1. rest \in Nat  OBVIOUS
<1>2. num * T \in Nat /\ num * T <= num * B  OBVIOUS
<1>3. rest * X \in Nat /\ rest * X <= rest * B  BY <1>1
<1>4. num * B + rest * B = den * B  OBVIOUS
<1>5. num * T + rest * X <= den * B  
  <2> HIDE DEF rest
  <2>1. num * B \in Nat /\ rest * B \in Nat  BY <1>1
  <2>2. QED  BY <1>2, <1>3, <1>4, <2>1
<1>6. \A s \in Nat : s <= den * B => s \div den \in Nat /\ s \div den <= B
  <2> SUFFICES ASSUME NEW s \in Nat, s <= den * B
               PROVE  s \div den \in Nat /\ s \div den <= B
      OBVIOUS
  <2>1. s \div den \in Nat /\ den * (s \div den) <= s
    <3>1. s \div den \in Nat  OBVIOUS
    <3>2. den * (s \div den) <= s  OBVIOUS
    <3>3. QED  BY <3>1, <3>2
  <2> DEFINE q == s \div den
  <2> HIDE DEF q
  <2>2. ASSUME q > B PROVE FALSE
    <3>1. q \in Nat /\ q >= B + 1  BY <2>1, <2>2 DEF q
    <3>2. den * q >= den * (B + 1)  BY <3>1
    <3>3. den * (B + 1) = den * B + den  OBVIOUS
    <3>4. s >= den * q  BY <2>1, <3>1 DEF q
    <3>5. QED  BY <3>1, <3>2, <3>3, <3>4
  <2>3. QED  BY <2>1, <2>2 DEF q
<1>7. QED
  <2> DEFINE sum == num * T + rest * X
  <2>1. sum \in Nat  BY <1>2, <1>3
  <2>2. sum \div den \in Nat /\ sum \div den <= B  BY <1>5, <1>6, <2>1
  <2>3. sum > 0 /\ sum % den = 0 => sum \div den > 0
    <3> HIDE DEF sum
    <3>1. QED  BY <2>1
  <2>4. \A q \in Smoothed(num, den, T, X) :
          q = sum \div den \/ (q = sum \div den - 1 /\ sum > 0 /\ sum % den = 0)
    <3> TAKE q \in Smoothed(num, den, T, X)
    <3> QED  BY SmoothedCases, Zenon
  <2> HIDE DEF sum
  <2>5. QED  BY <2>2, <2>3, <2>4

\* The average takes a step towards the new rate, however it is rounded.
LEMMA SmoothedToward ==
  ASSUME NEW T \in Nat, NEW E \in Nat, NEW new \in Smoothed(AlphaNum, AlphaDen, T, E)
  PROVE  Toward(E, T, new)
<1> DEFINE num == AlphaNum
           den == AlphaDen
           s   == num * T + (den - num) * E
           q   == s \div den
<1>1. num \in Nat /\ den \in Nat /\ den > 0 /\ num <= den  BY AlphaAssumption
<1>2. num * T \in Nat /\ num * E \in Nat /\ (den - num) * E \in Nat  BY <1>1
<1>3. (den - num) * E = den * E - num * E  BY <1>1
<1>4. s \in Nat /\ s = den * E + (num * T - num * E)  BY <1>1, <1>2, <1>3
<1>5. q \in Nat /\ den * q <= s /\ s < den * (q + 1)
  <2> HIDE DEF s, num, den
  <2>1. q \in Nat  BY <1>1, <1>4
  <2>2. den * q <= s  BY <1>1, <1>4
  <2>3. s < den * q + den  BY <1>1, <1>4
  <2>4. den * (q + 1) = den * q + den  BY <1>1, <2>1
  <2>5. QED  BY <2>1, <2>2, <2>3, <2>4
<1>6. \A a, b \in Nat : den * a < den * (b + 1) => a <= b
  <2> HIDE DEF den
  <2> SUFFICES ASSUME NEW a \in Nat, NEW b \in Nat, a >= b + 1 PROVE ~(den * a < den * (b + 1))
      OBVIOUS
  <2>1. den * a >= den * (b + 1)  BY <1>1
  <2>2. den * a \in Nat /\ den * (b + 1) \in Nat  BY <1>1
  <2>3. QED  BY <2>1, <2>2
<1>7. \A a \in Nat : den * (a + 1) = den * a + den /\ den * a \in Nat  BY <1>1
<1>8. num * (T - E) = num * T - num * E /\ num * (E - T) = num * E - num * T  BY <1>1
<1>9. (den - num) * (T - E) = (den * T - den * E) - (num * T - num * E)  BY <1>1
<1>10. \/ new = q
       \/ new = q - 1 /\ s = den * q /\ s > 0 /\ 0 < num /\ num < den
  <2>1. \/ new = q
        \/ new = q - 1 /\ s % den = 0 /\ s > 0 /\ 0 < num /\ num < den
    BY SmoothedCases
  <2>2. s % den = 0 => s = den * q
    <3> HIDE DEF s, num, den
    <3>1. QED  BY <1>1, <1>4
  <2>3. QED  BY <2>1, <2>2
<1> HIDE DEF s, q, num, den
<1>11. CASE E < T
  <2>1. num * T >= num * E  BY <1>1, <1>2, <1>11
  <2>2. den * T - den * E >= num * T - num * E
    <3>1. (den - num) * (T - E) >= 0  BY <1>1, <1>11
    <3>2. QED  BY <1>1, <1>2, <1>7, <1>9, <3>1
  <2>3. den * E <= s /\ s <= den * T  BY <1>2, <1>4, <1>7, <2>1, <2>2
  <2>4. E <= q  BY <1>1, <1>4, <1>5, <1>6, <1>7, <2>3
  <2>5. q <= T
    <3>1. den * q < den * (T + 1)  BY <1>1, <1>4, <1>5, <1>7, <2>3
    <3>2. QED  BY <1>5, <1>6, <3>1
  <2>6. ASSUME s > den * E, s = den * q PROVE E + 1 <= q
    <3>1. den * E < den * q  BY <1>5, <1>7, <2>6
    <3>2. q # E  BY <1>7, <3>1
    <3>3. QED  BY <1>5, <2>4, <3>2
  <2>7. 0 < num => s > den * E
    <3>1. 0 < num => num * (T - E) > 0  BY <1>1, <1>11
    <3>2. QED  BY <1>2, <1>4, <1>7, <1>8, <3>1
  <2>8. E <= new /\ new <= T
    <3>1. CASE new = q  BY <2>4, <2>5, <3>1
    <3>2. CASE new = q - 1 /\ s = den * q /\ 0 < num
          BY <1>5, <2>5, <2>6, <2>7, <3>2
    <3>3. QED  BY <1>10, <3>1, <3>2
  <2>9. ASSUME num * (T - E) > den PROVE E < new
    <3>1. s > den * (E + 1)  BY <1>1, <1>2, <1>4, <1>7, <1>8, <2>9
    <3>2. den * (E + 1) < den * (q + 1)  BY <1>1, <1>4, <1>5, <1>7, <3>1
    <3>3. E + 1 <= q  BY <1>5, <1>6, <3>2
    <3>4. s = den * q => q # E + 1  BY <1>5, <1>7, <3>1
    <3>5. CASE new = q  BY <1>5, <3>3, <3>5
    <3>6. CASE new = q - 1 /\ s = den * q  BY <1>5, <3>3, <3>4, <3>6
    <3>7. QED  BY <1>10, <3>5, <3>6
  <2>10. QED  BY <1>11, <2>8, <2>9 DEF Toward, num, den
<1>12. CASE E > T
  <2>1. num * T <= num * E  BY <1>1, <1>2, <1>12
  <2>2. den * T - den * E = (num * T - num * E) - (den - num) * (E - T)
    <3>1. (den - num) * (E - T) = (den * E - den * T) - (num * E - num * T)  BY <1>1
    <3>2. QED  BY <1>1, <1>2, <1>7, <3>1
  <2>3. (den - num) * (E - T) >= 0 /\ (num < den => (den - num) * (E - T) > 0)
        /\ (den - num) * (E - T) \in Int
        BY <1>1, <1>12
  <2>4. den * T <= s /\ s <= den * E /\ (num < den => den * T < s)
        BY <1>2, <1>4, <1>7, <2>1, <2>2, <2>3
  <2>5. T <= q  BY <1>1, <1>4, <1>5, <1>6, <1>7, <2>4
  <2>6. q <= E
    <3>1. den * q < den * (E + 1)  BY <1>1, <1>4, <1>5, <1>7, <2>4
    <3>2. QED  BY <1>5, <1>6, <3>1
  <2>7. ASSUME num > 0 PROVE q < E
    <3>1. num * (E - T) > 0  BY <1>1, <1>12, <2>7
    <3>2. s < den * E  BY <1>2, <1>4, <1>7, <1>8, <3>1
    <3>3. q # E  BY <1>4, <1>5, <1>7, <3>2
    <3>4. QED  BY <1>5, <2>6, <3>3
  <2>8. ASSUME s = den * q, num < den PROVE T < q
    <3>1. q # T  BY <1>5, <1>7, <2>4, <2>8
    <3>2. QED  BY <1>5, <2>5, <3>1
  <2>9. CASE new = q  BY <1>12, <2>5, <2>6, <2>7, <2>9 DEF Toward, num
  <2>10. CASE new = q - 1 /\ s = den * q /\ num < den
    <3>1. T <= new /\ new < E  BY <1>5, <2>6, <2>8, <2>10
    <3>2. new \in Int  BY <1>5, <2>10
    <3>3. QED  BY <1>12, <3>1, <3>2 DEF Toward
  <2>11. QED  BY <1>10, <2>9, <2>10
<1>13. CASE E = T
  <2>1. s = den * E  BY <1>2, <1>4, <1>7, <1>13
  <2>2. q = E
    <3>1. q <= E
      <4>1. den * q < den * (E + 1)  BY <1>1, <1>4, <1>5, <1>7, <2>1
      <4>2. QED  BY <1>5, <1>6, <4>1
    <3>2. E <= q  BY <1>5, <1>6, <1>7, <2>1
    <3>3. QED  BY <1>5, <3>1, <3>2
  <2>3. QED  BY <1>10, <1>13, <2>2 DEF Toward
<1>14. QED  BY <1>11, <1>12, <1>13

-----------------------------------------------------------------------------
(* The history *)

\* Every set of numbers has a least one: of the intervals up to its members,
\* one contains no smaller one.
LEMMA LeastExists ==
  ASSUME NEW S \in SUBSET Nat, S # {}
  PROVE  \E m \in S : \A k \in S : m <= k
<1> DEFINE upTo == {1 .. i : i \in S}
<1>1. upTo \subseteq FiniteSubsetsOf(Nat)
  <2>1. \A i \in S : 1 .. i \in SUBSET Nat /\ IsFiniteSet(1 .. i)  BY FS_Interval
  <2>2. QED  BY <2>1 DEF FiniteSubsetsOf
<1>2. PICK x \in upTo : \A y \in upTo : <<y, x>> \notin StrictSubsetOrdering(Nat)
  <2>1. IsWellFoundedOn(StrictSubsetOrdering(Nat), FiniteSubsetsOf(Nat))
        BY FS_StrictSubsetOrderingWellFounded
  <2>2. upTo # {}  OBVIOUS
  <2> HIDE DEF upTo
  <2>3. QED  BY <1>1, <2>1, <2>2, WFMin
<1>3. PICK m \in S : x = 1 .. m  BY <1>2
<1>4. ASSUME NEW k \in S, k < m PROVE FALSE
  <2>1. 1 .. k \subseteq 1 .. m /\ 1 .. k # 1 .. m
    <3>1. m \in 1 .. m /\ m \notin 1 .. k  BY <1>4
    <3>2. 1 .. k \subseteq 1 .. m  BY <1>4
    <3>3. QED  BY <3>1, <3>2
  <2>2. 1 .. k \in SUBSET Nat /\ 1 .. m \in SUBSET Nat  OBVIOUS
  <2>3. <<1 .. k, 1 .. m>> \in StrictSubsetOrdering(Nat)  BY <2>1, <2>2 DEF StrictSubsetOrdering
  <2>4. QED  BY <1>2, <1>3, <2>3
<1>5. QED  BY <1>3, <1>4

\* ip_tpt_find returns an entry that matches, if one does.
LEMMA FindMatches ==
  ASSUME NEW ip, ip_tpt_list \in Seq([ip : Ips, tpt : Nat])
  PROVE  \/ /\ Find(ip) = 0
            /\ \A i \in DOMAIN ip_tpt_list : <<ip, ip_tpt_list[i].ip>> \notin PartOf
         \/ /\ Find(ip) \in DOMAIN ip_tpt_list /\ Find(ip) # 0
            /\ <<ip, ip_tpt_list[Find(ip)].ip>> \in PartOf
<1> DEFINE found == {i \in DOMAIN ip_tpt_list : <<ip, ip_tpt_list[i].ip>> \in PartOf}
<1>1. found \in SUBSET Nat /\ 0 \notin DOMAIN ip_tpt_list  OBVIOUS
<1>2. CASE found = {}  BY <1>2 DEF Find
<1>3. CASE found # {}
  <2>1. \E i \in found : \A j \in found : i <= j  BY <1>1, <1>3, LeastExists
  <2>2. Find(ip) = CHOOSE i \in found : \A j \in found : i <= j  BY <1>3 DEF Find
  <2>3. Find(ip) \in found  BY <2>1, <2>2
  <2>4. QED  BY <1>1, <2>3
<1>4. QED  BY <1>2, <1>3

\* The types of what the estimate depends on, the choice of bitrates left out.
EstimateType ==
  /\ HistoryOK
  /\ measured \in [Ips -> SUBSET Nat]
  /\ \A c \in open : "ip" \in DOMAIN conn[c] /\ conn[c].ip \in Ips

\* An entry of the history has an address and a throughput.
LEMMA EntryType ==
  ASSUME ip_tpt_list \in Seq([ip : Ips, tpt : Nat]), NEW i \in DOMAIN ip_tpt_list
  PROVE  ip_tpt_list[i] \in [ip : Ips, tpt : Nat]
<1> DEFINE entries == [ip : Ips, tpt : Nat]
<1>1. ip_tpt_list \in Seq(entries)  OBVIOUS
<1> HIDE DEF entries
<1>2. ip_tpt_list[i] \in entries  BY <1>1
<1>3. QED  BY <1>2 DEF entries

\* ip_tpt_add keeps one entry for an address.
LEMMA RecordedKeeps ==
  ASSUME HistoryOK, NEW ip \in Ips, NEW tpt \in Nat
  PROVE  LET new == Recorded(ip, tpt)
         IN  /\ new \in Seq([ip : Ips, tpt : Nat])
             /\ \A i, j \in DOMAIN new : new[i].ip = new[j].ip => i = j
             /\ \A i \in DOMAIN new :
                  \/ \E j \in DOMAIN ip_tpt_list : new[i] = ip_tpt_list[j]
                  \/ new[i].tpt = tpt /\ <<ip, new[i].ip>> \in PartOf
<1> DEFINE e == [ip |-> ip, tpt |-> tpt]
           new == Recorded(ip, tpt)
           at == Find(ip)
<1>1. e \in [ip : Ips, tpt : Nat] /\ e.ip = ip /\ e.tpt = tpt  OBVIOUS
<1>2. ip_tpt_list \in Seq([ip : Ips, tpt : Nat])  BY DEF HistoryOK
<1>3. <<ip, ip>> \in PartOf  BY AddressAssumption
<1>4. CASE at = 0
  <2>1. new = <<e>> \o ip_tpt_list  BY <1>4 DEF Recorded
  <2>2. \A i \in DOMAIN ip_tpt_list : ip_tpt_list[i].ip # ip
        BY <1>2, <1>3, <1>4, FindMatches
  <2> HIDE DEF e, new
  <2>3. new \in Seq([ip : Ips, tpt : Nat])  BY <1>1, <1>2, <2>1
  <2>4. DOMAIN new = 1 .. Len(ip_tpt_list) + 1 /\ new[1] = e  BY <1>1, <1>2, <2>1
  <2>5. \A i \in DOMAIN new : i # 1 => i - 1 \in DOMAIN ip_tpt_list /\ new[i] = ip_tpt_list[i - 1]
        BY <1>1, <1>2, <2>1, <2>4
  <2>6. \A i, j \in DOMAIN new : new[i].ip = new[j].ip => i = j
    <3> SUFFICES ASSUME NEW i \in DOMAIN new, NEW j \in DOMAIN new, new[i].ip = new[j].ip
                 PROVE  i = j
        OBVIOUS
    <3>1. CASE i = 1 \/ j = 1  BY <1>1, <2>2, <2>4, <2>5, <3>1
    <3>2. CASE i # 1 /\ j # 1
      <4>1. i - 1 = j - 1  BY <2>5, <3>2 DEF HistoryOK
      <4>2. QED  BY <2>4, <4>1
    <3>3. QED  BY <3>1, <3>2
  <2>7. QED  BY <1>1, <1>3, <2>3, <2>4, <2>5, <2>6 DEF new
<1>5. CASE at # 0
  <2>1. at \in DOMAIN ip_tpt_list /\ <<ip, ip_tpt_list[at].ip>> \in PartOf
        BY <1>2, <1>5, FindMatches
  <2> DEFINE r == [ip_tpt_list[at] EXCEPT !.tpt = tpt]
  <2>2. new = [ip_tpt_list EXCEPT ![at] = r]  BY <1>5 DEF Recorded
  <2> HIDE DEF at, e
  <2>a. ip_tpt_list[at] \in [ip : Ips, tpt : Nat]  BY <1>2, <2>1, EntryType
  <2>b. r \in [ip : Ips, tpt : Nat] /\ r.tpt = tpt /\ r.ip = ip_tpt_list[at].ip  BY <2>a
  <2> HIDE DEF new, r
  <2>3. new \in Seq([ip : Ips, tpt : Nat]) /\ DOMAIN new = DOMAIN ip_tpt_list
        BY <1>2, <2>1, <2>2, <2>b
  <2>4. \A i \in DOMAIN new : new[i] = IF i = at THEN r ELSE ip_tpt_list[i]
        BY <1>2, <2>1, <2>2, <2>b
  <2>5. \A i \in DOMAIN new : new[i].ip = ip_tpt_list[i].ip  BY <2>4, <2>b
  <2>6. \A i, j \in DOMAIN new : new[i].ip = new[j].ip => i = j  BY <2>3, <2>5 DEF HistoryOK
  <2>7. QED  BY <2>1, <2>3, <2>4, <2>5, <2>6, <2>b DEF new
<1>6. QED  BY <1>4, <1>5

\* ip_tpt_find(ip)->tpt, or 0, is a number.
LEMMA KeptType == ASSUME HistoryOK, NEW ip PROVE Kept(ip) \in Nat
<1>1. ip_tpt_list \in Seq([ip : Ips, tpt : Nat])  BY DEF HistoryOK
<1>2. CASE Find(ip) = 0  BY <1>2 DEF Kept
<1>3. CASE Find(ip) # 0
  <2>1. Find(ip) \in DOMAIN ip_tpt_list  BY <1>1, <1>3, FindMatches
  <2> DEFINE at == Find(ip)
  <2>2. Kept(ip) = ip_tpt_list[at].tpt  BY <1>3 DEF Kept
  <2> HIDE DEF at
  <2>3. \A i \in DOMAIN ip_tpt_list : ip_tpt_list[i].tpt \in Nat  BY <1>1, EntryType
  <2>4. QED  BY <2>1, <2>2, <2>3 DEF at
<1>4. QED  BY <1>2, <1>3

\* The entry ip_tpt_find returns is the first one that matches.
LEMMA FindFirst ==
  ASSUME NEW ip, ip_tpt_list \in Seq([ip : Ips, tpt : Nat]), Find(ip) # 0
  PROVE  \A i \in DOMAIN ip_tpt_list : <<ip, ip_tpt_list[i].ip>> \in PartOf => Find(ip) <= i
<1> DEFINE found == {i \in DOMAIN ip_tpt_list : <<ip, ip_tpt_list[i].ip>> \in PartOf}
<1>1. found \in SUBSET Nat  OBVIOUS
<1>2. found # {} /\ Find(ip) = CHOOSE i \in found : \A j \in found : i <= j  BY DEF Find
<1>3. \E i \in found : \A j \in found : i <= j  BY <1>1, <1>2, LeastExists
<1>4. QED  BY <1>2, <1>3

\* What ip_tpt_add put in is what ip_tpt_find gives for the same address.
LEMMA RecordedFound ==
  ASSUME HistoryOK, HistoryOK', NEW ip \in Ips, NEW tpt \in Nat,
         ip_tpt_list' = Recorded(ip, tpt)
  PROVE  Kept(ip)' = tpt
<1>1. ip_tpt_list \in Seq([ip : Ips, tpt : Nat]) /\ ip_tpt_list' \in Seq([ip : Ips, tpt : Nat])
      BY DEF HistoryOK
<1>2. <<ip, ip>> \in PartOf  BY AddressAssumption
<1> DEFINE found == {i \in DOMAIN ip_tpt_list' : <<ip, ip_tpt_list'[i].ip>> \in PartOf}
<1>3. Find(ip)' = IF found = {} THEN 0 ELSE CHOOSE i \in found : \A j \in found : i <= j
      BY DEF Find
<1>4. ASSUME NEW k \in found, ip_tpt_list'[k].tpt = tpt, \A i \in found : k <= i
      PROVE  Kept(ip)' = tpt
  <2>1. \A i \in found : (\A j \in found : i <= j) => i = k
    <3>1. found \subseteq Nat  BY <1>1
    <3> HIDE DEF found
    <3>2. QED  BY <1>4, <3>1
  <2>2. Find(ip)' = k
    <3> HIDE DEF found
    <3>1. QED  BY <1>3, <1>4, <2>1
  <2>3. k # 0  BY <1>1, <1>4
  <2>4. QED  BY <1>4, <2>2, <2>3 DEF Kept
<1>5. CASE Find(ip) = 0
  <2> DEFINE e == [ip |-> ip, tpt |-> tpt]
  <2>1. ip_tpt_list' = <<e>> \o ip_tpt_list  BY <1>5 DEF Recorded
  <2>2. e \in [ip : Ips, tpt : Nat] /\ e.ip = ip /\ e.tpt = tpt  OBVIOUS
  <2> HIDE DEF e
  <2>3. 1 \in DOMAIN ip_tpt_list' /\ ip_tpt_list'[1] = e  BY <1>1, <2>1, <2>2
  <2>a. 1 \in found  BY <1>2, <2>2, <2>3
  <2>b. DOMAIN ip_tpt_list' \subseteq Nat \ {0}
    <3>1. \A S, t : t \in Seq(S) => DOMAIN t \subseteq Nat \ {0}  OBVIOUS
    <3>2. QED  BY <1>1, <3>1
  <2>c. \A i \in found : 1 <= i  BY <2>b
  <2>4. 1 \in found /\ \A i \in found : 1 <= i  BY <2>a, <2>c
  <2>5. QED  BY <1>4, <2>2, <2>3, <2>4
<1>6. CASE Find(ip) # 0
  <2> DEFINE at == Find(ip)
  <2>1. at \in DOMAIN ip_tpt_list /\ <<ip, ip_tpt_list[at].ip>> \in PartOf
        BY <1>1, <1>6, FindMatches
  <2>2. \A i \in DOMAIN ip_tpt_list : <<ip, ip_tpt_list[i].ip>> \in PartOf => at <= i
        BY <1>1, <1>6, FindFirst
  <2> DEFINE r == [ip_tpt_list[at] EXCEPT !.tpt = tpt]
  <2>3. ip_tpt_list' = [ip_tpt_list EXCEPT ![at] = r]  BY <1>6 DEF Recorded
  <2> HIDE DEF at
  <2>4. r.tpt = tpt /\ r.ip = ip_tpt_list[at].ip  BY <1>1, <2>1, EntryType
  <2> HIDE DEF r
  <2>5. DOMAIN ip_tpt_list' = DOMAIN ip_tpt_list
        /\ \A i \in DOMAIN ip_tpt_list : ip_tpt_list'[i] = IF i = at THEN r ELSE ip_tpt_list[i]
        BY <1>1, <2>1, <2>3
  <2>6. at \in found /\ ip_tpt_list'[at].tpt = tpt  BY <2>1, <2>4, <2>5
  <2>7. \A i \in found : at <= i  BY <2>2, <2>4, <2>5
  <2>8. QED  BY <1>4, <2>6, <2>7
<1>7. QED  BY <1>5, <1>6

\* The rate of a chunk is a number, an instant chunk's too.
LEMMA RateType == Rates \subseteq Nat
<1> SUFFICES ASSUME NEW chunk \in Chunks PROVE Rate(chunk[1], chunk[2], Undefined) \in Nat
    BY DEF Rates
<1>1. chunk[1] \in Nat /\ chunk[2] \in Nat /\ Undefined \in Nat  BY ChunksAssumption
<1>2. \A s \in Nat, d \in Nat \ {0} : (8 * s) \div d \in Nat  OBVIOUS
<1>3. QED  BY <1>1, <1>2 DEF Rate

\* The list and every connection are empty at first.
LEMMA TypeInit == Init => EstimateType
BY DEF Init, EstimateType, HistoryOK, open

\* A struct keeps its address while its other fields are set.
LEMMA AddressKept ==
  ASSUME EstimateType, NEW c \in Conns,
         GetManifest(c) \/ RequestChunk(c) \/ \E T \in Rates : ReceiveChunk(c, T)
  PROVE  \A d \in DOMAIN conn' : "ip" \in DOMAIN conn'[d] /\ conn'[d].ip \in Ips
<1>1. CASE GetManifest(c)  BY <1>1 DEF GetManifest, EstimateType, open
<1>2. CASE RequestChunk(c)  BY <1>2 DEF RequestChunk, EstimateType, open
<1>3. CASE \E T \in Rates : ReceiveChunk(c, T)
  <2>1. \E new : conn' = [conn EXCEPT ![c].T_curr = new, ![c].waiting = FALSE]
        BY <1>3 DEF ReceiveChunk
  <2>2. QED  BY <2>1 DEF EstimateType, open
<1>4. QED  BY <1>1, <1>2, <1>3

\* Every step keeps the types and one entry for an address.
LEMMA TypeStep == EstimateType /\ [Next]_vars => EstimateType'
<1> SUFFICES ASSUME EstimateType, [Next]_vars PROVE EstimateType'  OBVIOUS
<1>1. ASSUME NEW c \in Conns, NEW ip \in Ips, NEW v \in Videos, Open(c, ip, v)
      PROVE  EstimateType'
  BY <1>1 DEF Open, Changed, EstimateType, HistoryOK, open
<1>2. ASSUME NEW c \in Conns, Close(c) PROVE EstimateType'
  BY <1>2 DEF Close, EstimateType, HistoryOK, open
<1>3. ASSUME NEW c \in Conns, GetManifest(c) \/ RequestChunk(c) PROVE EstimateType'
  <2>1. UNCHANGED <<ip_tpt_list, measured>>  BY <1>3 DEF GetManifest, RequestChunk
  <2>2. QED  BY <1>3, <2>1, AddressKept DEF EstimateType, HistoryOK, open
<1>4. ASSUME NEW c \in Conns, NEW T \in Rates, ReceiveChunk(c, T) PROVE EstimateType'
  <2> DEFINE ip == conn[c].ip
  <2>1. PICK new \in Smoothed(AlphaNum, AlphaDen, T, Kept(ip)) :
          /\ c \in open
          /\ ip_tpt_list' = Recorded(ip, new)
          /\ measured' = [measured EXCEPT ![ip] = @ \cup {T}]
        BY <1>4 DEF ReceiveChunk
  <2>2. ip \in Ips /\ T \in Nat /\ Kept(ip) \in Nat
        BY <2>1, RateType, KeptType DEF EstimateType
  <2>3. new \in Nat
    <3>1. \A t, x \in Nat : Smoothed(AlphaNum, AlphaDen, t, x) \subseteq Nat
      <4> SUFFICES ASSUME NEW t \in Nat, NEW x \in Nat
                   PROVE  Smoothed(AlphaNum, AlphaDen, t, x) \subseteq Nat
          OBVIOUS
      <4>1. t + x \in Nat /\ t <= t + x /\ x <= t + x  OBVIOUS
      <4>2. QED  BY <4>1, SmoothedBounded, AlphaAssumption
    <3>2. QED  BY <2>2, <3>1
  <2>4. HistoryOK'
    <3>1. ip_tpt_list' = Recorded(ip, new)  BY <2>1
    <3> HIDE DEF ip
    <3>2. QED  BY <2>2, <2>3, <3>1, RecordedKeeps DEF EstimateType, HistoryOK
  <2>5. measured' \in [Ips -> SUBSET Nat]
    <3>1. measured' = [measured EXCEPT ![ip] = @ \cup {T}]  BY <2>1
    <3> HIDE DEF ip
    <3>2. QED  BY <2>2, <3>1 DEF EstimateType
  <2>6. QED  BY <1>4, <2>4, <2>5, AddressKept DEF EstimateType, open
<1>5. CASE UNCHANGED vars  BY <1>5 DEF vars, EstimateType, HistoryOK, open
<1>6. QED  BY <1>1, <1>2, <1>3, <1>4, <1>5 DEF Next

\* Without entries of other addresses, what an address has is within what was
\* measured for it, and so is its average with a new rate.
AddressesApart == \A p \in PartOf : p[1] = p[2]

\* A chunk's average is within the rates measured, the new one included.
LEMMA MeasuredStep ==
  ASSUME AddressesApart, EstimateType, EstimateMeasured,
         NEW c \in Conns, NEW T \in Rates, ReceiveChunk(c, T)
  PROVE  EstimateMeasured'
<1> DEFINE ip == conn[c].ip
<1>1. PICK new \in Smoothed(AlphaNum, AlphaDen, T, Kept(ip)) :
        /\ c \in open
        /\ ip_tpt_list' = Recorded(ip, new)
        /\ measured' = [measured EXCEPT ![ip] = @ \cup {T}]
      BY DEF ReceiveChunk
<1>2. ip \in Ips /\ T \in Nat /\ Kept(ip) \in Nat
      BY <1>1, RateType, KeptType DEF EstimateType
<1>3. ip_tpt_list' = Recorded(ip, new) /\ measured' = [measured EXCEPT ![ip] = @ \cup {T}]
      BY <1>1
<1>4. /\ measured'[ip] = measured[ip] \cup {T}
      /\ \A a \in Ips : measured[a] \subseteq measured'[a] /\ measured[a] \subseteq Nat
  <2> HIDE DEF ip
  <2>1. QED  BY <1>2, <1>3 DEF EstimateType
<1>5. \E B \in measured'[ip] : B \in Nat /\ T <= B /\ Kept(ip) <= B
  <2>1. CASE Kept(ip) <= T
    <3> HIDE DEF ip
    <3>1. QED  BY <1>2, <1>4, <2>1
  <2>2. CASE Kept(ip) > T
    <3>1. Find(ip) # 0  BY <1>2, <2>2 DEF Kept
    <3> DEFINE at == Find(ip)
    <3>2. at \in DOMAIN ip_tpt_list /\ ip_tpt_list[at].ip = ip
          BY <3>1, FindMatches DEF AddressesApart, EstimateType, HistoryOK
    <3>3. Kept(ip) = ip_tpt_list[at].tpt  BY <3>1 DEF Kept
    <3> HIDE DEF at, ip
    <3>4. PICK B \in measured[ip] : Kept(ip) <= B  BY <3>2, <3>3 DEF EstimateMeasured
    <3>5. QED  BY <1>2, <1>4, <2>2, <3>4
  <2>3. QED  BY <1>2, <2>1, <2>2
<1>6. new \in Nat /\ \E B \in measured'[ip] : new <= B
  <2>1. PICK B \in measured'[ip] : B \in Nat /\ T <= B /\ Kept(ip) <= B  BY <1>5
  <2> HIDE DEF ip
  <2>2. QED  BY <1>2, <2>1, SmoothedBounded, AlphaAssumption
<1> HIDE DEF ip
<1>7. \A i \in DOMAIN ip_tpt_list' :
        \/ \E j \in DOMAIN ip_tpt_list : ip_tpt_list'[i] = ip_tpt_list[j]
        \/ ip_tpt_list'[i].tpt = new /\ ip_tpt_list'[i].ip = ip
  <2>1. HistoryOK /\ new \in Nat  BY <1>6 DEF EstimateType
  <2>2. \A i \in DOMAIN ip_tpt_list' :
          \/ \E j \in DOMAIN ip_tpt_list : ip_tpt_list'[i] = ip_tpt_list[j]
          \/ ip_tpt_list'[i].tpt = new /\ <<ip, ip_tpt_list'[i].ip>> \in PartOf
        BY <1>2, <1>3, <2>1, RecordedKeeps
  <2>3. \A a : <<ip, a>> \in PartOf => a = ip  BY DEF AddressesApart
  <2>4. QED  BY <2>2, <2>3
<1>8. \A j \in DOMAIN ip_tpt_list : ip_tpt_list[j].ip \in Ips
      BY EntryType DEF EstimateType, HistoryOK
<1>9. QED  BY <1>4, <1>6, <1>7, <1>8 DEF EstimateMeasured

-----------------------------------------------------------------------------
(* The choice *)

\* A walk from the front of a list stops after its first k elements: k is one
\* less than the first position outside of A.
LEMMA WalkStops ==
  ASSUME NEW n \in Nat, NEW A
  PROVE  \E k \in 0 .. n :
           /\ {i \in 1 .. n : \A j \in 1 .. i : j \in A} = 1 .. k
           /\ Cardinality({i \in 1 .. n : \A j \in 1 .. i : j \in A}) = k
           /\ 1 .. k \subseteq A
           /\ k < n => k + 1 \notin A
<1> DEFINE outside == {i \in 1 .. n + 1 : i = n + 1 \/ i \notin A}
           front == {i \in 1 .. n : \A j \in 1 .. i : j \in A}
<1>1. PICK m \in outside : \A i \in outside : m <= i
  <2>1. n + 1 \in outside /\ outside \in SUBSET Nat  OBVIOUS
  <2> HIDE DEF outside
  <2>2. QED  BY <2>1, LeastExists
<1> DEFINE k == m - 1
<1>2. k \in 0 .. n /\ 1 .. k \subseteq A /\ (k < n => k + 1 \notin A)
  <2>1. m \in 1 .. n + 1 /\ (m = n + 1 \/ m \notin A)  OBVIOUS
  <2>2. \A i \in 1 .. m - 1 : i \in A  BY <1>1, <2>1
  <2>3. QED  BY <2>1, <2>2
<1> HIDE DEF k
<1>3. front = 1 .. k
  <2>1. \A i \in 1 .. k : i \in front  BY <1>2
  <2>2. ASSUME NEW i \in front PROVE i \in 1 .. k
    <3>1. i \in 1 .. n /\ \A j \in 1 .. i : j \in A  OBVIOUS
    <3>2. CASE i > k
      <4>1. k + 1 \in 1 .. i /\ k < n  BY <1>2, <3>1, <3>2
      <4>2. QED  BY <1>2, <3>1, <4>1
    <3>3. QED  BY <1>2, <3>1, <3>2
  <2>3. QED  BY <2>1, <2>2
<1>4. Cardinality(1 .. k) = k  BY <1>2, FS_Interval
<1>5. QED  BY <1>2, <1>3, <1>4

Sorted(list) == \A i, j \in DOMAIN list : i <= j => list[i] <= list[j]

\* sorted_insert_bitrate keeps a sorted list sorted, and adds its argument.
THEOREM InsertSorted ==
  ASSUME NEW list \in Seq(Nat), NEW b \in Nat, Sorted(list)
  PROVE  LET new == Insert(list, b)
         IN  /\ new \in Seq(Nat) /\ Sorted(new)
             /\ \A x : (\E i \in DOMAIN new : new[i] = x)
                     <=> x = b \/ \E i \in DOMAIN list : list[i] = x
<1> DEFINE n == Len(list)
           A == {i \in 1 .. n : list[i] < b}
           before == {i \in DOMAIN list : \A j \in 1 .. i : list[j] < b}
           new == Insert(list, b)
<1>0. n \in Nat /\ DOMAIN list = 1 .. n /\ \A i \in 1 .. n : list[i] \in Nat  OBVIOUS
<1>1. before = {i \in 1 .. n : \A j \in 1 .. i : j \in A}  OBVIOUS
<1>2. PICK k \in 0 .. n : /\ Cardinality(before) = k /\ 1 .. k \subseteq A
                          /\ k < n => k + 1 \notin A
  <2> HIDE DEF A, n, before
  <2>1. QED  BY <1>0, <1>1, WalkStops
<1>a. /\ k \in Nat /\ k <= n
      /\ \A i \in 1 .. k : list[i] < b
      /\ k < n => ~(list[k + 1] < b)
  <2>1. k \in Nat /\ k <= n /\ 1 .. k \subseteq A /\ (k < n => k + 1 \notin A)
    <3> HIDE DEF A, before, n
    <3>1. QED  BY <1>0, <1>2
  <2>2. \A i \in 1 .. n : i \in A <=> list[i] < b  OBVIOUS
  <2> HIDE DEF A, before, n
  <2>3. QED  BY <1>0, <2>1, <2>2
<1>3. new = SubSeq(list, 1, k) \o <<b>> \o SubSeq(list, k + 1, n)
  <2>1. Cardinality(before) = k  BY <1>2
  <2>2. QED  BY <2>1 DEF Insert
<1> HIDE DEF before, A
<1>4. /\ new \in Seq(Nat) /\ Len(new) = n + 1
      /\ \A i \in 1 .. k : new[i] = list[i]
      /\ new[k + 1] = b
      /\ \A i \in k + 2 .. n + 1 : new[i] = list[i - 1]
  <2> HIDE DEF new
  <2> DEFINE front == SubSeq(list, 1, k)
             back == SubSeq(list, k + 1, n)
  <2>1. front \in Seq(Nat) /\ Len(front) = k /\ \A i \in 1 .. k : front[i] = list[i]
        OBVIOUS
  <2>2. back \in Seq(Nat) /\ Len(back) = n - k /\ \A i \in 1 .. n - k : back[i] = list[k + i]
        OBVIOUS
  <2> HIDE DEF front, back, n
  <2>3. new = front \o <<b>> \o back  BY <1>3 DEF front, back, n
  <2>4. /\ front \o <<b>> \in Seq(Nat) /\ Len(front \o <<b>>) = k + 1
        /\ \A i \in 1 .. k : (front \o <<b>>)[i] = front[i]
        /\ (front \o <<b>>)[k + 1] = b
        BY <1>0, <2>1
  <2> DEFINE head == front \o <<b>>
  <2> HIDE DEF head
  <2>5. /\ new = head \o back /\ head \in Seq(Nat) /\ Len(head) = k + 1
        /\ back \in Seq(Nat) /\ Len(back) = n - k
        BY <2>2, <2>3, <2>4 DEF head
  <2>a. /\ new \in Seq(Nat) /\ Len(new) = Len(head) + Len(back)
        /\ \A i \in 1 .. Len(head) + Len(back) :
             new[i] = IF i <= Len(head) THEN head[i] ELSE back[i - Len(head)]
        BY <2>5, ConcatProperties
  <2>6. new \in Seq(Nat) /\ Len(new) = n + 1  BY <1>0, <1>a, <2>5, <2>a
  <2>7. \A i \in 1 .. k + 1 : new[i] = head[i]  BY <1>0, <1>a, <2>5, <2>a
  <2>8. \A i \in k + 2 .. n + 1 : new[i] = back[i - (k + 1)]
    <3> SUFFICES ASSUME NEW i \in k + 2 .. n + 1 PROVE new[i] = back[i - (k + 1)]
        OBVIOUS
    <3>1. i \in 1 .. Len(head) + Len(back) /\ ~(i <= Len(head)) /\ Len(head) = k + 1
          BY <1>0, <1>a, <2>5
    <3>2. QED  BY <2>a, <3>1
  <2>9. \A i \in k + 2 .. n + 1 : back[i - (k + 1)] = list[i - 1]
    <3> SUFFICES ASSUME NEW i \in k + 2 .. n + 1 PROVE back[i - (k + 1)] = list[i - 1]
        OBVIOUS
    <3>1. i - (k + 1) \in 1 .. n - k /\ k + (i - (k + 1)) = i - 1  BY <1>0, <1>a
    <3>2. back[i - (k + 1)] = list[k + (i - (k + 1))]  BY <2>2, <3>1
    <3>3. QED  BY <3>1, <3>2
  <2>10. (\A i \in 1 .. k : head[i] = list[i]) /\ head[k + 1] = b  BY <2>1, <2>4 DEF head
  <2>11. (\A i \in 1 .. k : new[i] = list[i]) /\ new[k + 1] = b  BY <1>a, <2>7, <2>10
  <2>12. \A i \in k + 2 .. n + 1 : new[i] = list[i - 1]  BY <2>8, <2>9
  <2>13. QED  BY <2>6, <2>11, <2>12
<1> HIDE DEF new
<1>5. (\A i \in 1 .. k : list[i] < b) /\ (\A i \in k + 1 .. n : b <= list[i])
  <2>0. \A i, j \in 1 .. n : i <= j => list[i] <= list[j]  BY <1>0 DEF Sorted
  <2> HIDE DEF n
  <2>1. \A i \in k + 1 .. n : list[k + 1] <= list[i]  BY <1>0, <1>a, <2>0
  <2>2. QED  BY <1>0, <1>a, <2>1
<1>6. Sorted(new)
  <2>a. DOMAIN new = 1 .. n + 1  BY <1>4
  <2>0. \A i, j \in 1 .. n : i <= j => list[i] <= list[j]  BY <1>0 DEF Sorted
  <2> HIDE DEF n
  <2>1. QED  BY <1>0, <1>a, <1>4, <1>5, <2>a, <2>0 DEF Sorted
<1>7. \A x : (\E i \in DOMAIN new : new[i] = x)
           <=> x = b \/ \E i \in DOMAIN list : list[i] = x
  <2>0. DOMAIN new = 1 .. n + 1  BY <1>0, <1>4
  <2> HIDE DEF n
  <2>1. \A i \in DOMAIN new : new[i] = b \/ \E j \in DOMAIN list : list[j] = new[i]
    <3> SUFFICES ASSUME NEW i \in 1 .. n + 1
                 PROVE  new[i] = b \/ \E j \in 1 .. n : list[j] = new[i]
        BY <1>0, <2>0
    <3>1. CASE i <= k  BY <1>0, <1>a, <1>4, <3>1
    <3>2. CASE i = k + 1  BY <1>4, <3>2
    <3>3. CASE i > k + 1
      <4>1. i - 1 \in 1 .. n /\ new[i] = list[i - 1]  BY <1>0, <1>a, <1>4, <3>3
      <4>2. QED  BY <4>1
    <3>4. QED  BY <1>a, <3>1, <3>2, <3>3
  <2>2. \A j \in DOMAIN list : \E i \in DOMAIN new : new[i] = list[j]
    <3> SUFFICES ASSUME NEW j \in 1 .. n PROVE \E i \in DOMAIN new : new[i] = list[j]
        BY <1>0
    <3>1. CASE j <= k  BY <1>0, <1>a, <1>4, <2>0, <3>1
    <3>2. CASE j > k
      <4>1. j + 1 \in DOMAIN new /\ new[j + 1] = list[j]  BY <1>0, <1>a, <1>4, <2>0, <3>2
      <4>2. QED  BY <4>1
    <3>3. QED  BY <3>1, <3>2
  <2>3. k + 1 \in DOMAIN new /\ new[k + 1] = b  BY <1>0, <1>a, <1>4, <2>0
  <2>4. QED  BY <2>1, <2>2, <2>3
<1>8. QED  BY <1>4, <1>6, <1>7 DEF new

-----------------------------------------------------------------------------
(* Theorems *)

\* The history always has one entry for an address, whatever addresses there
\* are, parts of one another included.
THEOREM HistoryCorrect == Spec => []HistoryOK
<1>1. EstimateType => HistoryOK  BY DEF EstimateType
<1>2. QED  BY <1>1, TypeInit, TypeStep, PTL DEF Spec

\* If no address is a part of another, no estimate is ever higher than the
\* highest rate measured for its address, for every alpha and every rate.
THEOREM EstimateMeasuredCorrect ==
  ASSUME AddressesApart
  PROVE  Spec => []EstimateMeasured
<1>1. Init => EstimateMeasured  BY DEF Init, EstimateMeasured
<1>2. EstimateType /\ EstimateMeasured /\ [Next]_vars => EstimateMeasured'
  <2> SUFFICES ASSUME EstimateType, EstimateMeasured, [Next]_vars PROVE EstimateMeasured'
      OBVIOUS
  <2>1. ASSUME NEW c \in Conns, NEW T \in Rates, ReceiveChunk(c, T) PROVE EstimateMeasured'
        BY <2>1, MeasuredStep
  <2>2. CASE UNCHANGED <<ip_tpt_list, measured>>  BY <2>2 DEF EstimateMeasured
  <2>3. QED
        BY <2>1, <2>2 DEF Next, vars, Open, Close, GetManifest, RequestChunk
<1>3. QED  BY <1>1, <1>2, TypeInit, TypeStep, PTL DEF Spec

\* For every alpha and whatever addresses there are, a chunk brings the estimate
\* of its browser's address towards its own rate and never past it, by a step at
\* least unless 1 / alpha or less is left; at the rate it loses one at most.
THEOREM ApproachesCorrect == Spec => Approaches
<1>1. EstimateType /\ EstimateType' /\ [Next]_vars =>
        [\A c \in Conns, ip \in Ips, T \in Rates :
           ReceiveChunk(c, T) /\ conn[c].ip = ip => Toward(Kept(ip), T, Kept(ip)')]_vars
  <2> SUFFICES ASSUME EstimateType, EstimateType',
                      NEW c \in Conns, NEW ip \in Ips, NEW T \in Rates,
                      ReceiveChunk(c, T), conn[c].ip = ip
               PROVE  Toward(Kept(ip), T, Kept(ip)')
      OBVIOUS
  <2>1. PICK new \in Smoothed(AlphaNum, AlphaDen, T, Kept(ip)) :
          ip_tpt_list' = Recorded(ip, new)
        BY DEF ReceiveChunk
  <2>2. HistoryOK /\ HistoryOK'  BY DEF EstimateType
  <2>3. T \in Nat /\ Kept(ip) \in Nat  BY <2>2, RateType, KeptType
  <2>4. new \in Nat
    <3>1. PICK B \in Nat : T <= B /\ Kept(ip) <= B  BY <2>3
    <3>2. QED  BY <2>3, <3>1, SmoothedBounded, AlphaAssumption
  <2>5. Toward(Kept(ip), T, new)  BY <2>3, SmoothedToward
  <2>6. Kept(ip)' = new  BY <2>1, <2>2, <2>4, RecordedFound
  <2>7. QED  BY <2>5, <2>6
<1>2. QED  BY <1>1, TypeInit, TypeStep, PTL DEF Spec, Approaches

\* On every sorted list select_bitrate returns the highest bitrate that the
\* throughput is 1.5 times of, and the lowest if it is of none.
THEOREM SelectBest ==
  ASSUME NEW head \in Seq(Nat), head # <<>>, Sorted(head), NEW tpt \in Nat
  PROVE  \E i \in DOMAIN head :
           /\ select_bitrate(head, tpt) = head[i]
           /\ \/ /\ Affordable(head[i], tpt)
                 /\ \A j \in DOMAIN head : Affordable(head[j], tpt) => head[j] <= head[i]
              \/ \A j \in DOMAIN head : ~Affordable(head[j], tpt) /\ head[i] <= head[j]
<1> DEFINE n == Len(head)
           A == {i \in 1 .. n : Affordable(head[i], tpt)}
           affordable == {i \in DOMAIN head : \A j \in 1 .. i : Affordable(head[j], tpt)}
<1>1. n \in Nat \ {0} /\ DOMAIN head = 1 .. n /\ \A i \in 1 .. n : head[i] \in Nat  OBVIOUS
<1>2. affordable = {i \in 1 .. n : \A j \in 1 .. i : j \in A}  BY <1>1
<1>3. PICK k \in 0 .. n : /\ affordable = 1 .. k /\ Cardinality(affordable) = k
                         /\ 1 .. k \subseteq A /\ (k < n => k + 1 \notin A)
  <2> HIDE DEF A, n, affordable
  <2>1. QED  BY <1>1, <1>2, WalkStops
<1>4. \A i, j \in 1 .. n : head[i] <= head[j] /\ Affordable(head[j], tpt) => Affordable(head[i], tpt)
      BY <1>1 DEF Affordable
<1>5. \A j \in k + 1 .. n : ~Affordable(head[j], tpt)
  <2> SUFFICES ASSUME NEW j \in k + 1 .. n, Affordable(head[j], tpt) PROVE FALSE
      OBVIOUS
  <2>1. k + 1 \in 1 .. n /\ j \in 1 .. n /\ k < n /\ k + 1 <= j  BY <1>1
  <2>2. head[k + 1] <= head[j]
    <3>1. k + 1 \in DOMAIN head /\ j \in DOMAIN head  BY <1>1, <2>1
    <3> HIDE DEF n
    <3>2. QED  BY <2>1, <3>1 DEF Sorted
  <2>3. Affordable(head[k + 1], tpt)  BY <1>4, <2>1, <2>2
  <2>4. k + 1 \in A  BY <2>1, <2>3
  <2> HIDE DEF A
  <2>5. QED  BY <1>3, <2>1, <2>4
<1>6. CASE k = 0
  <2>1. select_bitrate(head, tpt) = head[1]  BY <1>3, <1>6 DEF select_bitrate
  <2>2. 1 \in DOMAIN head /\ \A j \in DOMAIN head : head[1] <= head[j]  BY <1>1 DEF Sorted
  <2>3. \A j \in DOMAIN head : ~Affordable(head[j], tpt)  BY <1>1, <1>5, <1>6
  <2>4. QED  BY <2>1, <2>2, <2>3
<1>7. CASE k # 0
  <2>1. k \in 1 .. n /\ k \in A  BY <1>3, <1>7
  <2>2. select_bitrate(head, tpt) = head[k]  BY <1>3, <2>1 DEF select_bitrate
  <2>3. \A j \in DOMAIN head : Affordable(head[j], tpt) => head[j] <= head[k]
    <3>1. \A j \in 1 .. k : head[j] <= head[k]  BY <1>1, <2>1 DEF Sorted
    <3>2. QED  BY <1>1, <1>5, <3>1
  <2>4. QED  BY <1>1, <2>1, <2>2, <2>3
<1>8. QED  BY <1>6, <1>7

-----------------------------------------------------------------------------
(* The list of a manifest *)

\* Induction up to n, over the set of the numbers that something holds of.
LEMMA UpTo ==
  ASSUME NEW n \in Nat, NEW T, 0 \in T, \A i \in 0 .. n - 1 : i \in T => i + 1 \in T
  PROVE  0 .. n \subseteq T
<1> SUFFICES ASSUME ~(0 .. n \subseteq T) PROVE FALSE
  OBVIOUS
<1>1. {i \in 0 .. n : i \notin T} \in SUBSET Nat /\ {i \in 0 .. n : i \notin T} # {}
  OBVIOUS
<1>2. PICK m \in {i \in 0 .. n : i \notin T} : \A k \in {i \in 0 .. n : i \notin T} : m <= k
  BY <1>1, LeastExists
<1>3. m - 1 \in 0 .. n - 1 /\ m - 1 \in T
  BY <1>2
<1>4. QED  BY <1>2, <1>3

\* The loop of parse_xml_to_list over the first n media elements.
ParsedUpTo(media, n) ==
  CHOOSE f : f = [i \in 0 .. n |->
    IF i = 0 THEN <<>>
    ELSE IF FoundFrom(media, i) = NoBitrate THEN f[i - 1]
         ELSE Insert(f[i - 1], FoundFrom(media, i))]

\* What the loop has after an element follows from what it had before it.
LEMMA ParsedExists ==
  ASSUME NEW media, NEW N \in Nat
  PROVE  ParsedUpTo(media, N) = [i \in 0 .. N |->
           IF i = 0 THEN <<>>
           ELSE IF FoundFrom(media, i) = NoBitrate THEN ParsedUpTo(media, N)[i - 1]
                ELSE Insert(ParsedUpTo(media, N)[i - 1], FoundFrom(media, i))]
<1> DEFINE Add(l, i) == IF FoundFrom(media, i) = NoBitrate THEN l
                        ELSE Insert(l, FoundFrom(media, i))
           Val(f, i) == IF i = 0 THEN <<>> ELSE Add(f[i - 1], i)
           T == {n \in Nat : \E f : f = [i \in 0 .. n |-> Val(f, i)]}
<1>1. 0 \in T
  <2>1. [i \in 0 .. 0 |-> <<>>] = [i \in 0 .. 0 |-> Val([j \in 0 .. 0 |-> <<>>], i)]
    <3> HIDE DEF Add
    <3>1. QED  OBVIOUS
  <2>2. \E f : f = [i \in 0 .. 0 |-> Val(f, i)]
    <3> HIDE DEF Val
    <3>1. QED  BY <2>1
  <2> HIDE DEF Val
  <2>3. QED  BY <2>2
<1>2. ASSUME NEW n \in Nat, n \in T PROVE n + 1 \in T
  <2>1. PICK f : f = [i \in 0 .. n |-> Val(f, i)]
    <3> HIDE DEF Val
    <3>1. QED  BY <1>2
  <2> DEFINE g == [i \in 0 .. n + 1 |-> IF i <= n THEN f[i] ELSE Val(f, n + 1)]
  <2>2. \A i \in 0 .. n : f[i] = Val(f, i)
    <3> HIDE DEF Val
    <3>1. QED  BY <2>1
  <2>3. ASSUME NEW i \in 0 .. n + 1 PROVE Val(g, i) = Val(f, i)
    <3>1. CASE i = 0  BY <3>1
    <3>2. CASE i # 0
      <4>1. i - 1 \in 0 .. n + 1 /\ i - 1 <= n  BY <3>2
      <4>2. g[i - 1] = f[i - 1]
        <5> HIDE DEF Val
        <5>1. QED  BY <4>1
      <4> HIDE DEF g, Add
      <4>3. QED  BY <3>2, <4>2
    <3>3. QED  BY <3>1, <3>2
  <2>4. ASSUME NEW i \in 0 .. n + 1 PROVE g[i] = Val(g, i)
    <3> HIDE DEF Val
    <3>1. CASE i <= n
      <4>1. i \in 0 .. n /\ g[i] = f[i]  BY <3>1
      <4>2. QED  BY <4>1, <2>2, <2>3
    <3>2. CASE i = n + 1
      <4>1. g[i] = Val(f, i)  BY <3>2
      <4>2. QED  BY <4>1, <2>3
    <3>3. QED  BY <3>1, <3>2
  <2>5. g = [i \in 0 .. n + 1 |-> Val(g, i)]
    <3> HIDE DEF Val
    <3>1. QED  BY <2>4
  <2>6. \E f1 : f1 = [i \in 0 .. n + 1 |-> Val(f1, i)]
    <3> HIDE DEF Val, g
    <3>1. QED  BY <2>5, Zenon
  <2>7. n + 1 \in Nat  OBVIOUS
  <2> HIDE DEF Val
  <2>8. QED  BY <2>6, <2>7
<1>3. N \in T
  <2> HIDE DEF T
  <2>1. 0 .. N \subseteq T  BY <1>1, <1>2, UpTo
  <2>2. QED  BY <2>1
<1> DEFINE Is(f) == f = [i \in 0 .. N |-> Val(f, i)]
           parsed == CHOOSE f : Is(f)
<1>4. \E f : Is(f)
  <2> HIDE DEF Val
  <2>1. QED  BY <1>3
<1>5. Is(parsed)
  <2> HIDE DEF Is
  <2>1. QED  BY <1>4, Zenon
<1>6. ParsedUpTo(media, N) = parsed  BY DEF ParsedUpTo
<1> HIDE DEF parsed
<1>7. QED  BY <1>5, <1>6

Bitrates(list) == {list[i] : i \in DOMAIN list}

\* strstr finds the next bitrate of the manifest.
LEMMA FoundNext ==
  ASSUME NEW media \in Seq(Nat \cup {NoBitrate}), NEW i \in 1 .. Len(media)
  PROVE  /\ FoundFrom(media, i) \in Bitrates(media) \cup {NoBitrate}
         /\ media[i] # NoBitrate => FoundFrom(media, i) = media[i]
<1> DEFINE with == {j \in i .. Len(media) : media[j] # NoBitrate}
           first == CHOOSE j \in with : \A k \in with : j <= k
<1>1. Len(media) \in Nat /\ DOMAIN media = 1 .. Len(media)  OBVIOUS
<1>2. CASE with = {}
  <2>1. FoundFrom(media, i) = NoBitrate  BY <1>2 DEF FoundFrom
  <2>2. media[i] = NoBitrate  BY <1>1, <1>2
  <2>3. QED  BY <2>1, <2>2
<1>3. CASE with # {}
  <2>1. FoundFrom(media, i) = media[first]  BY <1>3 DEF FoundFrom
  <2>2. with \in SUBSET Nat  BY <1>1
  <2>3. \E j \in with : \A k \in with : j <= k
    <3> HIDE DEF with
    <3>1. QED  BY <1>3, <2>2, LeastExists
  <2>4. first \in with /\ \A k \in with : first <= k
    <3> HIDE DEF with
    <3>1. QED  BY <2>3
  <2> HIDE DEF first
  <2>5. first \in i .. Len(media)  BY <2>4
  <2>6. media[first] \in Bitrates(media)  BY <1>1, <2>5 DEF Bitrates
  <2>7. ASSUME media[i] # NoBitrate PROVE first = i
    <3>1. i \in with  BY <1>1, <2>7
    <3>2. first <= i /\ first \in i .. Len(media)  BY <2>4, <2>5, <3>1
    <3>3. QED  BY <1>1, <3>2
  <2>8. QED  BY <2>1, <2>6, <2>7
<1>4. QED  BY <1>2, <1>3

\* The list of a manifest is sorted and holds its bitrates, in whatever order
\* the manifest has them, repeated ones and elements without one included.
THEOREM ParsedSorted ==
  ASSUME NEW media \in Seq(Nat \cup {NoBitrate})
  PROVE  LET list == parse_xml_to_list(media)
         IN  /\ list \in Seq(Nat) /\ Sorted(list)
             /\ Bitrates(list) = Bitrates(media) \ {NoBitrate}
<1> DEFINE N == Len(media)
           head == ParsedUpTo(media, N)
           Found(i) == FoundFrom(media, i)
           Upto(i) == {Found(j) : j \in 1 .. i} \ {NoBitrate}
           Good(i) == head[i] \in Seq(Nat) /\ Sorted(head[i]) /\ Bitrates(head[i]) = Upto(i)
           T == {i \in Nat : i <= N => Good(i)}
<1>1. N \in Nat /\ DOMAIN media = 1 .. N  OBVIOUS
<1>2. \A i \in 1 .. N : Found(i) \in Nat \cup {NoBitrate}
  <2>1. Bitrates(media) \subseteq Nat \cup {NoBitrate}  BY DEF Bitrates
  <2>2. QED  BY <2>1, FoundNext
<1>3. parse_xml_to_list(media) = head[N]  BY DEF parse_xml_to_list, ParsedUpTo
<1>4. head = [i \in 0 .. N |-> IF i = 0 THEN <<>>
                ELSE IF Found(i) = NoBitrate THEN head[i - 1] ELSE Insert(head[i - 1], Found(i))]
  <2> HIDE DEF N
  <2>1. QED  BY <1>1, ParsedExists
<1> HIDE DEF head, Found, N
<1>5. head[0] = <<>>
  <2>1. 0 \in 0 .. N  BY <1>1
  <2>2. QED  BY <1>4, <2>1
<1>6. \A i \in 1 .. N : head[i] = IF Found(i) = NoBitrate THEN head[i - 1]
                                  ELSE Insert(head[i - 1], Found(i))
  <2> SUFFICES ASSUME NEW i \in 1 .. N
               PROVE  head[i] = IF Found(i) = NoBitrate THEN head[i - 1]
                                ELSE Insert(head[i - 1], Found(i))
      OBVIOUS
  <2>1. i \in 0 .. N /\ i # 0  BY <1>1
  <2>2. QED  BY <1>4, <2>1
<1>7. Good(0)
  <2>1. <<>> \in Seq(Nat) /\ DOMAIN <<>> = {}  OBVIOUS
  <2>2. QED  BY <1>5, <2>1 DEF Sorted, Bitrates
<1>8. ASSUME NEW i \in 0 .. N - 1, Good(i) PROVE Good(i + 1)
  <2> DEFINE Next1(j) == head[j] = IF Found(j) = NoBitrate THEN head[j - 1]
                                   ELSE Insert(head[j - 1], Found(j))
  <2>1. i + 1 \in 1 .. N /\ i + 1 - 1 = i  BY <1>1
  <2>2. Next1(i + 1)
    <3>1. \A j \in 1 .. N : Next1(j)  BY <1>6
    <3> HIDE DEF Next1
    <3>2. QED  BY <2>1, <3>1
  <2>3. head[i + 1] = IF Found(i + 1) = NoBitrate THEN head[i] ELSE Insert(head[i], Found(i + 1))
        BY <2>1, <2>2
  <2>4. Upto(i + 1) = Upto(i) \cup ({Found(i + 1)} \ {NoBitrate})  BY <2>1
  <2>5. CASE Found(i + 1) = NoBitrate
    <3>1. head[i + 1] = head[i]  BY <2>3, <2>5
    <3>2. Upto(i + 1) = Upto(i)  BY <2>4, <2>5
    <3> HIDE DEF Upto
    <3>3. QED  BY <3>1, <3>2, <1>8
  <2>6. CASE Found(i + 1) # NoBitrate
    <3> DEFINE b == Found(i + 1)
               l == head[i]
    <3>1. b \in Nat  BY <1>2, <2>1, <2>6
    <3>2. head[i + 1] = Insert(l, b)  BY <2>3, <2>6
    <3>3. l \in Seq(Nat) /\ Sorted(l) /\ Bitrates(l) = Upto(i)  BY <1>8
    <3>4. Upto(i + 1) = Upto(i) \cup {b}  BY <2>4, <2>6
    <3> HIDE DEF b, l, Upto
    <3>5. LET new == Insert(l, b)
          IN  /\ new \in Seq(Nat) /\ Sorted(new)
              /\ \A x : (\E j \in DOMAIN new : new[j] = x)
                     <=> x = b \/ \E j \in DOMAIN l : l[j] = x
          BY <3>1, <3>3, InsertSorted
    <3>6. Bitrates(Insert(l, b)) = Bitrates(l) \cup {b}  BY <3>5 DEF Bitrates
    <3>7. QED  BY <3>2, <3>3, <3>4, <3>5, <3>6
  <2>7. QED  BY <2>5, <2>6
<1>9. 0 .. N \subseteq T
  <2> HIDE DEF Good
  <2>1. 0 \in T  BY <1>7
  <2>2. \A i \in 0 .. N - 1 : i \in T => i + 1 \in T  BY <1>1, <1>8
  <2> HIDE DEF T
  <2>3. QED  BY <1>1, <2>1, <2>2, UpTo
<1>10. Good(N)
  <2> HIDE DEF Good
  <2>1. QED  BY <1>1, <1>9
<1>11. Upto(N) = Bitrates(media) \ {NoBitrate}
  <2>1. \A i \in 1 .. N : /\ Found(i) \in Bitrates(media) \cup {NoBitrate}
                          /\ media[i] # NoBitrate => Found(i) = media[i]
        BY FoundNext DEF Found, N
  <2>2. Upto(N) \subseteq Bitrates(media) \ {NoBitrate}  BY <2>1
  <2>3. Bitrates(media) \ {NoBitrate} \subseteq Upto(N)  BY <1>1, <2>1 DEF Bitrates
  <2>4. QED  BY <2>2, <2>3
<1> HIDE DEF Upto
<1>12. QED  BY <1>3, <1>10, <1>11

-----------------------------------------------------------------------------
(* The choice for a chunk *)

\* What a bitrate list may be: none yet, or some manifest's.
Listed == {<<>>} \cup {parse_xml_to_list(Manifest[v]) : v \in Videos}

\* A connection's struct: while it waits, its bitrate is the choice from its
\* list at its estimate.
ConnOK(r) ==
  /\ r \in [ip : Ips, video : Videos, T_curr : Nat, bitrate : Nat,
            bitrate_list : Listed, waiting : BOOLEAN]
  /\ r.waiting = TRUE => /\ r.bitrate_list # <<>>
                         /\ r.bitrate = select_bitrate(r.bitrate_list, r.T_curr)

\* The lists come from manifests, and no estimate changes under a chunk on its way.
ChoiceOK ==
  /\ default_list \in Listed
  /\ \A c \in open : ConnOK(conn[c])

\* A list that is not empty is sorted.
LEMMA ListedSorted ==
  ASSUME NEW list \in Listed
  PROVE  list \in Seq(Nat) /\ Sorted(list)
<1>1. CASE list = <<>>  BY <1>1 DEF Sorted
<1>2. CASE list # <<>>
  <2>1. PICK v \in Videos : list = parse_xml_to_list(Manifest[v])  BY <1>2 DEF Listed
  <2>2. Manifest[v] \in Seq(Nat \cup {NoBitrate})  BY ManifestAssumption
  <2>3. QED  BY <2>1, <2>2, ParsedSorted
<1>3. QED  BY <1>1, <1>2

\* There are no connections and no list at first.
LEMMA ChoiceInit == Init => ChoiceOK
BY DEF Init, ChoiceOK, Listed, open

\* A new connection has no list, and its estimate is the history's.
LEMMA ChoiceOpen ==
  ASSUME EstimateType, ChoiceOK, NEW c \in Conns, NEW ip \in Ips, NEW v \in Videos, Open(c, ip, v)
  PROVE  ChoiceOK'
<1> DEFINE new == [ip |-> ip, video |-> v, T_curr |-> Kept(ip),
                   bitrate |-> 0, bitrate_list |-> <<>>, waiting |-> FALSE]
<1>1. conn' = Changed(c, new) /\ default_list' = default_list  BY DEF Open
<1>2. ConnOK(new)
  <2>1. Kept(ip) \in Nat  BY KeptType DEF EstimateType
  <2>2. <<>> \in Listed  BY DEF Listed
  <2>3. ~(new.waiting = TRUE)  OBVIOUS
  <2>4. new \in [ip : Ips, video : Videos, T_curr : Nat, bitrate : Nat,
                bitrate_list : Listed, waiting : BOOLEAN]
        BY <2>1, <2>2
  <2> HIDE DEF new
  <2>5. QED  BY <2>3, <2>4, Zenon DEF ConnOK
<1> HIDE DEF new
<1>3. \A d \in DOMAIN conn' : conn'[d] = new \/ (d \in open /\ conn'[d] = conn[d])
  BY <1>1 DEF Changed
<1>4. QED  BY <1>1, <1>2, <1>3 DEF ChoiceOK, open

\* handle_resp_f4m puts in the manifest's list, and none is on its way.
LEMMA ChoiceManifest ==
  ASSUME ChoiceOK, NEW c \in Conns, GetManifest(c)
  PROVE  ChoiceOK'
<1> DEFINE list == parse_xml_to_list(Manifest[conn[c].video])
           r == [conn[c] EXCEPT !.bitrate_list = list]
<1>1. c \in open /\ conn[c].waiting # TRUE /\ ConnOK(conn[c])  BY DEF GetManifest, ChoiceOK
<1>2. list \in Listed
  <2>1. conn[c].video \in Videos  BY <1>1 DEF ConnOK
  <2>2. QED  BY <2>1 DEF Listed
<1>3. conn' = [conn EXCEPT ![c] = r] /\ default_list' = Default(list)
  BY DEF GetManifest
<1> HIDE DEF list
<1>4. ConnOK(r)
  BY <1>1, <1>2 DEF ConnOK
<1> HIDE DEF r
<1>5. default_list' \in Listed  BY <1>2, <1>3 DEF Default, ChoiceOK
<1>6. \A d \in DOMAIN conn' : d \in open /\ (conn'[d] = r \/ conn'[d] = conn[d])
  BY <1>3 DEF open
<1>7. QED  BY <1>4, <1>5, <1>6 DEF ChoiceOK, open

\* The request takes its bitrate from the list, or from config's.
LEMMA ChoiceRequest ==
  ASSUME ChoiceOK, NEW c \in Conns, RequestChunk(c)
  PROVE  ChoiceOK'
<1> DEFINE list == IF conn[c].bitrate_list = <<>> THEN default_list ELSE conn[c].bitrate_list
           b == select_bitrate(list, conn[c].T_curr)
           r == [[[conn[c] EXCEPT !.bitrate_list = list] EXCEPT !.bitrate = b] EXCEPT !.waiting = TRUE]
<1>1. c \in open /\ ConnOK(conn[c]) /\ list # <<>>  BY DEF RequestChunk, ChoiceOK
<1>2. list \in Listed /\ conn[c].T_curr \in Nat  BY <1>1 DEF ConnOK, ChoiceOK
<1>3. conn' = [conn EXCEPT ![c] = r] /\ default_list' = default_list
  BY Zenon DEF RequestChunk
<1> HIDE DEF list
<1>4. b \in Nat
  <2>1. list \in Seq(Nat) /\ Sorted(list)  BY <1>2, ListedSorted
  <2>2. \E i \in DOMAIN list : b = list[i]  BY <1>1, <1>2, <2>1, SelectBest
  <2>3. QED  BY <2>1, <2>2
<1>5. /\ r.waiting = TRUE /\ r.bitrate_list = list /\ r.bitrate = b /\ r.T_curr = conn[c].T_curr
      /\ r \in [ip : Ips, video : Videos, T_curr : Nat, bitrate : Nat,
                bitrate_list : Listed, waiting : BOOLEAN]
  <2> HIDE DEF b
  <2>1. QED  BY <1>1, <1>2, <1>4 DEF ConnOK
<1>6. ConnOK(r)
  <2>1. b = select_bitrate(list, conn[c].T_curr)  OBVIOUS
  <2> HIDE DEF b, r
  <2>2. QED  BY <1>1, <1>5, <2>1, Zenon DEF ConnOK
<1> HIDE DEF r
<1>7. \A d \in DOMAIN conn' : d \in open /\ (conn'[d] = r \/ conn'[d] = conn[d])
  BY <1>3 DEF open
<1>8. QED  BY <1>3, <1>6, <1>7 DEF ChoiceOK, open

\* The chunk ends the wait before the new estimate counts.
LEMMA ChoiceReceive ==
  ASSUME EstimateType, ChoiceOK, NEW c \in Conns, NEW T \in Rates, ReceiveChunk(c, T)
  PROVE  ChoiceOK'
<1>0. PICK new \in Smoothed(AlphaNum, AlphaDen, T, Kept(conn[c].ip)) :
        conn' = [conn EXCEPT ![c].T_curr = new, ![c].waiting = FALSE]
  BY DEF ReceiveChunk
<1> DEFINE r == [[conn[c] EXCEPT !.T_curr = new] EXCEPT !.waiting = FALSE]
<1>1. c \in open /\ ConnOK(conn[c])  BY DEF ReceiveChunk, ChoiceOK
<1>2. new \in Nat
  <2>1. T \in Nat /\ Kept(conn[c].ip) \in Nat  BY RateType, KeptType DEF EstimateType
  <2>2. PICK B \in Nat : T <= B /\ Kept(conn[c].ip) <= B  BY <2>1
  <2>3. QED  BY <2>1, <2>2, SmoothedBounded, AlphaAssumption
<1>3. conn' = [conn EXCEPT ![c] = r] /\ default_list' = default_list
  BY <1>0, Zenon DEF ReceiveChunk
<1>4. ConnOK(r)  BY <1>1, <1>2 DEF ConnOK
<1> HIDE DEF r
<1>5. \A d \in DOMAIN conn' : d \in open /\ (conn'[d] = r \/ conn'[d] = conn[d])
  BY <1>3 DEF open
<1>6. QED  BY <1>3, <1>4, <1>5 DEF ChoiceOK, open

\* Every step keeps what the lists and the chunks on their way have.
LEMMA ChoiceStep == EstimateType /\ ChoiceOK /\ [Next]_vars => ChoiceOK'
<1> SUFFICES ASSUME EstimateType, ChoiceOK, [Next]_vars PROVE ChoiceOK'  OBVIOUS
<1>1. ASSUME NEW c \in Conns, Close(c) PROVE ChoiceOK'
  BY <1>1 DEF Close, ChoiceOK, open
<1>2. CASE UNCHANGED vars  BY <1>2 DEF vars, ChoiceOK, open
<1>3. QED
  BY <1>1, <1>2, ChoiceOpen, ChoiceManifest, ChoiceRequest, ChoiceReceive DEF Next

\* Waiting connections asked for what select_bitrate found in a sorted list of
\* all that the manifest offers.
LEMMA ChoiceBest == ChoiceOK => BestBitrate
<1> SUFFICES ASSUME ChoiceOK, NEW c \in open, conn[c].waiting = TRUE
             PROVE  \E v \in Videos :
      LET affordable == {b \in Offered(v) : 3 * b <= 2 * conn[c].T_curr}
      IN  /\ conn[c].bitrate \in Offered(v)
          /\ IF affordable = {} THEN \A b \in Offered(v) : conn[c].bitrate <= b
             ELSE conn[c].bitrate \in affordable /\ \A b \in affordable : b <= conn[c].bitrate
  BY DEF BestBitrate, ChoiceOK, ConnOK
<1> DEFINE list == conn[c].bitrate_list
           t == conn[c].T_curr
           b == conn[c].bitrate
<1>1. /\ list \in Listed /\ t \in Nat /\ list # <<>>
      /\ b = select_bitrate(list, t)
  BY DEF ChoiceOK, ConnOK
<1>2. PICK v \in Videos : list = parse_xml_to_list(Manifest[v])  BY <1>1 DEF Listed
<1>3. /\ list \in Seq(Nat) /\ Sorted(list)
      /\ Bitrates(list) = Bitrates(Manifest[v]) \ {NoBitrate}
  BY <1>2, ParsedSorted, ManifestAssumption
<1>4. Offered(v) = {list[i] : i \in DOMAIN list}  BY <1>3 DEF Offered, Bitrates
<1> DEFINE affordable == {x \in Offered(v) : 3 * x <= 2 * t}
<1>5. PICK i \in DOMAIN list :
        /\ b = list[i]
        /\ \/ /\ Affordable(list[i], t)
              /\ \A j \in DOMAIN list : Affordable(list[j], t) => list[j] <= list[i]
           \/ \A j \in DOMAIN list : ~Affordable(list[j], t) /\ list[i] <= list[j]
  <2> HIDE DEF list, t, b
  <2>1. QED  BY <1>1, <1>3, SelectBest
<1> HIDE DEF list, t, b
<1>6. b \in Offered(v)  BY <1>4, <1>5
<1>7. CASE /\ Affordable(list[i], t)
           /\ \A j \in DOMAIN list : Affordable(list[j], t) => list[j] <= list[i]
  <2>1. b \in affordable  BY <1>5, <1>6, <1>7 DEF Affordable
  <2>2. \A x \in affordable : x <= b  BY <1>4, <1>5, <1>7 DEF Affordable
  <2>3. QED  BY <1>6, <2>1, <2>2 DEF t, b
<1>8. CASE \A j \in DOMAIN list : ~Affordable(list[j], t) /\ list[i] <= list[j]
  <2>1. affordable = {}  BY <1>4, <1>8 DEF Affordable
  <2>2. \A x \in Offered(v) : b <= x  BY <1>4, <1>5, <1>8
  <2>3. QED  BY <1>6, <2>1, <2>2 DEF t, b
<1>9. QED  BY <1>5, <1>7, <1>8

\* Whatever the manifests, their order and the steps of other connections, a
\* chunk is asked for at the highest bitrate of a manifest that its connection's
\* estimate is 1.5 times of, and at the lowest if it is of none.
THEOREM BestBitrateCorrect == Spec => []BestBitrate
BY ChoiceInit, ChoiceStep, ChoiceBest, TypeInit, TypeStep, PTL DEF Spec
=============================================================================
