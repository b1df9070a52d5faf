-------------------------------- MODULE Bitrate --------------------------------
(***************************************************************************)
(* The functions of src/src/bitrate.c and the throughput average of        *)
(* estimate_throughput in src/src/proxy2.c.  A bitrate list is a sequence; *)
(* a manifest is the sequence of its media elements, each one its bitrate  *)
(* or NoBitrate.  Throughputs and bitrates are in Kbps.                     *)
(***************************************************************************)
EXTENDS Integers, Sequences, FiniteSets

NoBitrate == -1

\* Equal bitrates do not stop the walk over the list, or it stops at once.
Insert_Bug(list, b) == <<b>> \o list

\* sorted_insert_bitrate: behind the bitrates at the front that are smaller.
Insert(list, b) ==
  LET before == Cardinality({i \in DOMAIN list : \A j \in 1 .. i : list[j] < b})
  IN  SubSeq(list, 1, before) \o <<b>> \o SubSeq(list, before + 1, Len(list))

\* strstr from the i-th media element: it finds the bitrate of a later element
\* if this one has none.
FoundFrom(media, i) ==
  LET with == {j \in i .. Len(media) : media[j] # NoBitrate}
  IN  IF with = {} THEN NoBitrate
      ELSE media[CHOOSE j \in with : \A k \in with : j <= k]

\* The list after every media element's bitrate was put into it, first to last.
parse_xml_to_list(media) ==
  LET head[i \in 0 .. Len(media)] ==
        IF i = 0 THEN <<>>
        ELSE IF FoundFrom(media, i) = NoBitrate THEN head[i - 1]
             ELSE Insert(head[i - 1], FoundFrom(media, i))
  IN  head[Len(media)]

Affordable(b, tpt) == 3 * b <= 2 * tpt

\* The last of the affordable bitrates at the front, or else the first one.
select_bitrate(head, tpt) ==
  LET affordable == {i \in DOMAIN head : \A j \in 1 .. i : Affordable(head[j], tpt)}
  IN  IF affordable = {} THEN head[1] ELSE head[Cardinality(affordable)]

\* Size bytes in duration milliseconds.  A duration of 0 gives infinity, which
\* the conversion to unsigned long turns to Undefined.
Rate(size, duration, Undefined) ==
  IF duration = 0 THEN Undefined ELSE (8 * size) \div duration

\* The new rate counts whole, on top of what there was.
Smoothed_Bug(num, den, T, Tcurrent) == {(num * T) \div den + Tcurrent}

\* alpha = num / den.  The sum is truncated, and it is one of a float product and
\* a double: where alpha rounds and the exact average is a whole number, the sum
\* may lie below it.
Smoothed(num, den, T, Tcurrent) ==
  LET sum == num * T + (den - num) * Tcurrent
      rounds == 0 < num /\ num < den /\ sum > 0
  IN  {sum \div den} \cup {q \in {sum \div den - 1} : rounds /\ sum % den = 0}
=============================================================================
