------------------------------ MODULE QueryUrl -----------------------------
(***************************************************************************)
(* gen_query_url(): the registration data as the query of a URL, and       *)
(* urlencode(), which writes what is not a letter, a digit or one of .-_~  *)
(* as a percent sign and two hexadecimal digits.                           *)
(***************************************************************************)
EXTENDS Integers, FiniteSets, SequencesExt

CONSTANTS
  Plain,    \* characters that stay as they are, hexadecimal digits among them
  Hex,      \* of the other ASCII characters, the two digits of their codes
  Wide,     \* characters above ASCII, negative as a char
  MaxPairs, \* bounds: the pairs of a dictionary
  MaxKey,   \*   the characters of a key
  MaxValue  \*   and of a value

And == "&"
Equals == "="
Percent == "%"

UrlAssumption ==
  /\ {And, Equals, Percent} \subseteq DOMAIN Hex
  /\ \A c \in DOMAIN Hex : Hex[c] \in Plain \X Plain
  /\ \A c, d \in DOMAIN Hex : Hex[c] = Hex[d] => c = d
  /\ Plain \cap (DOMAIN Hex \cup Wide) = {} /\ DOMAIN Hex \cap Wide = {}
  /\ MaxPairs \in Nat /\ MaxKey \in Nat /\ MaxValue \in Nat

Characters == Plain \cup DOMAIN Hex \cup Wide
Text(max) == UNION {[1 .. n -> Characters] : n \in 0 .. max}

VARIABLES
  pairs,  \* data, the dictionary
  todo,   \* the keys the loop has not come to
  buf,
  step    \* "loop", "done" or "undefined"

queryVars == <<pairs, todo, buf, step>>

\* Some dictionary.
SomeData ==
  \E keys \in UNION {[1 .. n -> Text(MaxKey)] : n \in 0 .. MaxPairs} :
    pairs \in [{keys[i] : i \in DOMAIN keys} -> Text(MaxValue)]

\* Nothing has been written.
Unwritten ==
  /\ todo = DOMAIN pairs
  /\ buf = <<>>
  /\ step = "loop"

QueryInit == SomeData /\ Unwritten
-----------------------------------------------------------------------------
\* Faulty variant: the percent sign is left alone.
EncodedButPercent(c) ==
  IF c \in Plain \cup {Percent} THEN <<c>> ELSE <<Percent, Hex[c][1], Hex[c][2]>>

Encoded(c) == IF c \in Plain THEN <<c>> ELSE <<Percent, Hex[c][1], Hex[c][2]>>
urlencode(s) == FlattenSeq([i \in DOMAIN s |-> Encoded(s[i])])

\* sprintf() writes eight digits for a negative char, into a buffer for two.
Overflows(s) == \E i \in DOMAIN s : s[i] \in Wide

\* std::map goes through the keys in their order, which is of no consequence.
Pair(k) ==
  /\ step = "loop" /\ k \in todo
  /\ todo' = todo \ {k}
  /\ IF Overflows(k) \/ Overflows(pairs[k])
       THEN step' = "undefined" /\ UNCHANGED buf
       ELSE /\ buf' = buf \o urlencode(k) \o <<Equals>> \o urlencode(pairs[k]) \o <<And>>
            /\ UNCHANGED step
  /\ UNCHANGED pairs

\* The last ampersand goes.
Finish ==
  /\ step = "loop" /\ todo = {}
  /\ buf' = IF buf = <<>> THEN buf ELSE SubSeq(buf, 1, Len(buf) - 1)
  /\ step' = "done"
  /\ UNCHANGED <<pairs, todo>>

QueryNext == (\E k \in todo : Pair(k)) \/ Finish

QuerySpec == QueryInit /\ [][QueryNext]_queryVars
-----------------------------------------------------------------------------
(***************************************************************************)
(* What a server makes of a query: fields between ampersands, a key up to  *)
(* the first equals sign, and codes for characters.                        *)
(***************************************************************************)
Signs(s, c) == {i \in DOMAIN s : s[i] = c}

\* The bounds of the fields of s, and the fields.
Bounds(s) == {0, Len(s) + 1} \cup Signs(s, And)
Neighbours(B, i, j) == i \in B /\ j \in B /\ i < j /\ \A b \in B : b <= i \/ j <= b
Fields(s) ==
  {SubSeq(s, p[1] + 1, p[2] - 1) : p \in
     {q \in Bounds(s) \X Bounds(s) : Neighbours(Bounds(s), q[1], q[2])}}

\* Whether s is a way to write the character c, and the text t: ends has the
\* place in s where each character ends.
IsCode(s, c) ==
  \/ c \in Plain /\ s = <<c>>
  \/ c \in DOMAIN Hex /\ s = <<Percent, Hex[c][1], Hex[c][2]>>
Writes(s, t) ==
  \E ends \in [0 .. Len(t) -> 0 .. Len(s)] :
    /\ ends[0] = 0 /\ ends[Len(t)] = Len(s)
    /\ \A i \in DOMAIN t : IsCode(SubSeq(s, ends[i - 1] + 1, ends[i]), t[i])

\* Whether f is the field of key k: one equals sign between the two.
IsField(f, k) ==
  \E e \in DOMAIN f :
    /\ Signs(f, Equals) = {e}
    /\ Writes(SubSeq(f, 1, e - 1), k)
    /\ Writes(SubSeq(f, e + 1, Len(f)), pairs[k])

\* A query gives back the registration data, whatever signs there are in the
\* keys and the values: as many fields as keys, each field with one equals sign
\* that stands between a key and its value, and no key without
\* (gen_query_url()).
ReadsBack ==
  step = "done" =>
    IF pairs = <<>> THEN buf = <<>>
    ELSE /\ Cardinality(Signs(buf, And)) + 1 = Cardinality(DOMAIN pairs)
         /\ \A f \in Fields(buf) : \E k \in DOMAIN pairs : IsField(f, k)
         /\ \A k \in DOMAIN pairs : \E f \in Fields(buf) : IsField(f, k)
=============================================================================
