-------------------------- MODULE NetStreamProofs --------------------------
(***************************************************************************)
(* Theorems about NetStream, for any exchanges of messages of any sizes    *)
(* and layouts, any window, and machines of either endianness: what a      *)
(* process takes from the stream is what its peer was given to send, the   *)
(* two never wait for each other, and all that is seen of it is Dialogue.  *)
(***************************************************************************)
EXTENDS NetStream, FiniteSetTheorems, FunctionTheorems, SequenceTheorems, TLAPS

(* Byte i of turn j, as a pair, for every byte that r sends in the turns   *)
(* before turn k of exchange t; and how many there are. The sum of the     *)
(* sizes of these turns needs no recursion that way.                       *)
Bytes(t, r, k) ==
    UNION {{j} \X (1..t[j].size) : j \in {j \in 1..(k - 1) : t[j].from = r}}
Before(t, r, k) == Cardinality(Bytes(t, r, k))

(* The bytes of r's stream that its peer has taken so far: those of the    *)
(* turns it is past, and those of the message it is receiving. With those  *)
(* on the wire, they are all that r has sent.                              *)
Taken(r) == Before(turns, r, pos[Peer(r)])
              + (IF state[Peer(r)] = "recv" THEN Len(buf[Peer(r)]) ELSE 0)
Out(r)   == Taken(r) + Len(wire[r])

(* The types, and that a broken connection carries nothing.                *)
NetType ==
    /\ turns \in Exchanges /\ little \in [Role -> BOOLEAN] /\ up \in BOOLEAN
    /\ pos \in [Role -> 1..(Len(turns) + 1)]
    /\ state \in [Role -> {"turn", "send", "recv", "done", "failed"}]
    /\ buf \in [Role -> Seq(Octet)] /\ wire \in [Role -> Seq(Octet)]
    /\ DOMAIN told = DOMAIN turns /\ DOMAIN got = DOMAIN turns
    /\ \A k \in DOMAIN turns : /\ told[k] \in turns[k].options \cup {NoMessage}
                               /\ got[k] \in Seq(Octet) \cup {NoMessage}
    /\ ~ up => \A r \in Role : wire[r] = << >>

(* Where r stands in the exchange. What it has still to send is the end of *)
(* its message, what it has received so far is the beginning of the        *)
(* other's; it was given messages up to its place and no further, and took *)
(* one in every turn it is past.                                           *)
Place(r) ==
    /\ state[r] = "turn" => buf[r] = << >>
    /\ state[r] = "done" <=> pos[r] = Len(turns) + 1
    /\ state[r] = "send" =>
         /\ turns[pos[r]].from = r /\ told[pos[r]] # NoMessage
         /\ Len(buf[r]) \in 1..turns[pos[r]].size
         /\ \A x \in 1..Len(buf[r]) :
              buf[r][x] = told[pos[r]][turns[pos[r]].size - Len(buf[r]) + x]
    /\ state[r] = "recv" =>
         /\ turns[pos[r]].from # r
         /\ Len(buf[r]) < turns[pos[r]].size
         /\ \A x \in 1..Len(buf[r]) : /\ told[pos[r]] # NoMessage
                                      /\ buf[r][x] = told[pos[r]][x]
    /\ \A k \in DOMAIN turns : turns[k].from = r /\ told[k] # NoMessage =>
         /\ k <= pos[r]
         /\ k = pos[r] => state[r] # "turn"
    /\ \A k \in DOMAIN turns : turns[k].from # r /\ k < pos[r] => got[k] # NoMessage

(* The stream from r, while its peer may still receive. A byte of the wire *)
(* is the byte, at its offset, of the messages that r was given; what r    *)
(* has sent is every message of the turns it is past and the part of its   *)
(* own that is not in buf; and if it has sent all of a message that it     *)
(* could go on with, it did go on.                                         *)
Stream(r) ==
    up /\ state[Peer(r)] # "failed" =>
      /\ \A k \in DOMAIN turns : \A i \in 1..turns[k].size : \A x \in 1..Len(wire[r]) :
           turns[k].from = r /\ Before(turns, r, k) + i = Taken(r) + x =>
             told[k] # NoMessage /\ wire[r][x] = told[k][i]
      /\ state[r] = "send" => Out(r) = Before(turns, r, pos[r]) + turns[pos[r]].size - Len(buf[r])
      /\ state[r] \in {"turn", "recv", "done"} => Out(r) = Before(turns, r, pos[r])
      /\ \A k \in DOMAIN turns :
           /\ turns[k].from = r /\ turns[k].size > 0
           /\ told[k] \in turns[k].accept /\ Before(turns, r, k + 1) <= Out(r)
           => k < pos[r]

(* What was taken is what was given, and who waited for the last message   *)
(* is not done before its sender is.                                       *)
Arrived ==
    /\ \A k \in DOMAIN turns :
         got[k] # NoMessage /\ turns[k].size > 0 => told[k] # NoMessage /\ got[k] = told[k]
    /\ \A r \in Role : \A k \in DOMAIN turns :
         (state[r] = "done" /\ k = Len(turns) /\ turns[k].from # r /\ turns[k].size > 0)
           => state[Peer(r)] = "done"

(* The inductive invariant.                                                *)
NetInv == NetType /\ (\A r \in Role : Place(r) /\ Stream(r)) /\ Arrived

(* r waits for the other: for bytes to come or for room. While the         *)
(* connection is up that is never so of both, so the two do not wait for   *)
(* each other.                                                             *)
Blocked(r) == \/ state[r] = "recv" /\ wire[Peer(r)] = << >>
              \/ state[r] = "send" /\ Len(wire[r]) >= Window
NotBothBlocked == up => \E r \in Role : ~ Blocked(r)
-----------------------------------------------------------------------------
(* What the assumption about the exchanges says of one turn.               *)
LEMMA TurnFacts ==
    ASSUME NEW t \in Exchanges
    PROVE  /\ t \in Seq(Turn)
           /\ \A k \in DOMAIN t :
                /\ t[k].from \in Role /\ t[k].size \in Nat
                /\ t[k].options \subseteq Seq(Octet)
                /\ t[k].accept \subseteq t[k].options
                /\ t[k].numbers \subseteq Nat \X Nat
                /\ \A m \in t[k].options : m \in Seq(Octet) /\ Len(m) = t[k].size
                /\ \A f \in t[k].numbers : 1 <= f[1] /\ f[2] <= t[k].size
                /\ \A f, g \in t[k].numbers : f[1] <= g[2] /\ g[1] <= f[2] => f = g
<1>1. t \in Seq(Turn)
  BY ExchangesAssumption
<1>2. ASSUME NEW k \in DOMAIN t
      PROVE  t[k] \in Turn
  BY <1>1, <1>2, ElementOfSeq
<1>3. QED
  BY <1>1, <1>2, ExchangesAssumption DEF Turn

(* A message of n bytes has n places,                                      *)
LEMMA UpTo ==
    ASSUME NEW n \in Nat
    PROVE  IsFiniteSet(1..n) /\ Cardinality(1..n) = n
<1>1. 1 \in Int /\ n \in Int
  OBVIOUS
<1>2. IsFiniteSet(1..n) /\ Cardinality(1..n) = IF 1 > n THEN 0 ELSE n - 1 + 1
  BY <1>1, FS_Interval, Zenon
<1>3. QED
  BY <1>2

(* and so have its bytes, as the pairs of Bytes.                           *)
LEMMA BlockSize ==
    ASSUME NEW j, NEW n \in Nat
    PROVE  IsFiniteSet({j} \X (1..n)) /\ Cardinality({j} \X (1..n)) = n
<1>1. IsFiniteSet(1..n) /\ Cardinality(1..n) = n
  BY UpTo
<1>2. IsFiniteSet({j}) /\ Cardinality({j}) = 1
  BY FS_Singleton, Zenon
<1>3. /\ IsFiniteSet({j} \X (1..n))
      /\ Cardinality({j} \X (1..n)) = Cardinality({j}) * Cardinality(1..n)
  BY <1>1, <1>2, FS_Product, Zenon
<1>4. QED
  BY <1>1, <1>2, <1>3

(* The bytes before a turn are finitely many.                              *)
LEMMA BytesFinite ==
    ASSUME NEW t \in Exchanges, NEW r \in Role, NEW k \in 1..(Len(t) + 1)
    PROVE  IsFiniteSet(Bytes(t, r, k))
<1> DEFINE J == {j \in 1..(k - 1) : t[j].from = r}
           R == {{j} \X (1..t[j].size) : j \in J}
           f == [j \in J |-> {j} \X (1..t[j].size)]
<1>1. t \in Seq(Turn) /\ Len(t) \in Nat /\ DOMAIN t = 1..Len(t)
  BY TurnFacts, LenProperties
<1>2. IsFiniteSet(J)
  <2>1. IsFiniteSet(1..(k - 1))
    BY <1>1, FS_Interval
  <2>2. J \in SUBSET (1..(k - 1))
    OBVIOUS
  <2> QED
    BY <2>1, <2>2, FS_Subset
<1>3. IsFiniteSet(R)
  <2>1. f \in Surjection(J, R)
    BY DEF Surjection
  <2> QED
    BY <1>2, <2>1, FS_Surjection
<1>4. ASSUME NEW S \in R
      PROVE  IsFiniteSet(S)
  <2>1. PICK j \in J : S = {j} \X (1..t[j].size)
    OBVIOUS
  <2>2. t[j].size \in Nat
    BY <1>1, TurnFacts
  <2> QED
    BY <2>1, <2>2, BlockSize
<1>5. IsFiniteSet(UNION R)
  BY <1>3, <1>4, FS_UNION
<1>6. QED
  BY <1>5 DEF Bytes

(* Hence Before counts,                                                    *)
LEMMA BeforeType ==
    ASSUME NEW t \in Exchanges, NEW r \in Role, NEW k \in 1..(Len(t) + 1)
    PROVE  Before(t, r, k) \in Nat
  BY BytesFinite, FS_CardinalityType DEF Before

(* from nothing before the first turn,                                     *)
LEMMA BeforeFirst ==
    ASSUME NEW t \in Exchanges, NEW r \in Role
    PROVE  Before(t, r, 1) = 0
<1>1. Bytes(t, r, 1) = {}
  BY DEF Bytes
<1>2. QED
  BY <1>1, FS_EmptySet DEF Before

(* adding the size of each turn that r sends in,                           *)
LEMMA BeforeNext ==
    ASSUME NEW t \in Exchanges, NEW r \in Role, NEW k \in DOMAIN t
    PROVE  Before(t, r, k + 1) = Before(t, r, k) + (IF t[k].from = r THEN t[k].size ELSE 0)
<1>1. t \in Seq(Turn) /\ Len(t) \in Nat /\ DOMAIN t = 1..Len(t)
  BY TurnFacts, LenProperties
<1>2. t[k].size \in Nat /\ k \in 1..(Len(t) + 1) /\ k + 1 \in 1..(Len(t) + 1)
  BY <1>1, TurnFacts
<1>3. CASE t[k].from # r
  <2>1. {j \in 1..k : t[j].from = r} = {j \in 1..(k - 1) : t[j].from = r}
    BY <1>1, <1>3
  <2>2. Bytes(t, r, k + 1) = Bytes(t, r, k)
    BY <1>1, <2>1 DEF Bytes
  <2>3. Cardinality(Bytes(t, r, k)) \in Nat
    BY <1>2, BytesFinite, FS_CardinalityType
  <2> QED
    BY <1>2, <1>3, <2>2, <2>3 DEF Before
<1>4. CASE t[k].from = r
  <2> DEFINE B == {k} \X (1..t[k].size)
  <2>1. {j \in 1..k : t[j].from = r} = {j \in 1..(k - 1) : t[j].from = r} \cup {k}
    BY <1>1, <1>4
  <2>2. Bytes(t, r, k + 1) = Bytes(t, r, k) \cup B
    BY <1>2, <2>1 DEF Bytes
  <2>3. Bytes(t, r, k) \cap B = {}
    BY <1>1 DEF Bytes
  <2>4. IsFiniteSet(B) /\ Cardinality(B) = t[k].size
    BY <1>2, BlockSize
  <2>5. Cardinality(Bytes(t, r, k) \cup B)
          = Cardinality(Bytes(t, r, k)) + Cardinality(B) - Cardinality(Bytes(t, r, k) \cap B)
    BY <1>2, <2>4, BytesFinite, FS_Union
  <2>6. Cardinality(Bytes(t, r, k)) \in Nat
    BY <1>2, BytesFinite, FS_CardinalityType
  <2>7. Cardinality(Bytes(t, r, k) \cap B) = 0
    BY <2>3, FS_EmptySet
  <2> HIDE DEF B
  <2>8. Cardinality(Bytes(t, r, k + 1)) = Cardinality(Bytes(t, r, k)) + t[k].size
    <3>1. Cardinality(Bytes(t, r, k + 1)) = Cardinality(Bytes(t, r, k) \cup B)
      BY <2>2
    <3>2. t[k].size \in Nat /\ Cardinality(B) = t[k].size
      BY <1>2, <2>4
    <3> HIDE DEF Bytes
    <3> QED
      BY <3>1, <3>2, <2>5, <2>6, <2>7
  <2> QED
    BY <1>4, <2>8 DEF Before
<1>5. QED
  BY <1>3, <1>4

(* and never declines.                                                     *)
LEMMA BeforeGrows ==
    ASSUME NEW t \in Exchanges, NEW r \in Role,
           NEW j \in 1..(Len(t) + 1), NEW k \in 1..(Len(t) + 1), j <= k
    PROVE  Before(t, r, j) <= Before(t, r, k)
<1>1. t \in Seq(Turn) /\ Len(t) \in Nat
  BY TurnFacts, LenProperties
<1>2. Bytes(t, r, j) \subseteq Bytes(t, r, k)
  BY <1>1 DEF Bytes
<1>3. QED
  BY <1>2, BytesFinite, FS_Subset DEF Before
-----------------------------------------------------------------------------
(* The layout of a message: its numbers lie in it and do not overlap.      *)
Layout(size, numbers) ==
    /\ numbers \subseteq Nat \X Nat
    /\ \A f \in numbers : 1 <= f[1] /\ f[2] <= size
    /\ \A f, g \in numbers : f[1] <= g[2] /\ g[1] <= f[2] => f = g

(* htonl and its like are applied to every number and to nothing else.     *)
LEMMA FlipOnce ==
    ASSUME NEW b \in Seq(Octet), NEW numbers, Layout(Len(b), numbers)
    PROVE  /\ Flip(b, numbers) \in Seq(Octet)
           /\ Len(Flip(b, numbers)) = Len(b)
           /\ \A f \in numbers : \A i \in f[1]..f[2] :
                Flip(b, numbers)[i] = b[f[1] + f[2] - i]
           /\ \A i \in DOMAIN b : (\A f \in numbers : i \notin f[1]..f[2])
                => Flip(b, numbers)[i] = b[i]
<1>1. Len(b) \in Nat /\ DOMAIN b = 1..Len(b) /\ \A i \in 1..Len(b) : b[i] \in Octet
  BY LenProperties, ElementOfSeq
<1>2. /\ \A f \in numbers : f[1] \in Nat /\ f[2] \in Nat /\ 1 <= f[1] /\ f[2] <= Len(b)
      /\ \A f, g \in numbers : f[1] <= g[2] /\ g[1] <= f[2] => f = g
  BY DEF Layout
<1>3. ASSUME NEW f \in numbers, NEW i \in f[1]..f[2]
      PROVE  /\ i \in 1..Len(b) /\ f[1] + f[2] - i \in 1..Len(b)
             /\ f = CHOOSE g \in numbers : i \in g[1]..g[2]
  <2>1. i \in 1..Len(b) /\ f[1] + f[2] - i \in 1..Len(b)
    BY <1>1, <1>2
  <2>2. \A g \in numbers : i \in g[1]..g[2] => g = f
    BY <1>2
  <2> QED
    BY <2>1, <2>2
<1>4. \A f \in numbers : \A i \in f[1]..f[2] :
        Flip(b, numbers)[i] = b[f[1] + f[2] - i]
  BY <1>1, <1>3 DEF Flip
<1>5. \A i \in DOMAIN b : (\A f \in numbers : i \notin f[1]..f[2])
        => Flip(b, numbers)[i] = b[i]
  BY DEF Flip
<1>6. ASSUME NEW i \in 1..Len(b)
      PROVE  Flip(b, numbers)[i] \in Octet
  <2>1. CASE \A f \in numbers : i \notin f[1]..f[2]
    BY <1>1, <1>5, <2>1
  <2>2. CASE \E f \in numbers : i \in f[1]..f[2]
    BY <1>1, <1>3, <1>4, <2>2
  <2> QED
    BY <2>1, <2>2
<1>7. Flip(b, numbers) \in [1..Len(b) -> Octet]
  BY <1>1, <1>6 DEF Flip
<1>8. Flip(b, numbers) \in Seq(Octet) /\ Len(Flip(b, numbers)) = Len(b)
  BY <1>1, <1>7, SeqDef, LenProperties
<1>9. QED
  BY <1>4, <1>5, <1>8

(* Packing undoes what a little-endian machine's order does: to reverse    *)
(* each number twice is to leave the message alone.                        *)
LEMMA FlipTwice ==
    ASSUME NEW b \in Seq(Octet), NEW numbers, Layout(Len(b), numbers)
    PROVE  Flip(Flip(b, numbers), numbers) = b
<1> DEFINE c == Flip(b, numbers)
           d == Flip(c, numbers)
<1>1. /\ c \in Seq(Octet) /\ Len(c) = Len(b)
      /\ \A f \in numbers : \A i \in f[1]..f[2] : c[i] = b[f[1] + f[2] - i]
      /\ \A i \in DOMAIN b : (\A f \in numbers : i \notin f[1]..f[2]) => c[i] = b[i]
  BY FlipOnce
<1> HIDE DEF c
<1>2. /\ d \in Seq(Octet) /\ Len(d) = Len(b)
      /\ \A f \in numbers : \A i \in f[1]..f[2] : d[i] = c[f[1] + f[2] - i]
      /\ \A i \in DOMAIN c : (\A f \in numbers : i \notin f[1]..f[2]) => d[i] = c[i]
  BY <1>1, FlipOnce
<1> HIDE DEF d
<1>3. DOMAIN b = 1..Len(b) /\ DOMAIN c = 1..Len(b) /\ Len(b) \in Nat
  BY <1>1, LenProperties
<1>4. ASSUME NEW i \in 1..Len(b)
      PROVE  d[i] = b[i]
  <2>1. CASE \A f \in numbers : i \notin f[1]..f[2]
    BY <1>1, <1>2, <1>3, <2>1
  <2>2. ASSUME NEW f \in numbers, i \in f[1]..f[2]
        PROVE  d[i] = b[i]
    <3>1. f[1] \in Nat /\ f[2] \in Nat
      BY DEF Layout
    <3>2. f[1] + f[2] - i \in f[1]..f[2] /\ f[1] + f[2] - (f[1] + f[2] - i) = i
      BY <2>2, <3>1
    <3> QED
      BY <1>1, <1>2, <2>2, <3>2
  <2> QED
    BY <2>1, <2>2
<1>5. d = b
  BY <1>2, <1>4, SeqEqual
<1>6. QED
  BY <1>5 DEF c, d

(* The offset of a byte of turn k is below that of turn j exactly if turn  *)
(* k comes first.                                                          *)
LEMMA Where ==
    ASSUME NEW t \in Exchanges, NEW r \in Role, NEW k \in DOMAIN t, t[k].from = r,
           NEW i \in 1..t[k].size, NEW j \in 1..(Len(t) + 1)
    PROVE  Before(t, r, k) + i <= Before(t, r, j) <=> k < j
<1>1. /\ Len(t) \in Nat /\ DOMAIN t = 1..Len(t)
      /\ t[k].size \in Nat /\ k \in 1..(Len(t) + 1) /\ k + 1 \in 1..(Len(t) + 1)
  BY TurnFacts, LenProperties
<1>2. Before(t, r, k) \in Nat /\ Before(t, r, j) \in Nat
  BY <1>1, BeforeType
<1>3. ASSUME k < j
      PROVE  Before(t, r, k) + i <= Before(t, r, j)
  <2>1. Before(t, r, k + 1) <= Before(t, r, j)
    BY <1>1, <1>3, BeforeGrows
  <2>2. Before(t, r, k + 1) = Before(t, r, k) + t[k].size
    BY BeforeNext
  <2> QED
    BY <1>1, <1>2, <2>1, <2>2
<1>4. ASSUME ~ (k < j)
      PROVE  Before(t, r, j) <= Before(t, r, k)
  BY <1>1, <1>4, BeforeGrows
<1>5. QED
  BY <1>2, <1>3, <1>4

(* An offset of the stream belongs to one byte of one turn.                *)
LEMMA OnePlace ==
    ASSUME NEW t \in Exchanges, NEW r \in Role,
           NEW j \in DOMAIN t, t[j].from = r, NEW y \in 1..t[j].size,
           NEW k \in DOMAIN t, t[k].from = r, NEW i \in 1..t[k].size,
           Before(t, r, k) + i = Before(t, r, j) + y
    PROVE  k = j /\ i = y
<1>1. /\ Len(t) \in Nat /\ DOMAIN t = 1..Len(t) /\ t[j].size \in Nat /\ t[k].size \in Nat
      /\ j \in 1..(Len(t) + 1) /\ j + 1 \in 1..(Len(t) + 1) /\ k \in 1..(Len(t) + 1)
  BY TurnFacts, LenProperties
<1>2. Before(t, r, j) \in Nat /\ Before(t, r, k) \in Nat
  BY <1>1, BeforeType
<1>3. Before(t, r, j + 1) = Before(t, r, j) + t[j].size
  BY BeforeNext
<1>4. k < j + 1 /\ ~ (k < j)
  <2>1. Before(t, r, k) + i <= Before(t, r, j + 1)
    BY <1>1, <1>2, <1>3
  <2>2. ~ (Before(t, r, k) + i <= Before(t, r, j))
    BY <1>1, <1>2
  <2> QED
    BY <1>1, <2>1, <2>2, Where
<1>5. k = j
  BY <1>1, <1>4
<1>6. QED
  BY <1>1, <1>2, <1>5

(* A packed message has the same bytes on the wire whatever the machine    *)
(* that sends it, and is the same message in the machine that unpacks it.  *)
LEMMA Packing ==
    ASSUME turns \in Exchanges, NEW k \in DOMAIN turns, NEW r \in Role,
           NEW b \in Seq(Octet), Len(b) = turns[k].size
    PROVE  Pack(b, k, r) = b /\ Unpack(b, k, r) = b
<1>1. Layout(Len(b), turns[k].numbers)
  BY TurnFacts DEF Layout
<1>2. QED
  BY <1>1, FlipTwice DEF Pack, Unpack, Swap, InMemory

-----------------------------------------------------------------------------
(* There are two, and each is the peer of the other.                       *)
LEMMA Roles ==
    \A r \in Role : /\ Peer(r) \in Role /\ Peer(r) # r /\ Peer(Peer(r)) = r
                    /\ \A q \in Role : q = r \/ q = Peer(r)
  BY DEF Role, Peer

(* Who is not done has a turn to do.                                       *)
LEMMA AtTurn ==
    ASSUME NetType, NEW r \in Role, Place(r), state[r] # "done"
    PROVE  pos[r] \in DOMAIN turns /\ DOMAIN turns = 1..Len(turns) /\ Len(turns) \in Nat
<1>1. turns \in Seq(Turn)
  BY TurnFacts DEF NetType
<1>2. Len(turns) \in Nat /\ DOMAIN turns = 1..Len(turns)
  BY <1>1, LenProperties
<1>3. pos[r] \in 1..(Len(turns) + 1)
  BY DEF NetType
<1>4. pos[r] # Len(turns) + 1
  BY DEF Place
<1>5. QED
  BY <1>2, <1>3, <1>4

(* A step of the other leaves the place of q alone, though the other may   *)
(* be given a message, or take one.                                        *)
LEMMA PlaceKept ==
    ASSUME NetType, NEW q \in Role, Place(q), turns' = turns,
           pos'[q] = pos[q], state'[q] = state[q], buf'[q] = buf[q],
           \A k \in DOMAIN turns :
             /\ told[k] # NoMessage \/ turns[k].from = q => told'[k] = told[k]
             /\ turns[k].from # q => got'[k] = got[k]
    PROVE  Place(q)'
<1>1. state[q] \in {"send", "recv"} => pos[q] \in DOMAIN turns
  BY AtTurn
<1>2. QED
  BY <1>1 DEF Place

(* A step that neither sends nor takes leaves the stream of q alone.       *)
LEMMA StreamKept ==
    ASSUME NetType, NEW q \in Role, Place(q), Stream(q), turns' = turns, up' = up,
           pos'[q] = pos[q], state'[q] = state[q], buf'[q] = buf[q], wire'[q] = wire[q],
           Taken(q)' = Taken(q),
           state'[Peer(q)] # "failed" => state[Peer(q)] # "failed",
           \A k \in DOMAIN turns : turns[k].from = q => told'[k] = told[k]
    PROVE  Stream(q)'
<1>1. Out(q)' = Out(q)
  BY DEF Out
<1>2. QED
  BY <1>1 DEF Stream

(* A recv of n bytes moves them from the wire to those that are taken, and *)
(* leaves the rest at its offsets.                                         *)
LEMMA StreamTaken ==
    ASSUME NetType, NEW q \in Role, Place(q), Stream(q), turns' = turns, up' = up,
           pos'[q] = pos[q], state'[q] = state[q], buf'[q] = buf[q], told' = told,
           NEW n \in 1..Len(wire[q]), wire'[q] = SubSeq(wire[q], n + 1, Len(wire[q])),
           Taken(q) \in Nat, Taken(q)' = Taken(q) + n,
           state[Peer(q)] # "failed"
    PROVE  Stream(q)'
<1>1. /\ wire'[q] \in Seq(Octet) /\ Len(wire[q]) \in Nat
      /\ Len(wire'[q]) = Len(wire[q]) - n
      /\ \A x \in 1..Len(wire'[q]) : wire'[q][x] = wire[q][x + n]
  <2>1. wire[q] \in Seq(Octet)
    BY DEF NetType
  <2>2. Len(wire[q]) \in Nat /\ \A i \in 1..Len(wire[q]) : wire[q][i] \in Octet
    BY <2>1, LenProperties, ElementOfSeq
  <2>3. /\ SubSeq(wire[q], n + 1, Len(wire[q])) \in Seq(Octet)
        /\ Len(SubSeq(wire[q], n + 1, Len(wire[q])))
             = IF n + 1 <= Len(wire[q]) THEN Len(wire[q]) - (n + 1) + 1 ELSE 0
        /\ \A i \in 1..(Len(wire[q]) - (n + 1) + 1) :
             SubSeq(wire[q], n + 1, Len(wire[q]))[i] = wire[q][n + 1 + i - 1]
    <3>1. \A i \in (n + 1)..Len(wire[q]) : wire[q][i] \in Octet
      BY <2>2
    <3> QED
      BY <2>2, <3>1, SubSeqProperties
  <2> DEFINE w == SubSeq(wire[q], n + 1, Len(wire[q]))
  <2>4. wire'[q] = w
    OBVIOUS
  <2> HIDE DEF w
  <2>5. w \in Seq(Octet)
    BY <2>3 DEF w
  <2>6. Len(w) = Len(wire[q]) - n
    <3>1. Len(w) = IF n + 1 <= Len(wire[q]) THEN Len(wire[q]) - (n + 1) + 1 ELSE 0
      BY <2>3 DEF w
    <3> QED
      BY <2>2, <3>1
  <2>7. ASSUME NEW x \in 1..(Len(wire[q]) - n)
        PROVE  w[x] = wire[q][x + n]
    <3>1. x \in 1..(Len(wire[q]) - (n + 1) + 1) /\ n + 1 + x - 1 = x + n
      BY <2>2
    <3> QED
      BY <2>3, <3>1 DEF w
  <2> QED
    BY <2>2, <2>4, <2>5, <2>6, <2>7
<1>2. Out(q)' = Out(q)
  BY <1>1 DEF Out
<1>3. ASSUME up, NEW k \in DOMAIN turns, NEW i \in 1..turns[k].size,
             NEW x \in 1..Len(wire'[q]), turns[k].from = q,
             Before(turns, q, k) + i = Taken(q)' + x
      PROVE  told[k] # NoMessage /\ wire'[q][x] = told[k][i]
  <2>1. x + n \in 1..Len(wire[q]) /\ wire'[q][x] = wire[q][x + n]
    BY <1>1, SMTT(30)
  <2>2. Before(turns, q, k) + i = Taken(q) + (x + n)
    BY <1>1, <1>3
  <2> QED
    BY <1>3, <2>1, <2>2 DEF Stream
<1>4. QED
  BY <1>2, <1>3 DEF Stream

(* r goes on to the next turn, or ends for good.                           *)
Left(r) ==
    /\ pos[r] \in DOMAIN turns /\ buf'[r] = << >>
    /\ \/ /\ pos'[r] = pos[r] + 1
          /\ state'[r] = IF pos[r] = Len(turns) THEN "done" ELSE "turn"
       \/ /\ pos'[r] = pos[r]
          /\ state'[r] = "failed"

(* That is what Advance and Stop do, and nothing to the other.             *)
LEMMA Leaves ==
    ASSUME NetType, NEW r \in Role, Place(r), state[r] # "done", Advance(r) \/ Stop(r)
    PROVE  /\ Left(r)
           /\ pos' \in [Role -> 1..(Len(turns) + 1)]
           /\ state' \in [Role -> {"turn", "send", "recv", "done", "failed"}]
           /\ buf' \in [Role -> Seq(Octet)]
           /\ \A q \in Role \ {r} :
                pos'[q] = pos[q] /\ state'[q] = state[q] /\ buf'[q] = buf[q]
<1>1. pos[r] \in DOMAIN turns /\ DOMAIN turns = 1..Len(turns) /\ Len(turns) \in Nat
  BY AtTurn
<1>2. << >> \in Seq(Octet)
  BY EmptySeq
<1>3. /\ pos \in [Role -> 1..(Len(turns) + 1)]
      /\ state \in [Role -> {"turn", "send", "recv", "done", "failed"}]
      /\ buf \in [Role -> Seq(Octet)]
  BY DEF NetType
<1>4. CASE Advance(r)
  <2>1. pos[r] + 1 \in 1..(Len(turns) + 1)
    BY <1>1
  <2>2. pos' = [pos EXCEPT ![r] = pos[r] + 1] /\ buf' = [buf EXCEPT ![r] = << >>]
    BY <1>4 DEF Advance
  <2>3. state' = [state EXCEPT ![r] = IF pos[r] = Len(turns) THEN "done" ELSE "turn"]
    BY <1>4 DEF Advance
  <2>4. /\ pos' \in [Role -> 1..(Len(turns) + 1)] /\ pos'[r] = pos[r] + 1
        /\ \A q \in Role \ {r} : pos'[q] = pos[q]
    BY <1>3, <2>1, <2>2
  <2>5. /\ state' \in [Role -> {"turn", "send", "recv", "done", "failed"}]
        /\ state'[r] = IF pos[r] = Len(turns) THEN "done" ELSE "turn"
        /\ \A q \in Role \ {r} : state'[q] = state[q]
    BY <1>3, <2>3
  <2>6. /\ buf' \in [Role -> Seq(Octet)] /\ buf'[r] = << >>
        /\ \A q \in Role \ {r} : buf'[q] = buf[q]
    BY <1>2, <1>3, <2>2
  <2> QED
    BY <1>1, <2>4, <2>5, <2>6 DEF Left
<1>5. CASE Stop(r)
  <2>1. pos' = pos /\ buf' = [buf EXCEPT ![r] = << >>] /\ state' = [state EXCEPT ![r] = "failed"]
    BY <1>5 DEF Stop
  <2> QED
    BY <1>1, <1>2, <1>3, <2>1 DEF Left
<1>6. QED
  BY <1>4, <1>5

(* r keeps its place in order when it goes on or ends.                     *)
LEMMA PlaceLeft ==
    ASSUME NetType, NEW r \in Role, Place(r), Left(r), turns' = turns,
           \A k \in DOMAIN turns :
             /\ turns[k].from = r /\ k # pos[r] => told'[k] = told[k]
             /\ turns[k].from # r => got'[k] = got[k] \/ got'[k] # NoMessage,
           pos'[r] # pos[r] => (turns[pos[r]].from # r => got'[pos[r]] # NoMessage)
    PROVE  Place(r)'
<1>1. DOMAIN turns = 1..Len(turns) /\ Len(turns) \in Nat /\ pos[r] \in DOMAIN turns
  <2>1. turns \in Seq(Turn)
    BY TurnFacts DEF NetType
  <2> QED
    BY <2>1, LenProperties DEF Left
<1>2. state'[r] = "done" <=> pos'[r] = Len(turns) + 1
  BY <1>1 DEF Left, Place
<1>3. \A k \in DOMAIN turns : turns[k].from = r /\ told'[k] # NoMessage =>
         /\ k <= pos'[r]
         /\ k = pos'[r] => state'[r] # "turn"
  BY <1>1 DEF Left, Place
<1>4. \A k \in DOMAIN turns : turns[k].from # r /\ k < pos'[r] => got'[k] # NoMessage
  BY <1>1 DEF Left, Place
<1>5. state'[r] \notin {"send", "recv"} /\ buf'[r] = << >>
  BY DEF Left
<1>6. QED
  BY <1>2, <1>3, <1>4, <1>5 DEF Place

(* A receiver that starts to receive, goes on or ends sends nothing.       *)
LEMMA StreamLeft ==
    ASSUME NetType, NEW r \in Role, Place(r), Stream(r), turns' = turns, up' = up,
           pos[r] \in DOMAIN turns, turns[pos[r]].from # r, state[r] \in {"turn", "recv"},
           \/ Left(r)
           \/ pos'[r] = pos[r] /\ state'[r] = "recv",
           wire'[r] = wire[r], told' = told, Taken(r)' = Taken(r),
           state'[Peer(r)] = state[Peer(r)]
    PROVE  Stream(r)'
<1>1. Out(r)' = Out(r)
  BY DEF Out
<1>2. Before(turns, r, pos[r] + 1) = Before(turns, r, pos[r])
  <2>1. Before(turns, r, pos[r]) \in Nat
    <3>1. pos[r] \in 1..(Len(turns) + 1) /\ turns \in Exchanges
      BY DEF NetType
    <3> QED
      BY <3>1, BeforeType
  <2> QED
    BY <2>1, BeforeNext DEF NetType
<1>3. state'[r] \in {"turn", "recv", "done"} => Out(r)' = Before(turns, r, pos'[r])
       \/ ~ up \/ state[Peer(r)] = "failed"
  BY <1>1, <1>2 DEF Stream, Left
<1>4. \A k \in DOMAIN turns : k < pos[r] => k < pos'[r]
  <2>1. turns \in Seq(Turn)
    BY TurnFacts DEF NetType
  <2>2. DOMAIN turns = 1..Len(turns) /\ Len(turns) \in Nat
    BY <2>1, LenProperties
  <2> QED
    BY <2>2 DEF Left
<1>5. state'[r] # "send"
  BY DEF Left
<1>6. QED
  BY <1>1, <1>3, <1>4, <1>5 DEF Stream

(* The message of this turn is sent to its last byte.                      *)
Whole(r) ==
    up /\ state[Peer(r)] # "failed" => Out(r)' = Before(turns, r, pos[r] + 1)

(* The wire carries the bytes it should: the first part of Stream.         *)
Carried(r) ==
    up /\ state[Peer(r)] # "failed" =>
      \A k \in DOMAIN turns : \A i \in 1..turns[k].size : \A x \in 1..Len(wire[r]) :
        turns[k].from = r /\ Before(turns, r, k) + i = Taken(r) + x =>
          told[k] # NoMessage /\ wire[r][x] = told[k][i]

(* A sender that has sent its whole message may go on, and has to end if   *)
(* the message is one that nobody goes on with.                            *)
LEMMA StreamSent ==
    ASSUME NetType, NEW r \in Role, turns' = turns, up' = up,
           Left(r), turns[pos[r]].from = r, state'[Peer(r)] = state[Peer(r)],
           Carried(r)', Whole(r),
           pos'[r] = pos[r] => told'[pos[r]] \notin turns[pos[r]].accept
    PROVE  Stream(r)'
<1>1. /\ turns \in Exchanges /\ pos[r] \in DOMAIN turns
      /\ DOMAIN turns = 1..Len(turns) /\ Len(turns) \in Nat
  <2>1. turns \in Exchanges /\ pos[r] \in DOMAIN turns
    BY DEF NetType, Left
  <2>2. turns \in Seq(Turn)
    BY <2>1, TurnFacts
  <2> QED
    BY <2>1, <2>2, LenProperties
<1>2. SUFFICES ASSUME up, state[Peer(r)] # "failed"
               PROVE  Stream(r)'
  BY DEF Stream
<1>3. Out(r)' = Before(turns, r, pos[r] + 1)
  BY <1>2 DEF Whole
<1>4. state'[r] # "send" /\ state'[r] # "recv"
  BY DEF Left
<1>5. state'[r] \in {"turn", "recv", "done"} => Out(r)' = Before(turns, r, pos'[r])
  BY <1>3 DEF Left
<1>6. ASSUME NEW k \in DOMAIN turns, turns[k].from = r, turns[k].size > 0,
             told'[k] \in turns[k].accept, Before(turns, r, k + 1) <= Out(r)'
      PROVE  k < pos'[r]
  <2>1. turns[k].size \in Nat
    BY <1>1, TurnFacts
  <2>2. Before(turns, r, k + 1) = Before(turns, r, k) + turns[k].size
    BY <1>1, <1>6, BeforeNext
  <2>3. turns[k].size \in 1..turns[k].size /\ pos[r] + 1 \in 1..(Len(turns) + 1)
    BY <1>1, <1>6, <2>1
  <2>4. k < pos[r] + 1
    BY <1>1, <1>3, <1>6, <2>2, <2>3, Where
  <2>5. CASE pos'[r] = pos[r]
    BY <1>1, <1>6, <2>4, <2>5
  <2>6. CASE pos'[r] = pos[r] + 1
    BY <2>4, <2>6
  <2> QED
    BY <2>5, <2>6 DEF Left
<1>7. QED
  BY <1>2, <1>4, <1>5, <1>6 DEF Stream, Carried

(* The invariant, of r and its peer.                                       *)
LEMMA Facts ==
    ASSUME NetInv, NEW r \in Role
    PROVE  /\ NetType /\ Place(r) /\ Stream(r) /\ Arrived
           /\ Place(Peer(r)) /\ Stream(Peer(r)) /\ Peer(r) \in Role
           /\ turns \in Exchanges /\ turns \in Seq(Turn)
           /\ DOMAIN turns = 1..Len(turns) /\ Len(turns) \in Nat
<1>1. NetType /\ Place(r) /\ Stream(r) /\ Arrived /\ Peer(r) \in Role
  BY Roles DEF NetInv
<1>2. Place(Peer(r)) /\ Stream(Peer(r))
  BY <1>1 DEF NetInv
<1>3. turns \in Exchanges
  BY <1>1 DEF NetType
<1>4. turns \in Seq(Turn)
  BY <1>3, TurnFacts
<1>5. QED
  BY <1>1, <1>2, <1>3, <1>4, LenProperties

(* What is taken of r's stream depends on where its peer is.               *)
LEMMA TakenSame ==
    ASSUME NEW r \in Role, turns' = turns, pos'[Peer(r)] = pos[Peer(r)],
           state'[Peer(r)] = state[Peer(r)], buf'[Peer(r)] = buf[Peer(r)]
    PROVE  Taken(r)' = Taken(r)
  BY DEF Taken

(* What r has taken of its peer's stream does not change when it has sent  *)
(* a message of its own.                                                   *)
LEMMA TakenKept ==
    ASSUME NetInv, NEW r \in Role, turns' = turns, Left(r),
           state[r] # "recv", turns[pos[r]].from = r
    PROVE  Taken(Peer(r))' = Taken(Peer(r))
<1>1. Peer(Peer(r)) = r /\ Peer(r) # r /\ Peer(r) \in Role
  BY Roles
<1>2. Before(turns, Peer(r), pos[r] + 1) = Before(turns, Peer(r), pos[r])
  <2>1. turns \in Exchanges /\ pos[r] \in 1..(Len(turns) + 1)
    BY Facts DEF NetType
  <2>2. Before(turns, Peer(r), pos[r]) \in Nat
    BY <1>1, <2>1, BeforeType
  <2> QED
    BY <1>1, <2>1, <2>2, BeforeNext DEF Left
<1>3. QED
  BY <1>1, <1>2 DEF Taken, Left

-----------------------------------------------------------------------------
(* BeginSend keeps the invariant: what is packed is the message, and no    *)
(* byte of it is sent yet.                                                 *)
LEMMA BeginSendStep ==
    ASSUME NetInv, NEW r \in Role, BeginSend(r)
    PROVE  NetInv'
<1> DEFINE p == Peer(r)
<1>1. /\ NetType /\ Place(r) /\ Stream(r) /\ Arrived /\ Place(p) /\ Stream(p)
      /\ p \in Role /\ p # r /\ Peer(p) = r /\ \A q \in Role : q = r \/ q = p
      /\ turns \in Exchanges /\ DOMAIN turns = 1..Len(turns) /\ Len(turns) \in Nat
  BY Facts, Roles
<1>2. state[r] = "turn" /\ turns[pos[r]].from = r /\ buf[r] = << >>
  BY <1>1 DEF BeginSend, Place
<1>3. pos[r] \in DOMAIN turns /\ told[pos[r]] = NoMessage
  <2>1. pos[r] \in DOMAIN turns
    BY <1>1, <1>2, AtTurn
  <2> QED
    BY <1>1, <1>2, <2>1 DEF Place
<1>4. PICK m \in turns[pos[r]].options :
        /\ told' = [told EXCEPT ![pos[r]] = m]
        /\ IF turns[pos[r]].size = 0
             THEN Sent(r, m)
             ELSE /\ buf'   = [buf EXCEPT ![r] = Pack(m, pos[r], r)]
                  /\ state' = [state EXCEPT ![r] = "send"]
                  /\ UNCHANGED pos
  BY DEF BeginSend
<1>5. turns' = turns /\ little' = little /\ up' = up /\ wire' = wire /\ got' = got
  BY DEF BeginSend, fixed
<1>6. m \in Seq(Octet) /\ Len(m) = turns[pos[r]].size /\ m # NoMessage
  BY <1>1, <1>3, TurnFacts, MessageAssumption
<1>7. /\ DOMAIN told' = DOMAIN turns /\ told'[pos[r]] = m
      /\ \A k \in DOMAIN turns : k # pos[r] => told'[k] = told[k]
  BY <1>1, <1>3, <1>4 DEF NetType
<1>8. \A k \in DOMAIN turns : told[k] # NoMessage \/ turns[k].from = p => told'[k] = told[k]
  BY <1>1, <1>2, <1>3, <1>7
<1>9. ASSUME /\ pos' \in [Role -> 1..(Len(turns) + 1)]
             /\ state' \in [Role -> {"turn", "send", "recv", "done", "failed"}]
             /\ buf' \in [Role -> Seq(Octet)]
      PROVE  NetType'
  <2>1. \A k \in DOMAIN turns : /\ told'[k] \in turns[k].options \cup {NoMessage}
                                /\ got'[k] \in Seq(Octet) \cup {NoMessage}
    BY <1>1, <1>3, <1>5, <1>7 DEF NetType
  <2> QED
    BY <1>1, <1>5, <1>7, <1>9, <2>1 DEF NetType
<1>10. ASSUME state'[p] = state[p]
       PROVE  Arrived'
  <2>1. \A k \in DOMAIN turns : got'[k] # NoMessage /\ turns[k].size > 0 =>
          told'[k] # NoMessage /\ got'[k] = told'[k]
    BY <1>1, <1>5, <1>8 DEF Arrived
  <2>2. ASSUME NEW q \in Role, state'[q] = "done", turns[Len(turns)].from # q,
               Len(turns) \in DOMAIN turns, turns[Len(turns)].size > 0
        PROVE  state'[Peer(q)] = "done"
    <3>1. CASE q = p
      BY <1>1, <1>2, <1>10, <2>2, <3>1 DEF Arrived
    <3>2. CASE q = r
      <4>1. pos[r] = Len(turns)
        <5>1. turns[pos[r]].size # 0 => state'[r] = "send"
          BY <1>1, <1>4 DEF NetType
        <5>2. state'[r] = IF pos[r] = Len(turns) THEN "done" ELSE "turn"
          BY <1>1, <1>4, <2>2, <3>2, <5>1 DEF Sent, Advance, Stop, NetType
        <5> QED
          BY <2>2, <3>2, <5>2
      <4> QED
        BY <1>2, <2>2, <3>2, <4>1
    <3> QED
      BY <1>1, <3>1, <3>2
  <2> QED
    BY <1>5, <2>1, <2>2 DEF Arrived
<1>11. CASE turns[pos[r]].size = 0
  <2>1. Sent(r, m)
    BY <1>4, <1>11
  <2>2. Advance(r) \/ Stop(r)
    BY <2>1 DEF Sent
  <2>3. /\ Left(r)
        /\ pos' \in [Role -> 1..(Len(turns) + 1)]
        /\ state' \in [Role -> {"turn", "send", "recv", "done", "failed"}]
        /\ buf' \in [Role -> Seq(Octet)]
        /\ pos'[p] = pos[p] /\ state'[p] = state[p] /\ buf'[p] = buf[p]
    BY <1>1, <1>2, <2>2, Leaves
  <2>4. Place(p)'
    BY <1>1, <1>5, <1>8, <2>3, PlaceKept
  <2>5. Place(r)'
    BY <1>1, <1>2, <1>5, <1>7, <2>3, PlaceLeft
  <2>6. Taken(p)' = Taken(p)
    BY <1>1, <1>2, <1>5, <2>3, TakenKept
  <2>7. Stream(p)'
    BY <1>1, <1>2, <1>5, <1>8, <2>3, <2>6, StreamKept
  <2>8. Taken(r)' = Taken(r) /\ Out(r)' = Out(r)
    BY <1>1, <1>5, <2>3, TakenSame DEF Out
  <2>9. Whole(r)
    <3>1. Before(turns, r, pos[r]) \in Nat
      BY <1>1, BeforeType DEF NetType
    <3>2. Before(turns, r, pos[r] + 1) = Before(turns, r, pos[r])
      BY <1>1, <1>2, <1>3, <1>11, <3>1, BeforeNext
    <3> QED
      BY <1>1, <1>2, <2>8, <3>2 DEF Whole, Stream
  <2>10. Carried(r)'
    BY <1>1, <1>5, <1>8, <2>3, <2>8, SMTT(30) DEF Carried, Stream
  <2>11. pos'[r] = pos[r] => told'[pos[r]] \notin turns[pos[r]].accept
    BY <1>1, <1>3, <1>7, <2>1 DEF Sent, Advance, NetType
  <2>12. Stream(r)'
    BY <1>1, <1>2, <1>5, <2>3, <2>9, <2>10, <2>11, StreamSent
  <2> QED
    BY <1>1, <1>9, <1>10, <2>3, <2>4, <2>5, <2>7, <2>12 DEF NetInv
<1>12. CASE turns[pos[r]].size # 0
  <2>1. /\ pos' = pos /\ buf'[r] = m /\ state'[r] = "send"
        /\ state' \in [Role -> {"turn", "send", "recv", "done", "failed"}]
        /\ buf' \in [Role -> Seq(Octet)]
        /\ state'[p] = state[p] /\ buf'[p] = buf[p]
    <3>1. buf' = [buf EXCEPT ![r] = m]
      BY <1>1, <1>3, <1>4, <1>6, <1>12, Packing
    <3>2. state' = [state EXCEPT ![r] = "send"] /\ pos' = pos
      BY <1>4, <1>12
    <3> QED
      BY <1>1, <1>6, <3>1, <3>2 DEF NetType
  <2>2. Place(p)'
    BY <1>1, <1>5, <1>8, <2>1, PlaceKept
  <2>3. Place(r)'
    <3>1. Len(m) \in Nat
      BY <1>6, LenProperties
    <3>2. Len(m) \in 1..turns[pos[r]].size
      BY <1>6, <1>12, <3>1
    <3>3. \A x \in 1..Len(m) : m[x] = m[turns[pos[r]].size - Len(m) + x]
      BY <1>6, <3>1
    <3>4. /\ pos'[r] = pos[r] /\ turns' = turns /\ buf'[r] = m /\ state'[r] = "send"
          /\ turns[pos[r]].from = r /\ told'[pos[r]] = m /\ m # NoMessage
          /\ pos[r] # Len(turns) + 1
      BY <1>1, <1>2, <1>3, <1>5, <1>6, <1>7, <2>1
    <3>5. /\ Len(buf'[r]) \in 1..turns'[pos'[r]].size
          /\ \A x \in 1..Len(buf'[r]) :
               buf'[r][x] = told'[pos'[r]][turns'[pos'[r]].size - Len(buf'[r]) + x]
      BY <3>2, <3>3, <3>4
    <3>6. /\ state'[r] # "turn" /\ state'[r] # "done" /\ state'[r] # "recv"
          /\ pos'[r] # Len(turns') + 1
          /\ turns'[pos'[r]].from = r /\ told'[pos'[r]] # NoMessage
      BY <3>4
    <3>7. /\ \A k \in DOMAIN turns' : turns'[k].from = r /\ told'[k] # NoMessage => k <= pos'[r]
          /\ \A k \in DOMAIN turns' : turns'[k].from # r /\ k < pos'[r] => got'[k] # NoMessage
      <4>1. pos'[r] \in Nat
        BY <1>1, <1>3, <3>4
      <4> QED
        BY <1>1, <1>5, <1>7, <3>4, <4>1 DEF Place
    <3> QED
      BY <3>5, <3>6, <3>7, Zenon DEF Place
  <2>4. Taken(p)' = Taken(p) /\ Taken(r)' = Taken(r) /\ Out(r)' = Out(r)
    BY <1>1, <1>2, <1>5, <2>1 DEF Taken, Out
  <2>5. Stream(p)'
    BY <1>1, <1>2, <1>5, <1>8, <2>1, <2>4, StreamKept
  <2>6. Stream(r)'
    <3>1. SUFFICES ASSUME up, state[p] # "failed"
                   PROVE  Stream(r)'
      BY <1>5, <2>1 DEF Stream
    <3>2. Out(r) = Before(turns, r, pos[r]) /\ Out(r) \in Nat
      <4>1. Before(turns, r, pos[r]) \in Nat
        BY <1>1, BeforeType DEF NetType
      <4> QED
        BY <1>1, <1>2, <3>1, <4>1 DEF Stream
    <3>3. \A k \in DOMAIN turns : \A i \in 1..turns[k].size : \A x \in 1..Len(wire[r]) :
             turns[k].from = r /\ Before(turns, r, k) + i = Taken(r) + x =>
               told'[k] # NoMessage /\ wire[r][x] = told'[k][i]
      BY <1>1, <1>8, <3>1 DEF Stream
    <3>4. Out(r) = Before(turns, r, pos[r]) + turns[pos[r]].size - Len(m)
      <4>1. Len(m) \in Nat
        BY <1>6, LenProperties
      <4> QED
        BY <1>6, <3>2, <4>1
    <3>5. ASSUME NEW k \in DOMAIN turns, turns[k].from = r, turns[k].size > 0,
                 told'[k] \in turns[k].accept, Before(turns, r, k + 1) <= Out(r)
          PROVE  k < pos[r]
      <4>1. CASE k # pos[r]
        BY <1>1, <1>7, <3>1, <3>5, <4>1 DEF Stream
      <4>2. CASE k = pos[r]
        <5>1. turns[k].size \in Nat
          BY <1>1, TurnFacts
        <5> QED
          BY <1>1, <3>2, <3>5, <4>2, <5>1, BeforeNext
      <4> QED
        BY <4>1, <4>2
    <3> QED
      BY <1>5, <2>1, <2>4, <3>3, <3>4, <3>5 DEF Stream
  <2> QED
    BY <1>1, <1>9, <1>10, <2>1, <2>2, <2>3, <2>5, <2>6 DEF NetType, NetInv
<1>13. QED
  BY <1>11, <1>12

(* Bytes 1..n of the buffer go behind those on the wire.                   *)
Grows(r, n) ==
    /\ wire'[r] \in Seq(Octet)
    /\ Len(wire'[r]) = Len(wire[r]) + n
    /\ \A x \in 1..Len(wire[r]) : wire'[r][x] = wire[r][x]
    /\ \A y \in 1..n : wire'[r][Len(wire[r]) + y] = buf[r][y]

(* That is what send does with the n bytes it takes.                       *)
LEMMA WireGrows ==
    ASSUME NetType, NEW r \in Role, NEW n \in 1..Len(buf[r]),
           wire'[r] = wire[r] \o SubSeq(buf[r], 1, n)
    PROVE  Grows(r, n)
<1>1. wire[r] \in Seq(Octet) /\ buf[r] \in Seq(Octet)
  BY DEF NetType
<1>2. /\ Len(wire[r]) \in Nat /\ Len(buf[r]) \in Nat
      /\ \A i \in 1..Len(buf[r]) : buf[r][i] \in Octet
  BY <1>1, LenProperties, ElementOfSeq
<1> DEFINE b == SubSeq(buf[r], 1, n)
<1>3. b \in Seq(Octet) /\ Len(b) = n /\ \A y \in 1..n : b[y] = buf[r][y]
  <2>1. \A i \in 1..n : buf[r][i] \in Octet
    BY <1>2
  <2>2. /\ b \in Seq(Octet) /\ Len(b) = IF 1 <= n THEN n - 1 + 1 ELSE 0
        /\ \A i \in 1..(n - 1 + 1) : b[i] = buf[r][1 + i - 1]
    BY <1>2, <2>1, SubSeqProperties
  <2> HIDE DEF b
  <2> QED
    BY <1>2, <2>2
<1>4. wire'[r] = wire[r] \o b
  OBVIOUS
<1> HIDE DEF b
<1>5. /\ wire'[r] \in Seq(Octet) /\ Len(wire'[r]) = Len(wire[r]) + n
      /\ \A x \in 1..(Len(wire[r]) + n) :
           wire'[r][x] = IF x <= Len(wire[r]) THEN wire[r][x] ELSE b[x - Len(wire[r])]
  BY <1>1, <1>3, <1>4, ConcatProperties
<1>6. \A x \in 1..Len(wire[r]) : wire'[r][x] = wire[r][x]
  BY <1>2, <1>5
<1>7. ASSUME NEW y \in 1..n
      PROVE  wire'[r][Len(wire[r]) + y] = buf[r][y]
  <2>1. /\ Len(wire[r]) + y \in 1..(Len(wire[r]) + n) /\ ~ (Len(wire[r]) + y <= Len(wire[r]))
        /\ Len(wire[r]) + y - Len(wire[r]) = y
    BY <1>2
  <2> QED
    BY <1>3, <1>5, <2>1
<1>8. QED
  BY <1>5, <1>6, <1>7 DEF Grows

(* They are the bytes of r's message at the offsets that come next.        *)
LEMMA Appended ==
    ASSUME NetInv, NEW r \in Role, state[r] = "send", NEW n \in 1..Len(buf[r]), Grows(r, n),
           turns' = turns, up' = up, told' = told, Taken(r)' = Taken(r),
           state'[Peer(r)] = state[Peer(r)]
    PROVE  /\ Carried(r)'
           /\ up /\ state[Peer(r)] # "failed" =>
                Out(r)' = Before(turns, r, pos[r]) + turns[pos[r]].size - (Len(buf[r]) - n)
<1>1. /\ NetType /\ Place(r) /\ Stream(r) /\ turns \in Exchanges
      /\ DOMAIN turns = 1..Len(turns) /\ Len(turns) \in Nat
  BY Facts
<1>2. pos[r] \in DOMAIN turns /\ turns[pos[r]].from = r /\ turns[pos[r]].size \in Nat
  <2>1. pos[r] \in DOMAIN turns
    BY <1>1, AtTurn
  <2> QED
    BY <1>1, <2>1, TurnFacts DEF Place
<1>3. Len(wire[r]) \in Nat /\ Len(buf[r]) \in Nat
  <2>1. wire[r] \in Seq(Octet) /\ buf[r] \in Seq(Octet)
    BY <1>1 DEF NetType
  <2> QED
    BY <2>1, LenProperties
<1>4. Before(turns, r, pos[r]) \in Nat /\ Taken(r) \in Nat
  <2>1. pos[r] \in 1..(Len(turns) + 1) /\ pos[Peer(r)] \in 1..(Len(turns) + 1)
    BY <1>1, Roles DEF NetType
  <2>2. Len(buf[Peer(r)]) \in Nat
    <3>1. buf[Peer(r)] \in Seq(Octet)
      BY <1>1, Roles DEF NetType
    <3> QED
      BY <3>1, LenProperties
  <2>3. Before(turns, r, pos[r]) \in Nat /\ Before(turns, r, pos[Peer(r)]) \in Nat
    BY <1>1, <2>1, BeforeType
  <2> QED
    BY <2>2, <2>3 DEF Taken
<1>5. PICK T \in Nat, W \in Nat, B \in Nat, S \in Nat, L \in Nat :
        /\ T = Taken(r) /\ W = Len(wire[r]) /\ L = Len(buf[r])
        /\ B = Before(turns, r, pos[r]) /\ S = turns[pos[r]].size
  BY <1>2, <1>3, <1>4
<1>6. up /\ state[Peer(r)] # "failed" => T + W = B + S - L
  BY <1>1, <1>5 DEF Stream, Out
<1>7. n \in Nat
  BY <1>3
<1>8. up /\ state[Peer(r)] # "failed" =>
         Out(r)' = Before(turns, r, pos[r]) + turns[pos[r]].size - (Len(buf[r]) - n)
  <2>1. Out(r)' = T + (W + n)
    BY <1>5 DEF Out, Grows
  <2>2. T + W = B + S - L => T + (W + n) = B + S - (L - n)
    BY <1>7
  <2> QED
    BY <1>5, <1>6, <2>1, <2>2
<1>9. ASSUME up, state[Peer(r)] # "failed",
             NEW k \in DOMAIN turns, NEW i \in 1..turns[k].size, turns[k].from = r,
             NEW x \in 1..Len(wire'[r]), Before(turns, r, k) + i = Taken(r) + x
      PROVE  told[k] # NoMessage /\ wire'[r][x] = told[k][i]
  <2>1. CASE x \in 1..Len(wire[r])
    BY <1>1, <1>9, <2>1 DEF Stream, Grows
  <2>2. CASE x \notin 1..Len(wire[r])
    <3>1. PICK y \in 1..n : x = Len(wire[r]) + y
      <4>1. x \in 1..(Len(wire[r]) + n)
        BY <1>9 DEF Grows
      <4>2. x - Len(wire[r]) \in 1..n /\ x = Len(wire[r]) + (x - Len(wire[r]))
        BY <1>3, <2>2, <4>1
      <4> QED
        BY <4>2
    <3>2. y \in 1..Len(buf[r]) /\ Len(buf[r]) \in 1..turns[pos[r]].size
      BY <1>1, <1>3 DEF Place
    <3>3. y \in Nat
      BY <1>7
    <3> DEFINE z == S - L + y
    <3>4. z \in 1..turns[pos[r]].size
      <4>1. 1 <= y /\ y <= L /\ L <= S
        BY <1>5, <3>2
      <4>2. z \in 1..S
        BY <3>3, <4>1
      <4> QED
        BY <1>5, <4>2
    <3>5. Before(turns, r, k) + i = Before(turns, r, pos[r]) + z
      <4>1. T + W = B + S - L => T + (W + y) = B + (S - L + y)
        BY <3>3
      <4>2. Before(turns, r, k) + i = T + (W + y)
        BY <1>5, <1>9, <3>1
      <4> QED
        BY <1>5, <1>6, <1>9, <4>1, <4>2
    <3>6. k = pos[r] /\ i = z
      <4> HIDE DEF z
      <4> QED
        BY <1>1, <1>2, <1>9, <3>4, <3>5, OnePlace
    <3>7. told[pos[r]] # NoMessage /\ buf[r][y] = told[pos[r]][z]
      BY <1>1, <1>5, <3>2 DEF Place
    <3> HIDE DEF z
    <3> QED
      BY <3>1, <3>6, <3>7 DEF Grows
  <2> QED
    BY <2>1, <2>2
<1>10. Carried(r)'
  BY <1>9 DEF Carried
<1>11. QED
  BY <1>8, <1>10

(* Send keeps the invariant, whether send took the rest or a part.         *)
LEMMA SendStep ==
    ASSUME NetInv, NEW r \in Role, Send(r)
    PROVE  NetInv'
<1> DEFINE p == Peer(r)
<1>1. /\ NetType /\ Place(r) /\ Stream(r) /\ Arrived /\ Place(p) /\ Stream(p)
      /\ p \in Role /\ p # r /\ Peer(p) = r /\ \A q \in Role : q = r \/ q = p
      /\ turns \in Exchanges /\ DOMAIN turns = 1..Len(turns) /\ Len(turns) \in Nat
  BY Facts, Roles
<1>2. state[r] = "send" /\ turns[pos[r]].from = r /\ up
  BY <1>1 DEF Send, Place
<1>3. pos[r] \in DOMAIN turns
  BY <1>1, <1>2, AtTurn
<1>4. PICK n \in 1..Len(buf[r]) :
         /\ wire' = [wire EXCEPT ![r] = @ \o SubSeq(buf[r], 1, n)]
         /\ IF n = Len(buf[r])
              THEN Sent(r, told[pos[r]])
              ELSE /\ buf' = [buf EXCEPT ![r] = SubSeq(@, n + 1, Len(@))]
                   /\ UNCHANGED <<pos, state>>
  BY DEF Send
<1>5. turns' = turns /\ little' = little /\ up' = up /\ told' = told /\ got' = got
  BY DEF Send, fixed
<1>6. Grows(r, n) /\ wire'[r] \in Seq(Octet) /\ wire'[p] = wire[p]
  <2>1. wire'[r] = wire[r] \o SubSeq(buf[r], 1, n) /\ wire'[p] = wire[p]
    BY <1>1, <1>4 DEF NetType
  <2> QED
    BY <1>1, <2>1, WireGrows DEF Grows
<1>7. ASSUME /\ pos' \in [Role -> 1..(Len(turns) + 1)]
             /\ state' \in [Role -> {"turn", "send", "recv", "done", "failed"}]
             /\ buf' \in [Role -> Seq(Octet)]
      PROVE  NetType'
  <2>1. wire' \in [Role -> Seq(Octet)]
    BY <1>1, <1>4, <1>6, <1>7 DEF NetType
  <2> QED
    BY <1>1, <1>2, <1>5, <1>7, <2>1 DEF NetType
<1>8. Len(buf[r]) \in Nat /\ Len(buf[r]) \in 1..turns[pos[r]].size /\ turns[pos[r]].size \in Nat
  <2>1. buf[r] \in Seq(Octet)
    BY <1>1 DEF NetType
  <2> QED
    BY <1>1, <1>2, <1>3, <2>1, LenProperties, TurnFacts DEF Place
<1>9. CASE n = Len(buf[r])
  <2>1. Sent(r, told[pos[r]])
    BY <1>4, <1>9
  <2>2. Advance(r) \/ Stop(r)
    BY <2>1 DEF Sent
  <2>3. /\ Left(r)
        /\ pos' \in [Role -> 1..(Len(turns) + 1)]
        /\ state' \in [Role -> {"turn", "send", "recv", "done", "failed"}]
        /\ buf' \in [Role -> Seq(Octet)]
        /\ pos'[p] = pos[p] /\ state'[p] = state[p] /\ buf'[p] = buf[p]
    BY <1>1, <1>2, <2>2, Leaves
  <2>4. Place(p)'
    BY <1>1, <1>5, <2>3, PlaceKept
  <2>5. Place(r)'
    BY <1>1, <1>2, <1>5, <2>3, PlaceLeft
  <2>6. Taken(p)' = Taken(p)
    BY <1>1, <1>2, <1>5, <2>3, TakenKept
  <2>7. Stream(p)'
    BY <1>1, <1>2, <1>5, <1>6, <2>3, <2>6, StreamKept
  <2>8. Taken(r)' = Taken(r)
    BY <1>1, <1>5, <2>3, TakenSame
  <2>9. /\ Carried(r)'
        /\ up /\ state[p] # "failed" =>
             Out(r)' = Before(turns, r, pos[r]) + turns[pos[r]].size - (Len(buf[r]) - n)
    BY <1>2, <1>5, <1>6, <2>3, <2>8, Appended
  <2>10. Whole(r)
    <3>1. Before(turns, r, pos[r]) \in Nat
      BY <1>1, BeforeType DEF NetType
    <3>2. Before(turns, r, pos[r] + 1) = Before(turns, r, pos[r]) + turns[pos[r]].size
      BY <1>1, <1>2, <1>3, BeforeNext
    <3> QED
      BY <1>8, <1>9, <2>9, <3>1, <3>2 DEF Whole
  <2>11. pos'[r] = pos[r] => told'[pos[r]] \notin turns[pos[r]].accept
    BY <1>1, <1>3, <1>5, <2>1 DEF Sent, Advance, NetType
  <2>12. Stream(r)'
    BY <1>1, <1>2, <1>5, <2>3, <2>9, <2>10, <2>11, StreamSent
  <2>13. Arrived'
    <3>1. state'[r] = "done" => pos[r] = Len(turns)
      BY <2>3 DEF Left
    <3>2. ASSUME NEW q \in Role, state'[q] = "done", turns[Len(turns)].from # q,
                 Len(turns) \in DOMAIN turns, turns[Len(turns)].size > 0
          PROVE  state'[Peer(q)] = "done"
      <4>1. q # r
        BY <1>2, <3>1, <3>2
      <4> QED
        BY <1>1, <1>2, <2>3, <3>2, <4>1 DEF Arrived
    <3> QED
      BY <1>1, <1>5, <3>2 DEF Arrived
  <2> QED
    BY <1>1, <1>7, <2>3, <2>4, <2>5, <2>7, <2>9, <2>12, <2>13 DEF NetInv
<1>10. CASE n # Len(buf[r])
  <2> DEFINE w == SubSeq(buf[r], n + 1, Len(buf[r]))
  <2>1. pos' = pos /\ state' = state /\ buf' = [buf EXCEPT ![r] = w]
    BY <1>4, <1>10
  <2>2. /\ w \in Seq(Octet) /\ Len(w) = Len(buf[r]) - n
        /\ \A x \in 1..Len(w) : w[x] = buf[r][n + x]
    <3>1. \A i \in (n + 1)..Len(buf[r]) : buf[r][i] \in Octet
      <4>1. buf[r] \in Seq(Octet)
        BY <1>1 DEF NetType
      <4> QED
        BY <1>8, <4>1, ElementOfSeq
    <3>2. /\ w \in Seq(Octet)
          /\ Len(w) = IF n + 1 <= Len(buf[r]) THEN Len(buf[r]) - (n + 1) + 1 ELSE 0
          /\ \A i \in 1..(Len(buf[r]) - (n + 1) + 1) : w[i] = buf[r][n + 1 + i - 1]
      BY <1>8, <3>1, SubSeqProperties
    <3> HIDE DEF w
    <3>3. Len(w) = Len(buf[r]) - n
      BY <1>8, <1>10, <3>2
    <3>4. ASSUME NEW x \in 1..(Len(buf[r]) - n)
          PROVE  w[x] = buf[r][n + x]
      <4>1. x \in 1..(Len(buf[r]) - (n + 1) + 1) /\ n + 1 + x - 1 = n + x
        BY <1>8
      <4> QED
        BY <3>2, <4>1
    <3> QED
      BY <3>2, <3>3, <3>4
  <2> HIDE DEF w
  <2>3. buf'[r] = w /\ buf'[p] = buf[p] /\ buf' \in [Role -> Seq(Octet)]
    BY <1>1, <2>1, <2>2 DEF NetType
  <2>4. Taken(p)' = Taken(p) /\ Taken(r)' = Taken(r)
    BY <1>1, <1>2, <1>5, <2>1, <2>3 DEF Taken
  <2>5. /\ Carried(r)'
        /\ up /\ state[p] # "failed" =>
             Out(r)' = Before(turns, r, pos[r]) + turns[pos[r]].size - (Len(buf[r]) - n)
    BY <1>2, <1>5, <1>6, <2>1, <2>4, Appended
  <2>6. Place(p)'
    BY <1>1, <1>5, <2>1, <2>3, PlaceKept
  <2>7. Place(r)'
    <3>1. Len(w) \in 1..turns[pos[r]].size
      BY <1>8, <1>10, <2>2
    <3>2. ASSUME NEW x \in 1..Len(w)
          PROVE  w[x] = told[pos[r]][turns[pos[r]].size - Len(w) + x]
      <4>1. n + x \in 1..Len(buf[r])
        BY <1>8, <2>2
      <4>2. turns[pos[r]].size - Len(w) + x = turns[pos[r]].size - Len(buf[r]) + (n + x)
        BY <1>8, <2>2
      <4> QED
        BY <1>1, <1>2, <2>2, <4>1, <4>2 DEF Place
    <3> QED
      BY <1>1, <1>2, <1>5, <2>1, <2>3, <3>1, <3>2 DEF Place
  <2>8. Stream(p)'
    BY <1>1, <1>2, <1>5, <1>6, <2>1, <2>3, <2>4, StreamKept
  <2>9. Stream(r)'
    <3>1. SUFFICES ASSUME state[p] # "failed"
                   PROVE  Stream(r)'
      BY <2>1 DEF Stream
    <3>2. Out(r)' = Before(turns, r, pos[r]) + turns[pos[r]].size - Len(w)
      BY <1>2, <2>2, <2>5, <3>1
    <3>3. ASSUME NEW k \in DOMAIN turns, turns[k].from = r, turns[k].size > 0,
                 told[k] \in turns[k].accept, Before(turns, r, k + 1) <= Out(r)'
          PROVE  k < pos[r]
      <4>1. turns[k].size \in Nat /\ Before(turns, r, pos[r]) \in Nat
        <5>1. pos[r] \in 1..(Len(turns) + 1)
          BY <1>1 DEF NetType
        <5> QED
          BY <1>1, <5>1, TurnFacts, BeforeType
      <4>2. /\ Before(turns, r, k + 1) = Before(turns, r, k) + turns[k].size
            /\ Before(turns, r, pos[r] + 1) = Before(turns, r, pos[r]) + turns[pos[r]].size
        BY <1>1, <1>2, <1>3, <3>3, BeforeNext
      <4>3. Len(w) \in Nat /\ Len(w) > 0
        BY <1>8, <1>10, <2>2
      <4>4. Before(turns, r, k + 1) < Before(turns, r, pos[r] + 1)
        <5>1. Before(turns, r, k + 1) \in Nat
          <6>1. k + 1 \in 1..(Len(turns) + 1)
            BY <1>1
          <6> QED
            BY <1>1, <6>1, BeforeType
        <5> QED
          BY <1>8, <3>2, <3>3, <4>1, <4>2, <4>3, <5>1
      <4>5. k < pos[r] + 1
        <5>1. turns[k].size \in 1..turns[k].size /\ pos[r] + 1 \in 1..(Len(turns) + 1)
          BY <1>1, <1>3, <3>3, <4>1
        <5>2. Before(turns, r, k) + turns[k].size <= Before(turns, r, pos[r] + 1)
          <6>1. k \in 1..(Len(turns) + 1)
            BY <1>1
          <6>2. Before(turns, r, k) \in Nat
            BY <1>1, <6>1, BeforeType
          <6> QED
            BY <1>8, <4>1, <4>2, <4>4, <6>2
        <5> QED
          BY <1>1, <3>3, <5>1, <5>2, Where
      <4>6. k # pos[r]
        BY <4>4, <1>8, <4>1, <4>2
      <4> QED
        BY <1>1, <1>3, <4>5, <4>6
    <3> QED
      BY <1>2, <1>5, <2>1, <2>3, <2>5, <3>1, <3>2, <3>3 DEF Stream, Carried
  <2>10. Arrived'
    BY <1>1, <1>5, <2>1 DEF Arrived
  <2>11. pos' \in [Role -> 1..(Len(turns) + 1)]
         /\ state' \in [Role -> {"turn", "send", "recv", "done", "failed"}]
    BY <1>1, <2>1 DEF NetType
  <2>12. NetType'
    BY <1>7, <2>3, <2>5, <2>11
  <2> QED
    BY <1>1, <2>6, <2>7, <2>8, <2>9, <2>10, <2>12 DEF NetInv
<1>11. QED
  BY <1>9, <1>10

(* What r has received in its turn, with the n bytes that recv gave, is    *)
(* the beginning of what its peer was given to send in that turn.          *)
LEMMA Received ==
    ASSUME NetInv, NEW r \in Role, state[r] = "recv", NEW n \in 1..Len(wire[Peer(r)]),
           NEW b, b = buf[r] \o SubSeq(wire[Peer(r)], 1, n), Len(b) <= turns[pos[r]].size
    PROVE  /\ b \in Seq(Octet) /\ Len(b) = Len(buf[r]) + n
           /\ told[pos[r]] # NoMessage
           /\ \A x \in 1..Len(b) : b[x] = told[pos[r]][x]
           /\ up
<1> DEFINE p == Peer(r)
<1>1. /\ NetType /\ Place(r) /\ Stream(p) /\ p \in Role /\ Peer(p) = r /\ p # r
      /\ turns \in Exchanges
      /\ DOMAIN turns = 1..Len(turns) /\ Len(turns) \in Nat
  BY Facts, Roles
<1>2. pos[r] \in DOMAIN turns /\ turns[pos[r]].from = p /\ turns[pos[r]].size \in Nat
  <2>1. pos[r] \in DOMAIN turns
    BY <1>1, AtTurn
  <2> QED
    BY <1>1, <2>1, TurnFacts, Roles DEF Place
<1>3. wire[p] \in Seq(Octet) /\ buf[r] \in Seq(Octet)
  BY <1>1 DEF NetType
<1>4. /\ Len(wire[p]) \in Nat /\ Len(buf[r]) \in Nat /\ n \in Nat
      /\ \A i \in 1..Len(wire[p]) : wire[p][i] \in Octet
  BY <1>3, LenProperties, ElementOfSeq
<1>5. up
  <2>1. wire[p] # << >>
    BY <1>3, <1>4, EmptySeq
  <2> QED
    BY <1>1, <2>1 DEF NetType
<1> DEFINE w == SubSeq(wire[p], 1, n)
<1>6. w \in Seq(Octet) /\ Len(w) = n /\ \A y \in 1..n : w[y] = wire[p][y]
  <2>1. ASSUME NEW i \in 1..n
        PROVE  wire[p][i] \in Octet
    <3>1. i \in 1..Len(wire[p])
      BY <1>4
    <3> HIDE DEF p
    <3> QED
      BY <1>4, <3>1
  <2>2. /\ w \in Seq(Octet) /\ Len(w) = IF 1 <= n THEN n - 1 + 1 ELSE 0
        /\ \A i \in 1..(n - 1 + 1) : w[i] = wire[p][1 + i - 1]
    <3>1. 1 \in Int /\ n \in Int
      BY <1>4
    <3> HIDE DEF p
    <3> QED
      BY <2>1, <3>1, SubSeqProperties
  <2> HIDE DEF w
  <2> QED
    BY <1>4, <2>2
<1>7. b = buf[r] \o w
  OBVIOUS
<1> HIDE DEF w
<1>8. /\ b \in Seq(Octet) /\ Len(b) = Len(buf[r]) + n
      /\ \A x \in 1..(Len(buf[r]) + n) :
           b[x] = IF x <= Len(buf[r]) THEN buf[r][x] ELSE w[x - Len(buf[r])]
  BY <1>3, <1>6, <1>7, ConcatProperties
<1>9. PICK L \in Nat, B \in Nat, T \in Nat, S \in Nat :
        /\ L = Len(buf[r]) /\ B = Before(turns, p, pos[r]) /\ T = Taken(p)
        /\ S = turns[pos[r]].size
  <2>1. Before(turns, p, pos[r]) \in Nat
    BY <1>1, BeforeType DEF NetType
  <2>2. Taken(p) \in Nat
    BY <1>1, <1>4, <2>1 DEF Taken
  <2> QED
    BY <1>2, <1>4, <2>1, <2>2
<1>10. T = B + L
  BY <1>1, <1>9 DEF Taken
<1>11. \A y \in 1..n : B + (L + y) = T + y /\ L + y \in 1..S
  <2>1. L + n <= S
    BY <1>8, <1>9
  <2> QED
    BY <1>4, <1>10, <2>1
<1>12. ASSUME NEW y \in 1..n
       PROVE  /\ told[pos[r]] # NoMessage
              /\ wire[p][y] = told[pos[r]][L + y]
  <2>1. y \in 1..Len(wire[p])
    BY <1>4
  <2>2. Before(turns, p, pos[r]) + (L + y) = Taken(p) + y /\ L + y \in 1..turns[pos[r]].size
    BY <1>9, <1>11
  <2>3. state[Peer(p)] # "failed"
    BY <1>1
  <2> QED
    BY <1>1, <1>2, <1>5, <2>1, <2>2, <2>3 DEF Stream
<1>13. told[pos[r]] # NoMessage
  <2>1. 1 \in 1..n
    BY <1>4
  <2> QED
    BY <1>12, <2>1
<1>14. ASSUME NEW x \in 1..(L + n)
       PROVE  b[x] = told[pos[r]][x]
  <2>1. CASE x <= L
    <3>1. x \in 1..Len(buf[r])
      BY <1>9, <2>1
    <3>2. b[x] = buf[r][x]
      BY <1>8, <1>9, <1>14, <2>1
    <3> QED
      BY <1>1, <3>1, <3>2 DEF Place
  <2>2. CASE ~ (x <= L)
    <3>1. x - L \in 1..n /\ L + (x - L) = x
      BY <1>4, <2>2
    <3>2. b[x] = wire[p][x - L]
      BY <1>6, <1>8, <1>9, <1>14, <2>2, <3>1
    <3> QED
      BY <1>12, <3>1, <3>2
  <2> QED
    BY <2>1, <2>2
<1>15. QED
  BY <1>5, <1>8, <1>9, <1>13, <1>14

(* Took keeps the invariant: the message r takes, if it has any bytes, is  *)
(* the one its peer was given, and r goes on exactly if its peer does.     *)
LEMMA TookStep ==
    ASSUME NetInv, NEW r \in Role, state[r] \in {"turn", "recv"},
           turns[pos[r]].from # r, NEW b \in Seq(Octet), Len(b) = turns[pos[r]].size, Took(r, b),
           turns' = turns, little' = little, up' = up, told' = told,
           wire' \in [Role -> Seq(Octet)], wire'[r] = wire[r],
           ~ up => wire' = wire,
           Left(r) => Stream(Peer(r))',
           turns[pos[r]].size > 0 =>
             /\ b = told[pos[r]] /\ told[pos[r]] # NoMessage
             /\ b \in turns[pos[r]].accept /\ pos[r] = Len(turns) => state[Peer(r)] = "done"
    PROVE  NetInv'
<1> DEFINE p == Peer(r)
<1>1. /\ NetType /\ Place(r) /\ Stream(r) /\ Arrived /\ Place(p)
      /\ p \in Role /\ p # r /\ Peer(p) = r /\ \A q \in Role : q = r \/ q = p
      /\ turns \in Exchanges /\ DOMAIN turns = 1..Len(turns) /\ Len(turns) \in Nat
  BY Facts, Roles
<1>2. pos[r] \in DOMAIN turns /\ turns[pos[r]].from = p
  <2>1. pos[r] \in DOMAIN turns
    BY <1>1, AtTurn
  <2> QED
    BY <1>1, <2>1, TurnFacts
<1>3. /\ got' = [got EXCEPT ![pos[r]] = b]
      /\ IF b \in turns[pos[r]].accept THEN Advance(r) ELSE Stop(r)
  BY <1>1, <1>2, Packing DEF Took
<1>4. /\ DOMAIN got' = DOMAIN turns /\ got'[pos[r]] = b /\ b # NoMessage
      /\ \A k \in DOMAIN turns : k # pos[r] => got'[k] = got[k]
  BY <1>1, <1>2, <1>3, MessageAssumption DEF NetType
<1>5. /\ Left(r)
      /\ pos' \in [Role -> 1..(Len(turns) + 1)]
      /\ state' \in [Role -> {"turn", "send", "recv", "done", "failed"}]
      /\ buf' \in [Role -> Seq(Octet)]
      /\ pos'[p] = pos[p] /\ state'[p] = state[p] /\ buf'[p] = buf[p]
  <2>1. Advance(r) \/ Stop(r)
    BY <1>3
  <2>2. state[r] # "done"
    OBVIOUS
  <2> QED
    BY <1>1, <2>1, <2>2, Leaves
<1>6. NetType'
  <2>1. \A k \in DOMAIN turns : got'[k] \in Seq(Octet) \cup {NoMessage}
    BY <1>1, <1>4 DEF NetType
  <2>2. ~ up => \A q \in Role : wire'[q] = << >>
    BY <1>1 DEF NetType
  <2> QED
    BY <1>1, <1>4, <1>5, <2>1, <2>2 DEF NetType
<1>7. Place(p)'
  <2>1. \A k \in DOMAIN turns : turns[k].from # p => got'[k] = got[k]
    BY <1>2, <1>4
  <2> QED
    BY <1>1, <1>5, <2>1, PlaceKept
<1>8. Place(r)'
  BY <1>1, <1>4, <1>5, PlaceLeft
<1>9. Stream(r)'
  <2>1. Taken(r)' = Taken(r)
    BY <1>1, <1>5, TakenSame
  <2> QED
    BY <1>1, <1>2, <1>5, <2>1, StreamLeft
<1>10. Arrived'
  <2>1. \A k \in DOMAIN turns : got'[k] # NoMessage /\ turns[k].size > 0 =>
           told[k] # NoMessage /\ got'[k] = told[k]
    BY <1>1, <1>4 DEF Arrived
  <2>2. ASSUME NEW q \in Role, NEW k \in DOMAIN turns, state'[q] = "done",
               k = Len(turns), turns[k].from # q, turns[k].size > 0
        PROVE  state'[Peer(q)] = "done"
    <3>1. CASE q = p
      BY <1>1, <1>5, <2>2, <3>1 DEF Arrived
    <3>2. CASE q = r
      <4>1. pos[r] = Len(turns) /\ b \in turns[pos[r]].accept
        <5>1. Advance(r)
          BY <1>1, <1>3, <2>2, <3>2 DEF Stop, NetType
        <5>2. pos'[r] = pos[r] + 1
          BY <1>1, <5>1 DEF Advance, NetType
        <5>3. pos[r] = Len(turns)
          BY <1>1, <1>2, <1>5, <2>2, <3>2, <5>2 DEF Left
        <5>4. b \in turns[pos[r]].accept
          BY <1>1, <1>2, <1>3, <5>2 DEF Stop
        <5> QED
          BY <5>3, <5>4
      <4> QED
        BY <1>5, <2>2, <3>2, <4>1
    <3> QED
      BY <1>1, <3>1, <3>2
  <2> QED
    BY <1>1, <2>1, <2>2 DEF Arrived
<1>11. QED
  BY <1>1, <1>5, <1>6, <1>7, <1>8, <1>9, <1>10 DEF NetInv

(* BeginRecv keeps the invariant: of an empty message nothing is awaited.  *)
LEMMA BeginRecvStep ==
    ASSUME NetInv, NEW r \in Role, BeginRecv(r)
    PROVE  NetInv'
<1> DEFINE p == Peer(r)
<1>1. /\ NetType /\ Place(r) /\ Stream(r) /\ Arrived /\ Place(p) /\ Stream(p)
      /\ p \in Role /\ p # r /\ Peer(p) = r /\ \A q \in Role : q = r \/ q = p
      /\ turns \in Exchanges /\ DOMAIN turns = 1..Len(turns) /\ Len(turns) \in Nat
  BY Facts, Roles
<1>2. state[r] = "turn" /\ turns[pos[r]].from # r /\ buf[r] = << >>
  BY <1>1 DEF BeginRecv, Place
<1>3. pos[r] \in DOMAIN turns /\ turns[pos[r]].from = p /\ turns[pos[r]].size \in Nat
  <2>1. pos[r] \in DOMAIN turns
    BY <1>1, <1>2, AtTurn
  <2> QED
    BY <1>1, <1>2, <2>1, TurnFacts
<1>4. turns' = turns /\ little' = little /\ up' = up /\ wire' = wire /\ told' = told
  BY DEF BeginRecv, fixed
<1>5. CASE turns[pos[r]].size = 0
  <2>1. Took(r, << >>)
    BY <1>5 DEF BeginRecv
  <2>2. << >> \in Seq(Octet) /\ Len(<< >>) = turns[pos[r]].size
    BY <1>5, EmptySeq
  <2>3. ASSUME Left(r)
        PROVE  Stream(p)'
    <3>1. pos'[p] = pos[p] /\ state'[p] = state[p] /\ buf'[p] = buf[p]
      <4>1. Unpack(<< >>, pos[r], r) = << >>
        BY <1>1, <1>3, <2>2, Packing
      <4>2. Advance(r) \/ Stop(r)
        BY <2>1, <4>1 DEF Took
      <4> QED
        BY <1>1, <1>2, <4>2, Leaves
    <3>2. Taken(p)' = Taken(p)
      <4>1. Before(turns, p, pos[r]) \in Nat
        BY <1>1, BeforeType DEF NetType
      <4>2. Before(turns, p, pos[r] + 1) = Before(turns, p, pos[r])
        BY <1>1, <1>3, <1>5, <4>1, BeforeNext
      <4> QED
        BY <1>1, <1>2, <1>4, <2>3, <4>2 DEF Taken, Left
    <3> QED
      BY <1>1, <1>2, <1>4, <3>1, <3>2, StreamKept
  <2>4. wire' \in [Role -> Seq(Octet)]
    BY <1>1, <1>4 DEF NetType
  <2> QED
    <3>1. PICK e : e = << >>
      OBVIOUS
    <3>2. Took(r, e) /\ e \in Seq(Octet) /\ Len(e) = turns[pos[r]].size
      BY <2>1, <2>2, <3>1
    <3>3. ~ (turns[pos[r]].size > 0)
      BY <1>5
    <3> QED
      BY <1>1, <1>2, <1>4, <2>3, <2>4, <3>2, <3>3, TookStep
<1>6. CASE turns[pos[r]].size # 0
  <2>1. state' = [state EXCEPT ![r] = "recv"] /\ pos' = pos /\ buf' = buf /\ got' = got
    BY <1>6 DEF BeginRecv
  <2>2. /\ state'[r] = "recv" /\ state'[p] = state[p]
        /\ state' \in [Role -> {"turn", "send", "recv", "done", "failed"}]
    BY <1>1, <2>1 DEF NetType
  <2>3. NetType'
    BY <1>1, <1>4, <2>1, <2>2 DEF NetType
  <2>4. Place(p)'
    BY <1>1, <1>4, <2>1, <2>2, PlaceKept
  <2>5. Place(r)'
    <3>1. Len(buf[r]) = 0
      BY <1>2, EmptySeq
    <3>2. Len(buf[r]) < turns[pos[r]].size /\ \A x \in 1..Len(buf[r]) : FALSE
      BY <1>3, <1>6, <3>1
    <3> QED
      BY <1>1, <1>2, <1>4, <2>1, <2>2, <3>2 DEF Place
  <2>6. Taken(r)' = Taken(r)
    BY <1>1, <1>4, <2>1, <2>2, TakenSame
  <2>7. Taken(p)' = Taken(p)
    <3>1. Len(buf[r]) = 0
      BY <1>2, EmptySeq
    <3>2. Before(turns, p, pos[r]) \in Nat
      BY <1>1, BeforeType DEF NetType
    <3> QED
      BY <1>1, <1>2, <1>4, <2>1, <2>2, <3>1, <3>2 DEF Taken
  <2>8. Stream(p)'
    BY <1>1, <1>2, <1>4, <2>1, <2>2, <2>7, StreamKept
  <2>9. Stream(r)'
    BY <1>1, <1>2, <1>3, <1>4, <2>1, <2>2, <2>6, StreamLeft
  <2>10. Arrived'
    BY <1>1, <1>2, <1>4, <2>1, <2>2 DEF Arrived
  <2> QED
    BY <1>1, <2>2, <2>3, <2>4, <2>5, <2>8, <2>9, <2>10 DEF NetInv
<1>7. QED
  BY <1>5, <1>6

(* Recv keeps the invariant, whether recv gave the rest or a part.         *)
LEMMA RecvStep ==
    ASSUME NetInv, NEW r \in Role, Recv(r)
    PROVE  NetInv'
<1> DEFINE p == Peer(r)
<1>1. /\ NetType /\ Place(r) /\ Stream(r) /\ Arrived /\ Place(p) /\ Stream(p)
      /\ p \in Role /\ p # r /\ Peer(p) = r /\ \A q \in Role : q = r \/ q = p
      /\ turns \in Exchanges /\ DOMAIN turns = 1..Len(turns) /\ Len(turns) \in Nat
  BY Facts, Roles
<1>2. state[r] = "recv" /\ turns[pos[r]].from # r
  BY <1>1 DEF Recv, Place
<1>3. pos[r] \in DOMAIN turns /\ turns[pos[r]].from = p /\ turns[pos[r]].size \in Nat
  <2>1. pos[r] \in DOMAIN turns
    BY <1>1, <1>2, AtTurn
  <2> QED
    BY <1>1, <1>2, <2>1, TurnFacts
<1>4. PICK n \in 1..Len(wire[p]) :
        LET b == buf[r] \o SubSeq(wire[p], 1, n) IN
        /\ Len(b) <= turns[pos[r]].size
        /\ wire' = [wire EXCEPT ![p] = SubSeq(@, n + 1, Len(@))]
        /\ IF Len(b) = turns[pos[r]].size
             THEN Took(r, b)
             ELSE /\ buf' = [buf EXCEPT ![r] = b]
                  /\ UNCHANGED <<pos, state, got>>
  BY DEF Recv
<1>5. PICK b : b = buf[r] \o SubSeq(wire[p], 1, n)
  OBVIOUS
<1>6. turns' = turns /\ little' = little /\ up' = up /\ told' = told
  BY DEF Recv, fixed
<1>7. /\ b \in Seq(Octet) /\ Len(b) = Len(buf[r]) + n /\ Len(b) <= turns[pos[r]].size
      /\ told[pos[r]] # NoMessage
      /\ \A x \in 1..Len(b) : b[x] = told[pos[r]][x]
      /\ up
  <2>1. Len(b) <= turns[pos[r]].size
    BY <1>4, <1>5
  <2> QED
    BY <1>2, <1>5, <2>1, Received, ZenonT(60)
<1>8. wire'[p] = SubSeq(wire[p], n + 1, Len(wire[p])) /\ wire'[r] = wire[r]
  BY <1>1, <1>4 DEF NetType
<1>9. wire' \in [Role -> Seq(Octet)]
  <2>1. wire[p] \in Seq(Octet) /\ wire \in [Role -> Seq(Octet)]
    BY <1>1 DEF NetType
  <2>2. Len(wire[p]) \in Nat /\ \A i \in 1..Len(wire[p]) : wire[p][i] \in Octet
    BY <2>1, LenProperties, ElementOfSeq
  <2>3. SubSeq(wire[p], n + 1, Len(wire[p])) \in Seq(Octet)
    <3>1. \A i \in (n + 1)..Len(wire[p]) : wire[p][i] \in Octet
      BY <2>2
    <3>2. n + 1 \in Int /\ Len(wire[p]) \in Int
      BY <2>2
    <3> HIDE DEF p
    <3> QED
      BY <3>1, <3>2, SubSeqProperties
  <2> QED
    BY <1>4, <2>1, <2>3
<1>10. Before(turns, p, pos[r]) \in Nat /\ Len(buf[r]) \in Nat /\ n \in Nat /\ Taken(p) \in Nat
       /\ Taken(p) = Before(turns, p, pos[r]) + Len(buf[r])
  <2>1. Before(turns, p, pos[r]) \in Nat
    BY <1>1, BeforeType DEF NetType
  <2>2. Len(buf[r]) \in Nat /\ Len(wire[p]) \in Nat
    <3>1. buf[r] \in Seq(Octet) /\ wire[p] \in Seq(Octet)
      BY <1>1 DEF NetType
    <3> QED
      BY <3>1, LenProperties
  <2> QED
    BY <1>1, <1>2, <2>1, <2>2 DEF Taken
<1>11. CASE Len(b) = turns[pos[r]].size
  <2>1. Took(r, b)
    BY <1>4, <1>5, <1>11
  <2>2. told[pos[r]] \in Seq(Octet) /\ Len(told[pos[r]]) = Len(b)
    <3>1. told[pos[r]] \in turns[pos[r]].options
      BY <1>1, <1>3, <1>7 DEF NetType
    <3> QED
      BY <1>1, <1>3, <1>11, <3>1, TurnFacts
  <2>3. b = told[pos[r]]
    BY <1>7, <2>2, SeqEqual
  <2>4. Before(turns, p, pos[r] + 1) = Taken(p) + n
    <3>1. Before(turns, p, pos[r] + 1) = Before(turns, p, pos[r]) + turns[pos[r]].size
      BY <1>1, <1>3, BeforeNext
    <3>2. Before(turns, p, pos[r] + 1) = Before(turns, p, pos[r]) + (Len(buf[r]) + n)
      BY <1>7, <1>11, <3>1
    <3> QED
      BY <1>10, <3>2
  <2>5. ASSUME Left(r)
        PROVE  Stream(p)'
    <3>1. pos'[p] = pos[p] /\ state'[p] = state[p] /\ buf'[p] = buf[p]
      <4>1. Unpack(b, pos[r], r) = b
        BY <1>1, <1>3, <1>7, <1>11, Packing
      <4>2. Advance(r) \/ Stop(r)
        BY <2>1, <4>1 DEF Took
      <4> QED
        BY <1>1, <1>2, <4>2, Leaves
    <3>2. CASE state'[r] = "failed"
      BY <1>1, <3>2 DEF Stream
    <3>3. CASE state'[r] # "failed"
      <4>1. Taken(p)' = Taken(p) + n
        BY <1>1, <1>6, <1>10, <2>4, <2>5, <3>3 DEF Taken, Left
      <4> QED
        BY <1>1, <1>2, <1>6, <1>8, <1>10, <3>1, <4>1, StreamTaken
    <3> QED
      BY <3>2, <3>3
  <2>6. b \in turns[pos[r]].accept /\ pos[r] = Len(turns) /\ turns[pos[r]].size > 0
          => state[p] = "done"
    <3>1. SUFFICES ASSUME told[pos[r]] \in turns[pos[r]].accept, pos[r] = Len(turns),
                          turns[pos[r]].size > 0
                   PROVE  state[p] = "done"
      BY <2>3
    <3>2. Before(turns, p, pos[r] + 1) <= Out(p)
      <4>1. wire[p] \in Seq(Octet)
        BY <1>1 DEF NetType
      <4>2. Len(wire[p]) \in Nat /\ n <= Len(wire[p])
        BY <4>1, LenProperties
      <4> QED
        BY <1>10, <2>4, <4>2 DEF Out
    <3>3. pos[r] < pos[p]
      <4>1. state[Peer(p)] # "failed"
        BY <1>1, <1>2
      <4> QED
        BY <1>1, <1>3, <1>7, <3>1, <3>2, <4>1 DEF Stream
    <3>4. pos[p] = Len(turns) + 1
      BY <1>1, <3>1, <3>3 DEF NetType
    <3> QED
      BY <1>1, <3>4 DEF Place
  <2> QED
    BY <1>1, <1>2, <1>6, <1>7, <1>8, <1>9, <1>11, <2>1, <2>3, <2>5, <2>6, TookStep
<1>12. CASE Len(b) # turns[pos[r]].size
  <2>1. /\ pos' = pos /\ state' = state /\ got' = got /\ buf'[r] = b /\ buf'[p] = buf[p]
        /\ buf' \in [Role -> Seq(Octet)]
    <3>1. buf' = [buf EXCEPT ![r] = b] /\ pos' = pos /\ state' = state /\ got' = got
      BY <1>4, <1>5, <1>12
    <3> QED
      BY <1>1, <1>7, <3>1 DEF NetType
  <2>2. NetType'
    BY <1>1, <1>6, <1>7, <1>9, <2>1 DEF NetType
  <2>3. Place(p)'
    BY <1>1, <1>6, <2>1, PlaceKept
  <2>4. Place(r)'
    <3>1. Len(b) < turns[pos[r]].size
      BY <1>3, <1>7, <1>10, <1>12
    <3> QED
      BY <1>1, <1>2, <1>6, <1>7, <2>1, <3>1 DEF Place
  <2>5. Taken(r)' = Taken(r)
    BY <1>1, <1>6, <2>1, TakenSame
  <2>6. Taken(p)' = Taken(p) + n
    <3>1. Taken(p)' = Before(turns, p, pos[r]) + (Len(buf[r]) + n)
      BY <1>1, <1>2, <1>6, <1>7, <2>1 DEF Taken
    <3> QED
      BY <1>10, <3>1
  <2>7. Stream(p)'
    BY <1>1, <1>2, <1>6, <1>8, <1>10, <2>1, <2>6, StreamTaken
  <2>8. Stream(r)'
    BY <1>1, <1>2, <1>3, <1>6, <1>8, <2>1, <2>5, StreamLeft
  <2>9. Arrived'
    BY <1>1, <1>6, <2>1 DEF Arrived
  <2> QED
    BY <1>1, <2>1, <2>2, <2>3, <2>4, <2>7, <2>8, <2>9 DEF NetInv
<1>13. QED
  BY <1>11, <1>12

(* A transfer that fails keeps it: who ended has no bytes to send or to    *)
(* take.                                                                   *)
LEMMA XmitFailsStep ==
    ASSUME NetInv, NEW r \in Role, XmitFails(r)
    PROVE  NetInv'
<1> DEFINE p == Peer(r)
<1>1. /\ NetType /\ Place(r) /\ Stream(r) /\ Arrived /\ Place(p) /\ Stream(p)
      /\ p \in Role /\ p # r /\ Peer(p) = r /\ \A q \in Role : q = r \/ q = p
      /\ turns \in Exchanges /\ DOMAIN turns = 1..Len(turns) /\ Len(turns) \in Nat
  BY Facts, Roles
<1>2. state[r] \in {"send", "recv"} /\ Stop(r)
  BY DEF XmitFails
<1>3. /\ turns' = turns /\ little' = little /\ up' = up /\ wire' = wire
      /\ told' = told /\ got' = got
  BY DEF XmitFails, fixed
<1>4. /\ Left(r) /\ pos' = pos /\ state'[r] = "failed"
      /\ state' \in [Role -> {"turn", "send", "recv", "done", "failed"}]
      /\ buf' \in [Role -> Seq(Octet)]
      /\ state'[p] = state[p] /\ buf'[p] = buf[p]
  BY <1>1, <1>2, Leaves DEF Stop, NetType
<1>5. NetType'
  BY <1>1, <1>3, <1>4 DEF NetType
<1>6. Place(p)'
  BY <1>1, <1>3, <1>4, PlaceKept
<1>7. Place(r)'
  BY <1>1, <1>3, <1>4, PlaceLeft
<1>8. Stream(p)'
  BY <1>1, <1>4 DEF Stream
<1>9. Taken(r)' = Taken(r) /\ Out(r)' = Out(r)
  BY <1>1, <1>3, <1>4, TakenSame DEF Out
<1>10. Stream(r)'
  BY <1>1, <1>3, <1>4, <1>9 DEF Stream
<1>11. Arrived'
  BY <1>1, <1>2, <1>3, <1>4 DEF Arrived
<1>12. QED
  BY <1>1, <1>5, <1>6, <1>7, <1>8, <1>10, <1>11 DEF NetInv

(* So does a connection that breaks: what was on the wire is lost.         *)
LEMMA NetworkFailsStep ==
    ASSUME NetInv, NetworkFails
    PROVE  NetInv'
<1>1. /\ up' = FALSE /\ wire' = [r \in Role |-> << >>]
      /\ UNCHANGED <<turns, little, pos, state, buf, told, got>>
  BY DEF NetworkFails, fixed
<1>2. << >> \in Seq(Octet)
  BY EmptySeq
<1>3. NetType'
  BY <1>1, <1>2 DEF NetInv, NetType
<1>4. \A r \in Role : Place(r)' /\ Stream(r)'
  BY <1>1 DEF NetInv, Place, Stream
<1>5. Arrived'
  BY <1>1 DEF NetInv, Arrived
<1>6. QED
  BY <1>3, <1>4, <1>5 DEF NetInv

(* The invariant holds before the first turn.                              *)
LEMMA NetInvInit == NetInit => NetInv
<1> SUFFICES ASSUME NetInit
             PROVE  NetInv
  OBVIOUS
<1>1. turns \in Exchanges /\ turns \in Seq(Turn)
  BY TurnFacts DEF NetInit
<1>2. DOMAIN turns = 1..Len(turns) /\ Len(turns) \in Nat /\ << >> \in Seq(Octet)
  BY <1>1, LenProperties, EmptySeq
<1>3. turns = << >> <=> Len(turns) = 0
  BY <1>1, EmptySeq
<1>4. NetType
  BY <1>1, <1>2 DEF NetInit, NetType
<1>5. ASSUME NEW r \in Role
      PROVE  Place(r) /\ Stream(r)
  <2>1. /\ pos[r] = 1 /\ buf[r] = << >> /\ wire[r] = << >> /\ pos[Peer(r)] = 1
        /\ state[r] = (IF turns = << >> THEN "done" ELSE "turn")
        /\ state[Peer(r)] = (IF turns = << >> THEN "done" ELSE "turn")
        /\ \A k \in DOMAIN turns : told[k] = NoMessage
    BY Roles DEF NetInit
  <2>2. Place(r)
    BY <1>2, <1>3, <2>1 DEF Place
  <2>3. Before(turns, r, 1) = 0
    BY <1>1, BeforeFirst
  <2>4. Taken(r) = 0 /\ Out(r) = 0
    <3>1. Len(wire[r]) = 0
      BY <2>1, EmptySeq
    <3> QED
      BY <2>1, <2>3, <3>1 DEF Taken, Out
  <2>5. Stream(r)
    <3>1. Len(wire[r]) = 0
      BY <2>1, EmptySeq
    <3>2. \A k \in DOMAIN turns : told[k] \notin turns[k].accept
      BY <1>1, <2>1, TurnFacts, MessageAssumption
    <3> QED
      BY <2>1, <2>3, <2>4, <3>1, <3>2 DEF Stream
  <2> QED
    BY <2>2, <2>5
<1>6. Arrived
  BY <1>2, <1>3 DEF NetInit, Arrived
<1>7. QED
  BY <1>4, <1>5, <1>6 DEF NetInv

(* The stream carries, at every moment, the messages its ends were given,  *)
(* in order and byte by byte, for any exchanges of messages of any sizes   *)
(* and layouts, any window, and machines of either endianness.             *)
THEOREM NetInvInvariant == NetSpec => []NetInv
<1>1. NetInv /\ [NetNext]_netVars => NetInv'
  <2> SUFFICES ASSUME NetInv, [NetNext]_netVars
               PROVE  NetInv'
    OBVIOUS
  <2>1. CASE NetworkFails
    BY <2>1, NetworkFailsStep
  <2>2. ASSUME NEW r \in Role, Step(r) \/ XmitFails(r)
        PROVE  NetInv'
    BY <2>2, BeginSendStep, SendStep, BeginRecvStep, RecvStep, XmitFailsStep DEF Step
  <2>3. CASE UNCHANGED netVars \/ \E r \in Role : CloseSocket(r)
    <3>1. UNCHANGED <<turns, little, up, pos, state, buf, wire, told, got>>
      BY <2>3 DEF netVars, fixed, CloseSocket
    <3> QED
      BY <3>1 DEF NetInv, NetType, Place, Stream, Arrived, Taken, Out
  <2> QED
    BY <2>1, <2>2, <2>3 DEF NetNext
<1>2. QED
  BY <1>1, NetInvInit, PTL DEF NetSpec

(* Whatever usbip_net_xmit takes is the message its peer was given to      *)
(* send, wherever the stream is cut into pieces or cut off.                *)
THEOREM MessagesAlwaysArrive == NetSpec => []MessagesArrive
<1>1. NetInv => MessagesArrive
  <2> SUFFICES ASSUME NetInv
               PROVE  MessagesArrive
    OBVIOUS
  <2>1. \A k \in DOMAIN turns : got[k] # NoMessage /\ turns[k].size > 0 => got[k] = told[k]
    BY DEF NetInv, Arrived
  <2>2. ASSUME NEW r \in Role
        PROVE  /\ state[r] = "recv" => Len(buf[r]) < turns[pos[r]].size
               /\ state[r] = "done" =>
                    \A k \in DOMAIN turns : turns[k].from # r => got[k] # NoMessage
    <3>1. Place(r) /\ DOMAIN turns = 1..Len(turns) /\ Len(turns) \in Nat
      BY Facts
    <3>2. state[r] = "done" => \A k \in DOMAIN turns : k < pos[r]
      BY <3>1 DEF Place
    <3> QED
      BY <3>1, <3>2 DEF Place
  <2> QED
    BY <2>1, <2>2 DEF MessagesArrive, NetInv, Arrived
<1>2. QED
  BY <1>1, NetInvInvariant, PTL

(* Who waits for the other is not behind it: of a stream that has come     *)
(* that far there would be bytes to take, or none left to send.            *)
LEMMA Lags ==
    ASSUME NetInv, up, NEW r \in Role, Blocked(r), state[Peer(r)] \in {"send", "recv"}
    PROVE  pos[Peer(r)] <= pos[r]
<1> DEFINE p == Peer(r)
<1>1. /\ NetType /\ Place(r) /\ Stream(r) /\ Place(p) /\ Stream(p)
      /\ p \in Role /\ Peer(p) = r /\ turns \in Exchanges
      /\ DOMAIN turns = 1..Len(turns) /\ Len(turns) \in Nat
  BY Facts, Roles
<1>2. state[r] \in {"send", "recv"}
  BY DEF Blocked
<1>3. /\ pos[r] \in DOMAIN turns /\ pos[r] \in 1..(Len(turns) + 1)
      /\ pos[r] + 1 \in 1..(Len(turns) + 1) /\ pos[p] \in DOMAIN turns
      /\ pos[p] \in 1..(Len(turns) + 1)
  BY <1>1, <1>2, AtTurn
<1>4. SUFFICES ASSUME pos[r] + 1 <= pos[p]
               PROVE  FALSE
  BY <1>1, <1>3
<1>5. /\ turns[pos[r]].size \in Nat /\ turns[pos[p]].size \in Nat
      /\ turns[pos[r]].from \in Role /\ turns[pos[p]].from \in Role
  BY <1>1, <1>3, TurnFacts
<1>6. Len(wire[r]) \in Nat /\ Len(buf[r]) \in Nat /\ Len(buf[p]) \in Nat
  <2>1. wire[r] \in Seq(Octet) /\ buf[r] \in Seq(Octet) /\ buf[p] \in Seq(Octet)
    BY <1>1 DEF NetType
  <2> QED
    BY <2>1, LenProperties
<1>7. CASE state[r] = "send"
  <2>1. turns[pos[r]].from = r /\ Len(buf[r]) \in 1..turns[pos[r]].size
    BY <1>1, <1>7 DEF Place
  <2>2. PICK A \in Nat, B \in Nat, C \in Nat, L \in Nat, S \in Nat, W \in Nat, M \in Nat :
          /\ A = Before(turns, r, pos[p]) /\ B = Before(turns, r, pos[r])
          /\ C = Before(turns, r, pos[r] + 1) /\ L = Len(buf[r])
          /\ S = turns[pos[r]].size /\ W = Len(wire[r])
          /\ M = IF state[p] = "recv" THEN Len(buf[p]) ELSE 0
    BY <1>1, <1>3, <1>5, <1>6, BeforeType
  <2>3. C <= A
    BY <1>1, <1>3, <1>4, <2>2, BeforeGrows
  <2>4. C = B + S
    BY <1>1, <1>3, <2>1, <2>2, BeforeNext
  <2>5. 1 <= L
    BY <2>1, <2>2
  <2>6. A + M + W = B + S - L
    BY <1>1, <1>7, <2>2 DEF Stream, Out, Taken
  <2> QED
    BY <2>3, <2>4, <2>5, <2>6
<1>8. CASE state[r] = "recv"
  <2>1. turns[pos[r]].from = p /\ Len(buf[r]) < turns[pos[r]].size /\ wire[p] = << >>
    BY <1>1, <1>3, <1>5, <1>8, Roles DEF Place, Blocked
  <2>2. PICK A \in Nat, B \in Nat, C \in Nat, L \in Nat, S \in Nat :
          /\ A = Before(turns, p, pos[p]) /\ B = Before(turns, p, pos[r])
          /\ C = Before(turns, p, pos[r] + 1) /\ L = Len(buf[r]) /\ S = turns[pos[r]].size
    BY <1>1, <1>3, <1>5, <1>6, BeforeType
  <2>3. C <= A
    BY <1>1, <1>3, <1>4, <2>2, BeforeGrows
  <2>4. C = B + S
    BY <1>1, <1>3, <2>1, <2>2, BeforeNext
  <2>5. L < S
    BY <2>1, <2>2
  <2>6. Out(p) = B + L
    <3>1. Len(wire[p]) = 0
      BY <2>1, EmptySeq
    <3>2. Taken(p) = B + L
      BY <1>1, <1>8, <2>2 DEF Taken
    <3> QED
      BY <2>2, <3>1, <3>2 DEF Out
  <2>7. Out(p) >= A
    <3>1. CASE state[p] = "recv"
      BY <1>1, <1>8, <2>2, <3>1 DEF Stream
    <3>2. CASE state[p] = "send"
      <4>1. PICK K \in Nat, Z \in Nat : K = Len(buf[p]) /\ Z = turns[pos[p]].size
        BY <1>5, <1>6
      <4>2. K <= Z
        BY <1>1, <3>2, <4>1 DEF Place
      <4>3. Out(p) = A + Z - K
        BY <1>1, <1>8, <2>2, <3>2, <4>1 DEF Stream
      <4> QED
        BY <2>2, <4>2, <4>3
    <3> QED
      BY <3>1, <3>2
  <2> QED
    BY <2>3, <2>4, <2>5, <2>6, <2>7
<1>9. QED
  BY <1>2, <1>7, <1>8

(* The two ends never wait for each other, for any window and any          *)
(* exchange: of two that wait, both would be in the same turn, in which    *)
(* one of them sends and has room or the other has bytes to take.          *)
THEOREM NobodyWaitsForNobody == NetSpec => []NotBothBlocked
<1>1. NetInv => NotBothBlocked
  <2> SUFFICES ASSUME NetInv, up, \A r \in Role : Blocked(r)
               PROVE  FALSE
    BY DEF NotBothBlocked
  <2>1. PICK r \in Role : r = "client"
    BY DEF Role
  <2> DEFINE p == Peer(r)
  <2>2. /\ NetType /\ Place(r) /\ Place(p) /\ p \in Role /\ p # r /\ Peer(p) = r
        /\ \A q \in Role : q = r \/ q = p
        /\ turns \in Exchanges /\ DOMAIN turns = 1..Len(turns) /\ Len(turns) \in Nat
    BY Facts, Roles
  <2>3. \A q \in Role : state[q] \in {"send", "recv"}
    BY DEF Blocked
  <2>4. pos[p] <= pos[r] /\ pos[r] <= pos[p]
    BY <2>2, <2>3, Lags
  <2>5. pos[r] \in DOMAIN turns /\ pos[p] = pos[r]
    <3>1. pos[r] \in DOMAIN turns /\ pos[p] \in DOMAIN turns
      BY <2>2, <2>3, AtTurn
    <3> QED
      BY <2>2, <2>4, <3>1
  <2>6. turns[pos[r]].from \in Role
    BY <2>2, <2>5, TurnFacts
  <2>7. \A q \in Role : state[q] = "send" => turns[pos[q]].from = q /\ wire[q] # << >>
    <3>1. ASSUME NEW q \in Role, state[q] = "send"
          PROVE  Len(wire[q]) > 0
      <4>1. Len(wire[q]) >= Window
        BY <3>1 DEF Blocked
      <4>2. Len(wire[q]) \in Nat
        <5>1. wire[q] \in Seq(Octet)
          BY <2>2 DEF NetType
        <5> QED
          BY <5>1, LenProperties
      <4> QED
        BY <4>1, <4>2, WindowAssumption
    <3> QED
      BY <3>1, EmptySeq DEF NetInv, Place
  <2>8. \A q \in Role : state[q] = "recv" => turns[pos[q]].from # q /\ wire[Peer(q)] = << >>
    BY DEF NetInv, Place, Blocked
  <2> QED
    BY <2>2, <2>3, <2>5, <2>6, <2>7, <2>8
<1>2. QED
  BY <1>1, NetInvInvariant, PTL

-----------------------------------------------------------------------------
(* The refinement.  What a receiver takes is whole and the sender's, and   *)
(* the sender is past it, unless it is a message nobody goes on with.      *)
LEMMA TakesWhole ==
    ASSUME NetInv, NEW r \in Role, state[r] = "recv", NEW n \in 1..Len(wire[Peer(r)]),
           NEW b, Len(b) = turns[pos[r]].size,
           b \in Seq(Octet), Len(b) = Len(buf[r]) + n, told[pos[r]] # NoMessage,
           \A x \in 1..Len(b) : b[x] = told[pos[r]][x], up
    PROVE  /\ b = told[pos[r]]
           /\ Unpack(b, pos[r], r) = b
           /\ b \in turns[pos[r]].accept => pos[r] < pos[Peer(r)]
<1> DEFINE p == Peer(r)
<1>1. /\ NetType /\ Place(r) /\ Stream(p) /\ p \in Role /\ Peer(p) = r /\ p # r
      /\ turns \in Exchanges /\ DOMAIN turns = 1..Len(turns) /\ Len(turns) \in Nat
  BY Facts, Roles
<1>2. pos[r] \in DOMAIN turns /\ turns[pos[r]].from = p /\ turns[pos[r]].size \in Nat
  <2>1. pos[r] \in DOMAIN turns
    BY <1>1, AtTurn
  <2> QED
    BY <1>1, <2>1, TurnFacts, Roles DEF Place
<1>3. b = told[pos[r]]
  <2>1. told[pos[r]] \in turns[pos[r]].options
    BY <1>1, <1>2 DEF NetType
  <2>2. told[pos[r]] \in Seq(Octet) /\ Len(told[pos[r]]) = Len(b)
    BY <1>1, <1>2, <2>1, TurnFacts
  <2> QED
    BY <2>2, SeqEqual
<1>4. Unpack(b, pos[r], r) = b
  BY <1>1, <1>2, Packing
<1>5. Before(turns, p, pos[r] + 1) <= Out(p)
  <2>1. Before(turns, p, pos[r]) \in Nat
    BY <1>1, BeforeType DEF NetType
  <2>2. Len(buf[r]) \in Nat /\ Len(wire[p]) \in Nat
    <3>1. buf[r] \in Seq(Octet) /\ wire[p] \in Seq(Octet)
      BY <1>1 DEF NetType
    <3> QED
      BY <3>1, LenProperties
  <2>3. Before(turns, p, pos[r] + 1) = Before(turns, p, pos[r]) + turns[pos[r]].size
    BY <1>1, <1>2, BeforeNext
  <2>4. PICK B \in Nat, L \in Nat, W \in Nat :
          B = Before(turns, p, pos[r]) /\ L = Len(buf[r]) /\ W = Len(wire[p])
    BY <2>1, <2>2
  <2>5. turns[pos[r]].size = L + n /\ n <= W
    BY <2>4
  <2>6. Out(p) = B + L + W
    BY <1>1, <2>4 DEF Out, Taken
  <2>7. n \in Nat
    BY <2>2
  <2> QED
    BY <2>3, <2>4, <2>5, <2>6, <2>7
<1>6. ASSUME b \in turns[pos[r]].accept
      PROVE  pos[r] < pos[p]
  <2>1. turns[pos[r]].size > 0
    <3>1. Len(buf[r]) \in Nat /\ n > 0
      <4>1. buf[r] \in Seq(Octet) /\ wire[p] \in Seq(Octet)
        BY <1>1 DEF NetType
      <4>2. Len(buf[r]) \in Nat /\ Len(wire[p]) \in Nat
        BY <4>1, LenProperties
      <4> QED
        BY <4>2
    <3> QED
      BY <3>1
  <2>2. state[Peer(p)] # "failed"
    BY <1>1
  <2> QED
    BY <1>1, <1>2, <1>3, <1>5, <1>6, <2>1, <2>2 DEF Stream
<1>7. QED
  BY <1>3, <1>4, <1>6

(* To go on or to end is the same in both.                                 *)
LEMMA GoesOn ==
    ASSUME NetType, NEW r \in Role, ~ Ended(r), NEW m,
           IF m \in turns[pos[r]].accept THEN Advance(r) ELSE Stop(r)
    PROVE  Talk!GoOn(r, m)
<1>1. state \in [Role -> {"turn", "send", "recv", "done", "failed"}]
  BY DEF NetType
<1>2. CASE m \in turns[pos[r]].accept
  <2>1. /\ pos' = [pos EXCEPT ![r] = @ + 1]
        /\ state' = [state EXCEPT ![r] = IF pos[r] = Len(turns) THEN "done" ELSE "turn"]
    BY <1>2 DEF Advance
  <2>2. outcome' = [outcome EXCEPT ![r] = IF pos[r] = Len(turns) THEN "done" ELSE "on"]
    BY <1>1, <2>1 DEF outcome, Ended
  <2> QED
    BY <1>2, <2>1, <2>2 DEF Talk!GoOn
<1>3. CASE m \notin turns[pos[r]].accept
  <2>1. pos' = pos /\ state' = [state EXCEPT ![r] = "failed"]
    BY <1>3 DEF Stop
  <2>2. outcome' = [outcome EXCEPT ![r] = "failed"]
    BY <1>1, <2>1 DEF outcome, Ended
  <2> QED
    BY <1>3, <2>1, <2>2 DEF Talk!GoOn
<1>4. QED
  BY <1>2, <1>3

(* A step within a message is none of the dialogue's.                      *)
LEMMA Unseen ==
    ASSUME NetType, NEW r \in Role, NEW s \in {"turn", "send", "recv"}, ~ Ended(r),
           state' = [state EXCEPT ![r] = s],
           turns' = turns, pos' = pos, got' = got
    PROVE  outcome' = outcome
  BY DEF NetType, outcome, Ended

(* Every step of the two processes and of the network is a step of the     *)
(* dialogue, or none.                                                      *)
LEMMA TalkStep ==
    ASSUME NetInv, [NetNext]_netVars
    PROVE  [Talk!Next]_(Talk!vars)
<1>1. ASSUME NEW r \in Role
      PROVE  /\ NetType /\ Place(r) /\ Peer(r) \in Role
             /\ turns \in Exchanges /\ DOMAIN turns = 1..Len(turns)
             /\ ~ Ended(r) => /\ pos[r] \in DOMAIN turns /\ outcome[r] = "on"
                              /\ turns[pos[r]].size \in Nat /\ turns[pos[r]].from \in Role
  <2>1. /\ NetType /\ Place(r) /\ Peer(r) \in Role
        /\ turns \in Exchanges /\ DOMAIN turns = 1..Len(turns)
    BY Facts
  <2>2. ~ Ended(r) => pos[r] \in DOMAIN turns
    BY <2>1, AtTurn DEF Ended
  <2> QED
    BY <2>1, <2>2, TurnFacts DEF outcome
<1>2. ASSUME NEW r \in Role, BeginSend(r)
      PROVE  Talk!Give(r)
  <2>1. /\ ~ Ended(r) /\ state[r] = "turn" /\ turns[pos[r]].from = r
        /\ turns' = turns /\ got' = got
    BY <1>2 DEF BeginSend, Ended, fixed
  <2>2. pos[r] \in DOMAIN turns /\ told[pos[r]] = NoMessage /\ Talk!Sends(r)
    BY <1>1, <2>1 DEF Place, Talk!Sends
  <2>3. PICK m \in turns[pos[r]].options :
          /\ told' = [told EXCEPT ![pos[r]] = m]
          /\ IF turns[pos[r]].size = 0
               THEN Sent(r, m)
               ELSE state' = [state EXCEPT ![r] = "send"] /\ pos' = pos
    BY <1>2 DEF BeginSend
  <2>4. turns[pos[r]].size = 0 => Talk!GoOn(r, m)
    BY <1>1, <2>1, <2>3, GoesOn DEF Sent
  <2>5. turns[pos[r]].size # 0 => pos' = pos /\ outcome' = outcome
    BY <1>1, <2>1, <2>3, Unseen
  <2> QED
    BY <2>1, <2>2, <2>3, <2>4, <2>5 DEF Talk!Give
<1>3. ASSUME NEW r \in Role, Send(r)
      PROVE  Talk!Sent(r) \/ UNCHANGED Talk!vars
  <2>1. /\ ~ Ended(r) /\ state[r] = "send"
        /\ turns' = turns /\ got' = got /\ told' = told
    BY <1>3 DEF Send, Ended, fixed
  <2>2. Talk!Sends(r) /\ told[pos[r]] # NoMessage
    BY <1>1, <2>1 DEF Place, Talk!Sends
  <2>3. \/ Sent(r, told[pos[r]])
        \/ pos' = pos /\ state' = state
    BY <1>3 DEF Send
  <2>4. CASE Sent(r, told[pos[r]])
    <3>1. Talk!GoOn(r, told[pos[r]])
      BY <1>1, <2>1, <2>4, GoesOn DEF Sent
    <3> QED
      BY <2>1, <2>2, <3>1 DEF Talk!Sent
  <2>5. CASE pos' = pos /\ state' = state
    BY <2>1, <2>5 DEF Talk!vars, outcome, Ended
  <2> QED
    BY <2>3, <2>4, <2>5
<1>4. ASSUME NEW r \in Role, BeginRecv(r)
      PROVE  Talk!Take(r) \/ UNCHANGED Talk!vars
  <2>1. /\ ~ Ended(r) /\ state[r] = "turn" /\ turns[pos[r]].from # r
        /\ turns' = turns /\ told' = told
    BY <1>4 DEF BeginRecv, Ended, fixed
  <2>2. CASE turns[pos[r]].size = 0
    <3>1. << >> \in Seq(Octet) /\ Len(<< >>) = turns[pos[r]].size
      BY <2>2, EmptySeq
    <3>2. PICK e : e = << >>
      OBVIOUS
    <3>3. /\ e \in Seq(Octet) /\ e # NoMessage /\ Unpack(e, pos[r], r) = e
      BY <1>1, <2>1, <3>1, <3>2, Packing, MessageAssumption
    <3>4. Took(r, e)
      BY <1>4, <2>2, <3>2 DEF BeginRecv
    <3>5. /\ got' = [got EXCEPT ![pos[r]] = e]
          /\ Talk!GoOn(r, e)
      BY <1>1, <2>1, <3>3, <3>4, GoesOn DEF Took
    <3> QED
      BY <1>1, <2>1, <2>2, <3>2, <3>3, <3>5 DEF Talk!Take, Talk!Receives
  <2>3. CASE turns[pos[r]].size # 0
    <3>1. state' = [state EXCEPT ![r] = "recv"] /\ pos' = pos /\ got' = got
      BY <1>4, <2>3 DEF BeginRecv
    <3>2. outcome' = outcome
      BY <1>1, <2>1, <3>1, Unseen
    <3> QED
      BY <2>1, <3>1, <3>2 DEF Talk!vars
  <2> QED
    BY <2>2, <2>3
<1>5. ASSUME NEW r \in Role, Recv(r)
      PROVE  Talk!Take(r) \/ UNCHANGED Talk!vars
  <2>1. /\ ~ Ended(r) /\ state[r] = "recv" /\ turns' = turns /\ told' = told
    BY <1>5 DEF Recv, Ended, fixed
  <2>2. Talk!Receives(r) /\ turns[pos[r]].from = Peer(r) /\ turns[pos[r]].size # 0
    <3>1. turns[pos[r]].from # r /\ Len(buf[r]) < turns[pos[r]].size
      BY <1>1, <2>1 DEF Place
    <3>2. Len(buf[r]) \in Nat
      <4>1. buf[r] \in Seq(Octet)
        BY <1>1 DEF NetType
      <4> QED
        BY <4>1, LenProperties
    <3>3. turns[pos[r]].from = Peer(r)
      BY <1>1, <2>1, <3>1, Roles
    <3>4. turns[pos[r]].size # 0
      BY <3>1, <3>2
    <3> QED
      BY <1>1, <2>1, <3>1, <3>3, <3>4 DEF Talk!Receives
  <2>3. PICK n \in 1..Len(wire[Peer(r)]) :
          LET b == buf[r] \o SubSeq(wire[Peer(r)], 1, n) IN
          IF Len(b) = turns[pos[r]].size
            THEN Took(r, b)
            ELSE pos' = pos /\ state' = state /\ got' = got
    BY <1>5 DEF Recv
  <2>4. PICK b : b = buf[r] \o SubSeq(wire[Peer(r)], 1, n)
    OBVIOUS
  <2>5. CASE Len(b) = turns[pos[r]].size
    <3>1. Len(b) <= turns[pos[r]].size
      <4>1. turns[pos[r]].size \in Nat
        BY <1>1, <2>1
      <4> QED
        BY <2>5, <4>1
    <3>2. /\ b \in Seq(Octet) /\ Len(b) = Len(buf[r]) + n
          /\ told[pos[r]] # NoMessage
          /\ \A x \in 1..Len(b) : b[x] = told[pos[r]][x]
          /\ up
      BY <2>1, <2>4, <3>1, Received, ZenonT(60)
    <3>3. /\ b = told[pos[r]] /\ b # NoMessage /\ Unpack(b, pos[r], r) = b
          /\ b \in turns[pos[r]].accept => pos[r] < pos[Peer(r)]
      BY <2>1, <2>5, <3>2, TakesWhole
    <3>4. Took(r, b)
      BY <2>3, <2>4, <2>5
    <3>5. got' = [got EXCEPT ![pos[r]] = b] /\ Talk!GoOn(r, b)
      BY <1>1, <2>1, <3>3, <3>4, GoesOn DEF Took
    <3> QED
      BY <2>1, <2>2, <3>3, <3>5 DEF Talk!Take
  <2>6. CASE Len(b) # turns[pos[r]].size
    <3>1. pos' = pos /\ state' = state /\ got' = got
      BY <2>3, <2>4, <2>6
    <3> QED
      BY <2>1, <3>1 DEF Talk!vars, outcome, Ended
  <2> QED
    BY <2>5, <2>6
<1>6. ASSUME NEW r \in Role, XmitFails(r)
      PROVE  Talk!Fail(r)
  <2>1. /\ ~ Ended(r) /\ turns' = turns /\ told' = told /\ got' = got
        /\ pos' = pos /\ state' = [state EXCEPT ![r] = "failed"]
    BY <1>6 DEF XmitFails, Ended, Stop, fixed
  <2>2. outcome' = [outcome EXCEPT ![r] = "failed"]
    BY <1>1, <2>1 DEF outcome, Ended, NetType
  <2> QED
    BY <1>1, <2>1, <2>2 DEF Talk!Fail
<1>7. CASE NetworkFails
  BY <1>7 DEF NetworkFails, fixed, Talk!vars, outcome, Ended
<1>8. CASE UNCHANGED netVars \/ \E r \in Role : CloseSocket(r)
  <2>1. UNCHANGED <<turns, pos, state, told, got>>
    BY <1>8 DEF netVars, fixed, CloseSocket
  <2> QED
    BY <2>1 DEF Talk!vars, outcome, Ended
<1>9. QED
  BY <1>2, <1>3, <1>4, <1>5, <1>6, <1>7, <1>8 DEF NetNext, Step, Talk!Next

(* The byte stream that usbip_net_xmit cuts into pieces implements the     *)
(* exchange of whole messages of module Dialogue, for any exchanges,       *)
(* windows and machines.  This is what lets the modules of the daemon and  *)
(* of its clients take a message for one step.                             *)
THEOREM NetImplementsDialogue == NetSpec => ImplementsDialogue
<1>1. NetInit => Talk!Init
  BY DEF NetInit, Talk!Init, outcome, Ended
<1>2. QED
  BY <1>1, TalkStep, NetInvInvariant, PTL DEF NetSpec, ImplementsDialogue, Talk!Spec
=============================================================================
